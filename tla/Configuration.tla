---------------------------- MODULE Configuration ----------------------------
(***************************************************************************)
(* How a server comes up: where its settings come from (command line over  *)
(* environment over one configuration file over built-in defaults, key by  *)
(* key), what is refused, and in which order a start takes the data        *)
(* directory's lock, brings the schema to the program's version, runs the  *)
(* executor and answers requests.  init takes the same steps up to the     *)
(* schema; check looks and changes nothing.  An administrator edits files  *)
(* and environment at any time and runs commands of an older and a newer   *)
(* program on one directory.  Of options that are one text checked by      *)
(* itself (addresses, models, host names) one stands for all.              *)
(***************************************************************************)
EXTENDS Integers, FiniteSets

CONSTANTS Launches,       \* command line processes of this data directory
          SchemaOf,       \* process -> the schema version its program has
          CommandLines,   \* [command, config, dataDir, listen] that are typed
          FirstFiles,     \* what the files hold at first: place -> file
          Numbers,        \* option that is a number -> the numbers somebody enters
          Defaults,       \* option that is a number -> Settings' default
          MaxLease, MaxRemote, MinRequest, MaxRequest,
          MaxTimeout,     \* of the model client, in the environment
          EnvRadix,       \* 2^32: numbers of narrow options wrap in the environment
          NotSet, NoFile,
          MaxEdits        \* bound on the edits of the administrator

Narrow == {"remoteGeneration", "maxPages"}
Wide == {"lease", "renew", "request", "timeout"}

ASSUME ConfigurationAssumption ==
    /\ SchemaOf \in [Launches -> Nat \ {0}]
    /\ DOMAIN Numbers = Narrow \cup Wide /\ DOMAIN Defaults = DOMAIN Numbers
    /\ MaxTimeout \in Nat
    /\ \A k \in DOMAIN Numbers : Numbers[k] \subseteq Nat /\ Defaults[k] \in Nat
    /\ {MaxLease, MaxRemote, MinRequest, MaxRequest, EnvRadix} \subseteq Nat \ {0}
    /\ MaxEdits \in Nat

VARIABLES written,   \* place -> option -> value; NoFile if there is no such file
          edits,     \* edits so far
          prepared,  \* the data directory has its structure and lock file
          schema,    \* version of the database, 0 before there is one
          launch,    \* process -> its step and, once loaded, its settings
          foretold   \* what the last check that passed looked at

configVars == <<written, edits, prepared, schema, launch, foretold>>

-----------------------------------------------------------------------------
(* Options and where they are written.                                     *)

Files == {"explicit", "dataDir", "cwd"}
Places == Files \cup {"environment"}
Texts == {"config", "dataDir", "listen", "proxies", "origin", "tls", "certFile", "keyFile",
          "keyEnv", "keyPath"}
Paths == {"certFile", "keyFile"}
Options == Texts \cup DOMAIN Numbers

\* Only a file has a [tls] header of its own and the request timeout; only
\* the environment names a file and the timeout of the model client.
OptionsOf(place) ==
    Options \ IF place = "environment" THEN {"tls", "request"} ELSE {"config", "timeout"}

\* proxies is a list, and one of nothing but commas is an empty list, not an
\* absent one; a blank path counts as absent once it was taken.
Enterable(option) ==
    CASE option = "listen"   -> {"loopback", "anywhere"}
      [] option = "proxies"  -> {"none", "some"}
      [] option = "origin"   -> {"https", "malformed"}
      [] option \in Paths -> {"pem", "blank"}
      [] option \in {"config", "dataDir", "tls", "keyEnv", "keyPath"} -> {"given"}
      [] OTHER -> Numbers[option]

Nothing == [o \in Options |-> NotSet]

\* What a file, or the environment, says of the options; what is typed.
Section(section) ==
    /\ section = [o \in Options |-> section[o]]
    /\ \A o \in Options : section[o] \in Enterable(o) \cup {NotSet}
Typed == [command : {"serve", "init", "check"}, config : BOOLEAN, dataDir : BOOLEAN,
          listen : Enterable("listen") \cup {NotSet}]

ASSUME SourcesAssumption ==
    /\ CommandLines \subseteq Typed /\ NotSet \notin Typed
    /\ \A first \in FirstFiles :
          /\ first = [place \in Places |-> first[place]]
          /\ Section(first["environment"])
          /\ \A place \in Files : first[place] = NoFile \/ Section(first[place])
          /\ \A place \in Places : first[place] # NoFile =>
                \A o \in Options \ OptionsOf(place) : first[place][o] = NotSet

Idle == [step |-> "none"]
NoVerdict == [line |-> NotSet, edits |-> 0]

ConfigurationInit ==
    /\ written \in FirstFiles
    /\ edits = 0 /\ schema = 0 /\ prepared \in BOOLEAN
    /\ launch = [p \in Launches |-> Idle]
    /\ foretold = NoVerdict

\* env_nonempty: a blank variable is none.
InEnvironment(option) ==
    LET value == written["environment"][option]
    IN  IF option \in Paths /\ value = "blank" THEN NotSet ELSE value

\* env_u64 and the casts of apply_env.
FromEnvironment(option) ==
    LET value == InEnvironment(option)
    IN  IF option \in Narrow /\ value # NotSet THEN value % EnvRadix ELSE value

\* Which file is read; NotSet if there is none to read.  --config and
\* EM_CONFIG name one and the same file.
FileOf(line) ==
    LET named == line.config \/ InEnvironment("config") # NotSet
        hint  == line.dataDir \/ InEnvironment("dataDir") # NotSet
    IN  CASE named -> "explicit"
          [] ~named /\ hint /\ written["dataDir"] # NoFile -> "dataDir"
          [] ~named /\ ~(hint /\ written["dataDir"] # NoFile)
                /\ written["cwd"] # NoFile -> "cwd"
          [] OTHER -> NotSet

\* file::load: the file that is named exists, and narrow numbers in a file
\* are narrow.
FileReadable(line) ==
    FileOf(line) # NotSet =>
        LET file == written[FileOf(line)]
        IN  file # NoFile /\ \A o \in Narrow : file[o] # NotSet => file[o] < EnvRadix

InFile(line, option) ==
    IF FileOf(line) = NotSet THEN NotSet ELSE written[FileOf(line)][option]

OnCommandLine(line, option) ==
    CASE option = "listen"                  -> line.listen
      [] option = "dataDir" /\ line.dataDir -> "given"
      [] OTHER                              -> NotSet

\* Command line over environment over file.
Given(line, option) ==
    LET over(first, second) == IF first # NotSet THEN first ELSE second
    IN  over(OnCommandLine(line, option),
             over(FromEnvironment(option), InFile(line, option)))

Number(line, option) ==
    IF Given(line, option) = NotSet THEN Defaults[option] ELSE Given(line, option)

-----------------------------------------------------------------------------
(* What is refused.                                                        *)

\* Mutant: the two are compared where the renewal is read.
JobsLegalIfRenewed(line) ==
    /\ Number(line, "lease") \in 1 .. MaxLease
    /\ Given(line, "renew") # NotSet =>
          Number(line, "renew") \in 1 .. Number(line, "lease") - 1
    /\ Number(line, "request") \in MinRequest .. MaxRequest

\* resolve_jobs
JobsLegal(line) ==
    /\ Number(line, "lease") \in 1 .. MaxLease
    /\ Number(line, "renew") \in 1 .. Number(line, "lease") - 1
    /\ Number(line, "request") \in MinRequest .. MaxRequest

\* resolve_concurrency and resolve_limits, after the cast.
LimitsLegal(line) ==
    /\ Number(line, "remoteGeneration") \in 1 .. MaxRemote
    /\ Number(line, "maxPages") > 0

\* resolve_tls: a section that is there, be it by its header alone, has both
\* files, and they are PEM.
TlsGiven(line) ==
    InFile(line, "tls") # NotSet \/ \E o \in Paths : Given(line, o) # NotSet
TlsLegal(line) ==
    TlsGiven(line) => \A o \in Paths : Given(line, o) = "pem"

\* resolve_provider: a key has one source; resolve_cidrs, resolve_download,
\* validate_origin_like: text that is not what it should be.
TextsLegal(line) ==
    /\ ~(Given(line, "keyEnv") # NotSet /\ Given(line, "keyPath") # NotSet)
    /\ Given(line, "origin") # "malformed"

\* Settings::load
Loads(line) ==
    /\ FileReadable(line)
    /\ Given(line, "dataDir") # NotSet
    /\ JobsLegal(line) /\ LimitsLegal(line) /\ TlsLegal(line) /\ TextsLegal(line)

\* evaluate_listen_security: no TLS listener exists yet; whoever listens to
\* others stands behind a proxy that is named.
ListenSecure(line) ==
    /\ ~TlsGiven(line)
    /\ Given(line, "listen") = "anywhere" => Given(line, "proxies") = "some"

\* The settings a process goes on with.
Settings(line) ==
    [lease   |-> Number(line, "lease"),
     renew   |-> Number(line, "renew"),
     request |-> Number(line, "request"),
     remoteGeneration |-> Number(line, "remoteGeneration"),
     maxPages |-> Number(line, "maxPages"),
     timeout |-> InEnvironment("timeout"),
     exposed |-> Given(line, "listen") = "anywhere",
     proxied |-> Given(line, "proxies") = "some",
     secureCookie |-> Given(line, "origin") = "https" \/ TlsGiven(line)]

\* ExecutorConfig::validate looks once more.
ExecutorLegal(settings) ==
    /\ settings.lease > 0
    /\ settings.renew \in 1 .. settings.lease - 1
    /\ settings.remoteGeneration \in 1 .. MaxRemote

\* ManualAiTimeouts::from_environment: a timeout of the model client, be it
\* one that the file overrides afterwards, is within its limits.
ClientLegal(settings) ==
    settings.timeout # NotSet => settings.timeout \in MinRequest .. MaxTimeout

-----------------------------------------------------------------------------
(* The administrator.                                                      *)

\* Somebody changes one option of a file or of the environment, or moves a
\* file away.
Edit ==
    /\ edits < MaxEdits
    /\ \/ \E place \in Places : \E option \in OptionsOf(place) :
             /\ written[place] # NoFile
             /\ \E value \in Enterable(option) \cup {NotSet} :
                   written' = [written EXCEPT ![place][option] = value]
       \/ \E place \in Files :
             /\ written[place] # NoFile
             /\ written' = [written EXCEPT ![place] = NoFile]
    /\ written' # written
    /\ edits' = edits + 1
    /\ UNCHANGED <<prepared, schema, launch, foretold>>

\* run_check: reads; that the lock is held is only a warning.
Check(p, line) ==
    /\ line.command = "check" /\ launch[p] = Idle
    /\ Loads(line) /\ prepared /\ schema <= SchemaOf[p] /\ ListenSecure(line)
    /\ foretold' = [line |-> line, edits |-> edits]
    /\ UNCHANGED <<written, edits, prepared, schema, launch>>

-----------------------------------------------------------------------------
(* A process.                                                              *)

IsIn(p, step) == launch[p].step = step
Proceeds(p, step) == launch' = [launch EXCEPT ![p].step = step]
Exits(p) == launch' = [launch EXCEPT ![p] = Idle]

\* A process that has the lock.
Owners == {p \in Launches : launch[p].step \in {"locked", "ready", "executing", "serving", "stopping"}}

\* serve and init load their settings; only serve minds the listener.
Load(p, line) ==
    /\ line.command \in {"serve", "init"} /\ IsIn(p, "none")
    /\ LET accepted == Loads(line) /\ (line.command = "serve" => ListenSecure(line))
       IN  launch' = [launch EXCEPT ![p] =
               IF accepted
               THEN [step |-> "loaded", line |-> line, edits |-> edits,
                     settings |-> Settings(line)]
               ELSE [step |-> "refused", line |-> line, edits |-> edits, by |-> "settings"]]
    /\ UNCHANGED <<written, edits, prepared, schema, foretold>>

\* ensure_initialized of init; serve wants to find it done.
Prepare(p) ==
    /\ IsIn(p, "loaded")
    /\ IF launch[p].line.command = "init"
       THEN prepared' = TRUE /\ Proceeds(p, "prepared")
       ELSE /\ UNCHANGED prepared
            /\ IF prepared THEN Proceeds(p, "prepared") ELSE Exits(p)
    /\ UNCHANGED <<written, edits, schema, foretold>>

\* DirLock: one process, or none.
Lock(p) ==
    /\ IsIn(p, "prepared")
    /\ IF Owners = {} THEN Proceeds(p, "locked") ELSE Exits(p)
    /\ UNCHANGED <<written, edits, prepared, schema, foretold>>

\* ensure_compatible and the migrations, each in a transaction of its own.
Migrate(p) ==
    /\ IsIn(p, "locked")
    /\ CASE schema > SchemaOf[p] -> Exits(p) /\ UNCHANGED schema
         [] schema < SchemaOf[p] -> schema' = schema + 1 /\ UNCHANGED launch
         [] OTHER -> /\ IF launch[p].line.command = "init"
                        THEN Exits(p) ELSE Proceeds(p, "ready")
                     /\ UNCHANGED schema
    /\ UNCHANGED <<written, edits, prepared, foretold>>

\* The executor is started before the address is bound; where a model answers
\* (keys and names of models, the saved overlay's included, decide), its
\* client is built first, which no check does ...
StartExecutor(p) ==
    /\ IsIn(p, "ready")
    /\ \E asksModel \in BOOLEAN :
         LET refuses(by) ==
                launch' = [launch EXCEPT ![p] =
                    [step |-> "refused", line |-> @.line, edits |-> @.edits, by |-> by]]
         IN  CASE ~ExecutorLegal(launch[p].settings) -> refuses("executor")
               [] /\ ExecutorLegal(launch[p].settings)
                  /\ asksModel /\ ~ClientLegal(launch[p].settings) -> refuses("client")
               [] OTHER -> Proceeds(p, "executing")
    /\ UNCHANGED <<written, edits, prepared, schema, foretold>>

\* ... and a start that finds the address taken ends with it running.
Bind(p) ==
    /\ IsIn(p, "executing")
    /\ Proceeds(p, "serving") \/ Exits(p)
    /\ UNCHANGED <<written, edits, prepared, schema, foretold>>

\* A signal stops the requests first, then the executor, the database and
\* the lock.
StopServing(p) ==
    /\ IsIn(p, "serving") /\ Proceeds(p, "stopping")
    /\ UNCHANGED <<written, edits, prepared, schema, foretold>>

\* The end of a stop, of a refusal, or a kill at any moment; the system
\* takes the lock back.
End(p) ==
    /\ launch[p] # Idle /\ Exits(p)
    /\ UNCHANGED <<written, edits, prepared, schema, foretold>>

ConfigurationNext ==
    \/ Edit
    \/ \E p \in Launches, line \in CommandLines : Check(p, line) \/ Load(p, line)
    \/ \E p \in Launches :
          \/ Prepare(p) \/ Lock(p) \/ Migrate(p) \/ StartExecutor(p)
          \/ Bind(p) \/ StopServing(p) \/ End(p)

ConfigurationSpec == ConfigurationInit /\ [][ConfigurationNext]_configVars

-----------------------------------------------------------------------------
ConfigurationTypeOK ==
    /\ edits \in 0 .. MaxEdits /\ prepared \in BOOLEAN /\ schema \in Nat
    /\ \A place \in Places :
          \/ written[place] = NoFile
          \/ Section(written[place])
    /\ \A p \in Launches : launch[p].step \in
          {"none", "refused", "loaded", "prepared", "locked", "ready", "executing",
           "serving", "stopping"}

\* Whatever mixture of sources a process was started with, and whoever else
\* is starting, upgrading or stopping on the directory: the executor never
\* runs on another program's schema, nor beside another one; its leases are
\* renewed before they lapse and its limits are neither off nor beyond the
\* maximum, wrapped or not; it listens to others only behind a proxy.  And of
\* settings that a check of the same command line just passed, a start refuses
\* none but the timeout of the model client.
ServersAreAsChecked ==
    \A p \in Launches :
        /\ launch[p].step \in {"executing", "serving", "stopping"} =>
             LET s == launch[p].settings
             IN  /\ Owners = {p} /\ schema = SchemaOf[p]
                 /\ 1 <= s.renew /\ s.renew < s.lease /\ s.lease <= MaxLease
                 /\ 1 <= s.remoteGeneration /\ s.remoteGeneration <= MaxRemote
                 /\ s.maxPages > 0
                 /\ s.exposed => s.proxied
        /\ launch[p].step = "refused" /\ launch[p].by # "client" =>
             foretold # [line |-> [launch[p].line EXCEPT !.command = "check"],
                         edits |-> launch[p].edits]
=============================================================================
