-------------------------- MODULE ProviderSecrets --------------------------
(***************************************************************************)
(* API keys at rest.  The server keeps them encrypted in its overlay file; *)
(* the encrypt-api-key command writes files of its own.  All processes of  *)
(* a user share one master key file, made by whoever needs it first:       *)
(* create-only, so a loser reads the winner's.  A process remembers the    *)
(* master it used and never goes on with another one.                      *)
(***************************************************************************)
EXTENDS Naturals, FiniteSets

CONSTANTS Server,    \* the serving process
          Commands,  \* encrypt-api-key processes, each with its output path
          MasterKeys,\* keys that may be generated or put there by hand
          NoKey

ASSUME ProviderSecretsAssumption ==
    /\ Server \notin Commands
    /\ NoKey \notin MasterKeys

VARIABLES master,   \* the key in the key file, or NoKey
          used,     \* keys generated so far
          overlay,  \* the overlay file
          output,   \* command -> the key its output is encrypted with
          proc,     \* process -> where its call stands and the key it knows
          tampered  \* somebody changed the key file by hand

secretsVars == <<master, used, overlay, output, proc, tampered>>

Users == Commands \cup {Server}
Dead == [step |-> "dead", known |-> NoKey]
CallSteps == {"dead", "idle", "key", "create", "write", "erase"}
NoOverlay == [kind |-> "none", key |-> NoKey]
Encrypted(k) == [kind |-> "cipher", key |-> k]

SecretsInit ==
    /\ master = NoKey /\ used = {}
    /\ overlay \in {NoOverlay, [kind |-> "legacy", key |-> NoKey]}
    /\ output = [c \in Commands |-> NoKey]
    /\ proc = [u \in Users |-> Dead]
    /\ tampered = FALSE

Goes(u, step) == proc' = [proc EXCEPT ![u].step = step]
Reads(u, key, step) == proc' = [proc EXCEPT ![u] = [step |-> step, known |-> key]]
IsAt(u, step) == proc[u].step = step
\* Where a failed call leaves its process: a command exits, and so does a
\* server whose start had a plaintext overlay to migrate.
Failed(u) == IF u = Server /\ overlay.kind # "legacy" THEN "idle" ELSE "dead"

-----------------------------------------------------------------------------
(* Calls.                                                                  *)

\* load_from: an overlay that cannot be opened keeps the server from
\* starting; plaintext of an older version is encrypted first.
StartOverlay ==
    /\ IsAt(Server, "dead")
    /\ \/ overlay.kind = "none" /\ Reads(Server, NoKey, "idle")
       \/ overlay.kind = "clear" /\ Reads(Server, NoKey, "idle")
       \/ overlay.kind = "legacy" /\ Reads(Server, NoKey, "key")
       \/ /\ overlay.kind = "cipher" /\ overlay.key = master
          /\ Reads(Server, master, "idle")
    /\ UNCHANGED <<master, used, overlay, output, tampered>>

\* encrypt_api_key_file: the output must not exist.
RunCommand(c) ==
    /\ IsAt(c, "dead") /\ output[c] = NoKey
    /\ Reads(c, NoKey, "key")
    /\ UNCHANGED <<master, used, overlay, output, tampered>>

\* save: ciphertext is only overwritten while its key is there, also by a
\* save that leaves no key behind.
SaveOverlay(withKey) ==
    /\ IsAt(Server, "idle")
    /\ IF overlay.kind = "cipher"
       THEN /\ master # NoKey /\ master = proc[Server].known
            /\ Goes(Server, IF withKey THEN "key" ELSE "erase")
       ELSE Goes(Server, IF withKey THEN "key" ELSE "erase")
    /\ UNCHANGED <<master, used, overlay, output, tampered>>

\* master: load, compare with what this process has used, create the first.
GetMaster(u) ==
    /\ IsAt(u, "key")
    /\ LET known == proc[u].known
       IN  IF master # NoKey
           THEN IF known \in {NoKey, master}
                THEN Reads(u, master, "write") ELSE Goes(u, Failed(u))
           ELSE Goes(u, IF known = NoKey THEN "create" ELSE Failed(u))
    /\ UNCHANGED <<master, used, overlay, output, tampered>>

\* Mutant: every process goes on with the key it generated.
OwnKey(fresh) == fresh

\* The key this process goes on with: its own if the link succeeded.
EstablishedKey(fresh) == IF master = NoKey THEN fresh ELSE master

\* create: generate, and link without replacing; the loser loads.
CreateMaster(u, fresh) ==
    /\ IsAt(u, "create") /\ fresh \notin used
    /\ used' = used \cup {fresh}
    /\ master' = IF master = NoKey THEN fresh ELSE master
    /\ Reads(u, EstablishedKey(fresh), "write")
    /\ UNCHANGED <<overlay, output, tampered>>

\* The file is written under its final name in one rename or link.
WriteSecret(u) ==
    /\ IsAt(u, "write")
    /\ IF u = Server
       THEN overlay' = Encrypted(proc[u].known) /\ UNCHANGED output
       ELSE output' = [output EXCEPT ![u] = proc[u].known] /\ UNCHANGED overlay
    /\ Goes(u, IF u = Server THEN "idle" ELSE "dead")
    /\ UNCHANGED <<master, used, tampered>>

\* A save that leaves no key in the overlay needs no master to write it.
EraseSecret ==
    /\ IsAt(Server, "erase")
    /\ overlay' = [kind |-> "clear", key |-> NoKey]
    /\ Goes(Server, "idle")
    /\ UNCHANGED <<master, used, output, tampered>>

\* A process is killed, or its call ends with an I/O error.
KillProcess(u) ==
    /\ ~IsAt(u, "dead")
    /\ \/ proc' = [proc EXCEPT ![u] = Dead]
       \/ Goes(u, Failed(u))
    /\ UNCHANGED <<master, used, overlay, output, tampered>>

\* Somebody removes the key file or puts another key there.
TamperMaster ==
    /\ master # NoKey \/ tampered
    /\ master' \in (used \cup {NoKey}) \ {master}
    /\ tampered' = TRUE
    /\ UNCHANGED <<used, overlay, output, proc>>

SecretsNext ==
    \/ StartOverlay \/ EraseSecret \/ TamperMaster
    \/ \E withKey \in BOOLEAN : SaveOverlay(withKey)
    \/ \E c \in Commands : RunCommand(c)
    \/ \E u \in Users :
         \/ GetMaster(u) \/ WriteSecret(u) \/ KillProcess(u)
         \/ \E fresh \in MasterKeys : CreateMaster(u, fresh)

SecretsSpec == SecretsInit /\ [][SecretsNext]_secretsVars

-----------------------------------------------------------------------------
SecretsTypeOK ==
    /\ master \in used \cup {NoKey} /\ used \subseteq MasterKeys
    /\ overlay \in [kind : {"none", "legacy", "clear", "cipher"},
                    key : MasterKeys \cup {NoKey}]
    /\ output \in [Commands -> MasterKeys \cup {NoKey}]
    /\ proc \in [Users -> [step : CallSteps, known : MasterKeys \cup {NoKey}]]
    /\ tampered \in BOOLEAN

\* Processes that meet at the first use of the key end up with one key, so
\* every file written can be read with the key that is on disk; and whatever
\* happens to the key file, the server never replaces ciphertext by something
\* only a key it did not open that ciphertext with can read.
SecretsStayReadable ==
    /\ [](~tampered =>
            /\ overlay.kind = "cipher" => overlay.key = master
            /\ \A c \in Commands : output[c] # NoKey => output[c] = master)
    /\ [][overlay.kind = "cipher" /\ overlay' # overlay
            => overlay.key = proc[Server].known]_secretsVars

=============================================================================
