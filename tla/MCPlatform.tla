---------------------------- MODULE MCPlatform -----------------------------
(* What the server stands on and what its stages do inside: logins and     *)
(* sessions, the blob store, backup and restore, PDF preparations, the     *)
(* keys at rest, the knowledge read from a manual, the files of the model  *)
(* branch, the check of a model, the prices of a quote, what a draft holds *)
(* and how a server is configured and started.  These components share no  *)
(* variable, so a behaviour follows one of them and the others rest.       *)
EXTENDS SignIn, AssetStore, Backups, Preparations, ProviderSecrets,
        Knowledge, ModelFiles, ModelCheck, Pricing, DraftContent, Configuration

VARIABLE part  \* the component this behaviour follows

\* Answers of the model: a part with or without a second one and a step
\* that names one of them; a part without a page; no part; nothing.
Entity(kind, local, body, refs, cites) ==
    [kind |-> kind, local |-> local, key |-> "name", body |-> body,
     refs |-> refs, cites |-> cites]

Cite(page, quote) == [page |-> page, quote |-> quote]

MCOutputs ==
    {<<Entity("part", 1, b, {}, {Cite(p, q)}),
       Entity("part", l, "b1", {}, {Cite(p, "q1")}),
       Entity("step", 1, "b1", {r}, {Cite(p, "q2")})>> :
         p \in 1 .. 3, b \in {"b1", "b2"}, q \in {"q1", "q2"}, l \in {1, 2}, r \in {1, 3}}
      \cup {<<Entity("part", 1, "b1", {}, {}), Entity("uncertain", 1, "b1", {}, {})>>,
            <<Entity("uncertain", 1, "b1", {}, {})>>,
            <<>>}

MCLiterals ==
    {[whole |-> 0, digits |-> 2, frac |-> 1], [whole |-> 1, digits |-> 1, frac |-> 2],
     [whole |-> 0, digits |-> 0, frac |-> 0]}

MCOverhead == [upper |-> 2, expected |-> 1]

MCImage == [upper |-> 3, expected |-> 1]

\* Parts models: one that fits the model's box, one that names two nodes
\* alike, one that fits alone and one that is moved out of the box.
PartsNode(name, at, mesh) == [name |-> name, at |-> at, mesh |-> mesh, plain |-> TRUE]

Box(lo, hi) == [lo |-> lo, hi |-> hi]

PartsFile(nodes, meshes) == [glb |-> TRUE, nodes |-> nodes, meshes |-> meshes]

MCPartsFiles ==
    LET two == <<{Box(0, 1)}, {Box(-2, 0), Box(0, 1)}>>
    IN  {PartsFile(<<PartsNode("lid", 2, 1), PartsNode("base", 0, 2)>>, two),
         PartsFile(<<PartsNode("lid", -2, 2), PartsNode("lid", 2, 1)>>, two),
         PartsFile(<<PartsNode("base", 0, 1)>>, <<{Box(-2, 3)}>>),
         PartsFile(<<PartsNode("base", 3, 1)>>, <<{Box(-2, 3)}>>)}

MCBounds == Box(-2, 3)

APart == CHOOSE p \in PartNames : TRUE

MCFinds == {[parts |-> {APart}, steps |-> StepNames]}

MCFormers ==
    {[model |-> OldModel, part |-> APart],
     [model |-> NewModel, part |-> CHOOSE p \in PartNames : p # APart]}

\* The process p1 runs an older program than the others.
MCSchemaOf == [p \in Launches |-> IF p = CHOOSE q \in Launches : TRUE THEN 1 ELSE 2]

Line(command, config, dataDir, listen) ==
    [command |-> command, config |-> config, dataDir |-> dataDir, listen |-> listen]

MCCommandLines ==
    {Line("serve", FALSE, TRUE, NotSet), Line("check", FALSE, TRUE, NotSet),
     Line("init", TRUE, TRUE, NotSet), Line("serve", TRUE, FALSE, "anywhere")}

MCNumbers ==
    [o \in {"lease", "renew", "request", "timeout", "remoteGeneration", "maxPages"} |->
        CASE o = "lease"   -> {0, 1, 4, 5}
          [] o = "renew"   -> {0, 3}
          [] o = "request" -> {1}
          [] o = "timeout" -> {1, 4}
          [] OTHER         -> {0, 3, 4, 5}]

MCDefaults ==
    [lease |-> 3, renew |-> 1, request |-> 2, timeout |-> 2, remoteGeneration |-> 2, maxPages |-> 3]

MCFirstFiles ==
    LET exposed == [Nothing EXCEPT !["listen"] = "anywhere", !["proxies"] = "some"]
        renewed == [Nothing EXCEPT !["renew"] = 3, !["lease"] = 4]
    IN  {[explicit |-> Nothing, dataDir |-> NoFile, cwd |-> exposed, environment |-> Nothing],
         [explicit |-> exposed, dataDir |-> exposed, cwd |-> NoFile, environment |-> renewed]}

\* Both files belong in one prefix directory.
MCPrefixDirs == {Contents}

PlatformInit ==
    /\ part \in {"sign-in", "assets", "backups", "preparations", "secrets",
                 "knowledge", "model-files", "model-check", "pricing", "draft-content",
                 "configuration"}
    /\ SignInInit /\ StoreInit /\ BackupsInit /\ PrepsInit /\ SecretsInit
    /\ KnowledgeInit /\ ModelFilesInit /\ ModelCheckInit /\ PricingInit
    /\ ContentInit /\ ConfigurationInit
    /\ part = "secrets" \/ overlay = NoOverlay
    /\ \/ part = "knowledge"
       \/ /\ pages = <<"text">>
          /\ prompt.build = CHOOSE v \in Versions : TRUE
    /\ part = "pricing" \/ (sealed = <<1>> /\ ~ setup.configured /\ ~ setup.autoStages
                            /\ setup.model = "v3")
    /\ part = "draft-content" \/ former = NoDraft
    /\ part = "configuration" \/ (written["dataDir"] = NoFile /\ ~prepared)

PlatformNext ==
    /\ UNCHANGED part
    /\ IF part = "sign-in" THEN SignInNext ELSE UNCHANGED signInVars
    /\ IF part = "assets" THEN StoreNext ELSE UNCHANGED storeVars
    /\ IF part = "backups" THEN BackupsNext ELSE UNCHANGED backupsVars
    /\ IF part = "preparations" THEN PrepsNext ELSE UNCHANGED prepsVars
    /\ IF part = "secrets" THEN SecretsNext ELSE UNCHANGED secretsVars
    /\ IF part = "knowledge" THEN KnowledgeNext ELSE UNCHANGED knowledgeVars
    /\ IF part = "model-files" THEN ModelFilesNext ELSE UNCHANGED modelFilesVars
    /\ IF part = "model-check" THEN ModelCheckNext ELSE UNCHANGED modelCheckVars
    /\ IF part = "pricing" THEN PricingNext ELSE UNCHANGED pricingVars
    /\ IF part = "draft-content" THEN ContentNext ELSE UNCHANGED contentVars
    /\ IF part = "configuration" THEN ConfigurationNext ELSE UNCHANGED configVars

PlatformSpec ==
    PlatformInit /\ [][PlatformNext]_<<part, signInVars, storeVars, backupsVars,
                                       prepsVars, secretsVars, knowledgeVars,
                                       modelFilesVars, modelCheckVars, pricingVars,
                                       contentVars, configVars>>

\* Every component's state keeps its types.
PlatformTypeOK ==
    /\ SignInTypeOK
    /\ StoreTypeOK
    /\ BackupsTypeOK
    /\ PrepsTypeOK
    /\ SecretsTypeOK
    /\ KnowledgeTypeOK
    /\ ModelFilesTypeOK
    /\ ModelCheckTypeOK
    /\ PricingTypeOK
    /\ ContentTypeOK
    /\ ConfigurationTypeOK
=============================================================================
