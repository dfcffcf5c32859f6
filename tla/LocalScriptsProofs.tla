-------------------------- MODULE LocalScriptsProofs --------------------------
(***************************************************************************)
(* TLAPS proofs about LocalScripts, for every tree, table of mutations,    *)
(* suite and list of features, and any number of runs and of troubles.     *)
(***************************************************************************)
EXTENDS LocalScripts, SequenceTheorems, WellFoundedInduction, TLAPS

-----------------------------------------------------------------------------
(* The mutation campaign.                                                  *)

TreeType == [Files -> Seq(Fragments)]
Outcomes == {"killed", "survived", "skipped", "raised"}

CampaignTypeOK ==
  /\ text \in TreeType /\ found \in TreeType
  /\ campaign \in [pc      : {"off", "next", "apply", "test", "restore", "failed", "succeeded"},
                   i       : Nat \ {0},
                   backup  : Seq(Fragments),
                   results : Seq(Outcomes),
                   edited  : BOOLEAN]

(* Where the loop is: one outcome per mutation tried, and none after the    *)
(* one that raised.                                                         *)
LoopInv ==
  LET n == Len(campaign.results)
  IN  /\ campaign.pc \in {"apply", "test", "restore"} => campaign.i <= Len(Mutations)
      /\ campaign.pc \in {"next", "apply", "test", "succeeded"} =>
           /\ n = campaign.i - 1
           /\ \A k \in 1..n : campaign.results[k] # "raised"
      /\ campaign.pc = "restore" =>
           /\ n = campaign.i
           /\ \A k \in 1..(n - 1) : campaign.results[k] # "raised"
      /\ campaign.pc = "succeeded" =>
           /\ campaign.i > Len(Mutations)
           /\ \A k \in 1..n : campaign.results[k] # "survived"

(* What the backup holds and what an outcome says of the tree as found, as  *)
(* long as nobody else writes to it.                                        *)
OutcomeMeans(k, outcome) ==
  /\ outcome = "skipped" => ~Applicable(Mutations[k], found)
  /\ outcome = "killed" => Suite(Mutated(Mutations[k], found)) = "fail"

TreeInv ==
  campaign.pc # "off" /\ ~campaign.edited =>
    /\ campaign.pc \in {"apply", "test", "restore"} => campaign.backup = found[Mutation.file]
    /\ campaign.pc \notin {"failed"} =>
         \A k \in DOMAIN campaign.results : OutcomeMeans(k, campaign.results[k])
    /\ text = IF UnderTest THEN Mutated(Mutation, found) ELSE found

CampaignInv == CampaignTypeOK /\ LoopInv /\ TreeInv

(* Writing a file makes a tree of a tree. *)
LEMMA WriteFile ==
  ASSUME NEW tree \in TreeType, NEW file, NEW content \in Seq(Fragments)
  PROVE  [tree EXCEPT ![file] = content] \in TreeType
  BY DEF TreeType

(* A mutated tree is a tree, and writing one file of the tree back as it    *)
(* was undoes the mutation.                                                 *)
LEMMA MutateRestore ==
  ASSUME NEW tree \in TreeType, NEW k \in 1..Len(Mutations)
  PROVE  /\ Mutations[k].file \in Files
         /\ Mutated(Mutations[k], tree) \in TreeType
         /\ [Mutated(Mutations[k], tree) EXCEPT ![Mutations[k].file]
               = tree[Mutations[k].file]] = tree
         /\ [tree EXCEPT ![Mutations[k].file] = tree[Mutations[k].file]] = tree
  <1> DEFINE m == Mutations[k]
             mutant == [p \in DOMAIN tree[m.file] |->
                          IF tree[m.file][p] = m.old THEN m.new ELSE tree[m.file][p]]
  <1>1. m \in [file : Files, old : Fragments, new : Fragments]
    BY ScriptsAssumption, ElementOfSeq
  <1>2. m.file \in Files /\ m.new \in Fragments /\ tree[m.file] \in Seq(Fragments)
    BY <1>1 DEF TreeType
  <1>3. mutant \in Seq(Fragments)
    <2>1. /\ Len(tree[m.file]) \in Nat /\ DOMAIN tree[m.file] = 1..Len(tree[m.file])
          /\ \A p \in DOMAIN tree[m.file] : tree[m.file][p] \in Fragments
      BY <1>2
    <2>2. mutant \in [1..Len(tree[m.file]) -> Fragments]
      BY <1>2, <2>1
    <2> QED
      BY <2>1, <2>2, IsASeq
  <1>4. Mutated(m, tree) = [tree EXCEPT ![m.file] = mutant]
    BY DEF Mutated
  <1> HIDE DEF m, mutant
  <1>5. /\ Mutated(m, tree) \in TreeType
        /\ [Mutated(m, tree) EXCEPT ![m.file] = tree[m.file]] = tree
        /\ [tree EXCEPT ![m.file] = tree[m.file]] = tree
    BY <1>2, <1>3, <1>4 DEF TreeType
  <1> QED
    BY <1>2, <1>5 DEF m

(* The campaign starts at rest. *)
LEMMA InitCampaign == Init => CampaignInv
  <1> SUFFICES ASSUME Init PROVE CampaignInv
    OBVIOUS
  <1>1. /\ campaign = [pc |-> "off", i |-> 1, backup |-> <<>>, results |-> <<>>,
                       edited |-> FALSE]
        /\ text \in TreeType /\ found \in TreeType
    BY ScriptsAssumption DEF Init, NewCampaign, TreeType
  <1>2. CampaignTypeOK
    BY <1>1 DEF CampaignTypeOK
  <1> QED
    BY <1>1, <1>2 DEF CampaignInv, LoopInv, TreeInv

(* Each step of the loop. *)
LEMMA StartCampaignStep == CampaignInv /\ StartCampaign => CampaignInv'
  BY DEF StartCampaign, CampaignAt, NewCampaign, CampaignInv, CampaignTypeOK, LoopInv,
         TreeInv, UnderTest

LEMMA BackupStep == CampaignInv /\ Backup => CampaignInv'
  <1> SUFFICES ASSUME CampaignInv, Backup PROVE CampaignInv'
    OBVIOUS
  <1>1. /\ campaign.pc = "next" /\ campaign.i \in 1..Len(Mutations)
        /\ campaign' = [campaign EXCEPT !.pc = "apply", !.backup = text[Mutation.file]]
        /\ text' = text /\ found' = found
    BY ScriptsAssumption DEF Backup, CampaignAt, CampaignInv, CampaignTypeOK
  <1>2. text[Mutation.file] \in Seq(Fragments)
    BY <1>1, MutateRestore DEF Mutation, CampaignInv, CampaignTypeOK, TreeType
  <1>3. Mutation' = Mutation
    BY <1>1 DEF Mutation, CampaignInv, CampaignTypeOK
  <1>4. CampaignTypeOK'
    BY <1>1, <1>2 DEF CampaignInv, CampaignTypeOK
  <1>5. LoopInv'
    BY <1>1, <1>4 DEF CampaignInv, CampaignTypeOK, LoopInv
  <1>6. TreeInv'
    BY <1>1, <1>3, <1>4
    DEF CampaignInv, CampaignTypeOK, LoopInv, TreeInv, UnderTest, OutcomeMeans
  <1> QED
    BY <1>4, <1>5, <1>6 DEF CampaignInv

(* An outcome is appended to the others. *)
LEMMA OutcomeAppended ==
  ASSUME CampaignInv, NEW outcome \in Outcomes, campaign.pc \in {"apply", "test"},
         campaign' = [campaign EXCEPT !.pc = "restore",
                                      !.results = Append(@, outcome)],
         text' = text, found' = found,
         ~campaign.edited => OutcomeMeans(campaign.i, outcome),
         (campaign.pc = "apply") <=> (outcome = "skipped")
  PROVE  CampaignInv'
  <1>1. /\ Len(campaign.results) = campaign.i - 1 /\ Len(campaign.results) \in Nat
        /\ campaign'.results = Append(campaign.results, outcome)
        /\ campaign'.pc = "restore" /\ campaign'.i = campaign.i
        /\ campaign'.edited = campaign.edited /\ campaign'.backup = campaign.backup
    BY DEF CampaignInv, CampaignTypeOK, LoopInv
  <1>2. /\ Len(campaign'.results) = campaign.i
        /\ campaign'.results[campaign.i] = outcome
        /\ \A k \in 1..(campaign.i - 1) : campaign'.results[k] = campaign.results[k]
        /\ Last(campaign'.results) = outcome
        /\ campaign'.results \in Seq(Outcomes)
        /\ DOMAIN campaign.results = 1..(campaign.i - 1)
        /\ DOMAIN campaign'.results = 1..campaign.i
    BY <1>1 DEF CampaignInv, CampaignTypeOK, Last
  <1>3. CampaignTypeOK'
    BY <1>2 DEF CampaignInv, CampaignTypeOK
  <1>4. LoopInv'
    BY <1>1, <1>2, <1>3 DEF CampaignInv, CampaignTypeOK, LoopInv
  <1>5. TreeInv'
    <2> SUFFICES ASSUME ~campaign.edited PROVE TreeInv'
      BY <1>1 DEF TreeInv
    <2>1. Mutation' = Mutation
      BY <1>1 DEF Mutation
    <2>2. campaign'.backup = found[Mutation.file]
      BY <1>1 DEF CampaignInv, TreeInv
    <2>3. \A k \in 1..campaign.i : OutcomeMeans(k, campaign'.results[k])
      <3>1. \A k \in 1..(campaign.i - 1) : OutcomeMeans(k, campaign.results[k])
        BY <1>2 DEF CampaignInv, TreeInv
      <3>2. campaign.i \in Nat
        BY DEF CampaignInv, CampaignTypeOK
      <3> QED
        BY <1>2, <3>1, <3>2
    <2>4. text = IF campaign.pc = "apply" THEN found ELSE Mutated(Mutation, found)
      BY DEF CampaignInv, TreeInv, UnderTest
    <2>5. UnderTest' <=> outcome # "skipped"
      BY <1>1, <1>2 DEF UnderTest
    <2> QED
      BY <1>1, <1>2, <2>1, <2>2, <2>3, <2>4, <2>5 DEF TreeInv, OutcomeMeans
  <1> QED
    BY <1>3, <1>4, <1>5 DEF CampaignInv

LEMMA ApplyMutationStep == CampaignInv /\ ApplyMutation => CampaignInv'
  <1> SUFFICES ASSUME CampaignInv, ApplyMutation PROVE CampaignInv'
    OBVIOUS
  <1>1. /\ campaign.pc = "apply" /\ campaign.i \in 1..Len(Mutations) /\ found' = found
    BY ScriptsAssumption DEF ApplyMutation, CampaignAt, CampaignInv, CampaignTypeOK, LoopInv
  <1>2. ~campaign.edited => text = found
    BY <1>1 DEF CampaignInv, TreeInv, UnderTest
  <1>3. CASE Applicable(Mutation, text)
    <2>1. /\ text' = Mutated(Mutation, text)
          /\ campaign' = [campaign EXCEPT !.pc = "test"]
      BY <1>3 DEF ApplyMutation
    <2>2. Mutation' = Mutation
      BY <2>1 DEF Mutation, CampaignInv, CampaignTypeOK
    <2>3. CampaignTypeOK'
      BY <1>1, <2>1, MutateRestore DEF CampaignInv, CampaignTypeOK, Mutation
    <2>4. LoopInv'
      BY <1>1, <2>1, <2>3 DEF CampaignInv, CampaignTypeOK, LoopInv
    <2>5. TreeInv'
      BY <1>1, <1>2, <2>1, <2>2
      DEF CampaignInv, CampaignTypeOK, TreeInv, UnderTest, OutcomeMeans
    <2> QED
      BY <2>3, <2>4, <2>5 DEF CampaignInv
  <1>4. CASE ~Applicable(Mutation, text)
    <2>1. /\ text' = text
          /\ campaign' = [campaign EXCEPT !.pc = "restore", !.results = Append(@, "skipped")]
      BY <1>4 DEF ApplyMutation
    <2>2. ~campaign.edited => OutcomeMeans(campaign.i, "skipped")
      BY <1>2, <1>4 DEF OutcomeMeans, Mutation
    <2>3. "skipped" \in Outcomes
      BY DEF Outcomes
    <2> QED
      BY <1>1, <2>1, <2>2, <2>3, OutcomeAppended
  <1> QED
    BY <1>3, <1>4

LEMMA RunForgeTestStep == CampaignInv /\ RunForgeTest => CampaignInv'
  <1> SUFFICES ASSUME CampaignInv, RunForgeTest PROVE CampaignInv'
    OBVIOUS
  <1>1. PICK outcome :
          /\ outcome = CASE Suite(text) = "pass" -> "survived"
                         [] Suite(text) = "fail" -> "killed"
                         [] OTHER                -> "raised"
          /\ campaign.pc = "test" /\ text' = text /\ found' = found
          /\ campaign' = [campaign EXCEPT !.pc = "restore", !.results = Append(@, outcome)]
    BY DEF RunForgeTest, CampaignAt
  <1>2. outcome \in Outcomes /\ outcome # "skipped" /\ (outcome = "killed" => Suite(text) = "fail")
    BY <1>1 DEF Outcomes
  <1>3. ~campaign.edited => text = Mutated(Mutation, found)
    BY <1>1 DEF CampaignInv, TreeInv, UnderTest
  <1>4. ~campaign.edited => OutcomeMeans(campaign.i, outcome)
    BY <1>2, <1>3 DEF OutcomeMeans, Mutation
  <1> QED
    BY <1>1, <1>2, <1>4, OutcomeAppended

LEMMA RestoreStep == CampaignInv /\ Restore => CampaignInv'
  <1> SUFFICES ASSUME CampaignInv, Restore PROVE CampaignInv'
    OBVIOUS
  <1> DEFINE last == Last(campaign.results)
  <1>1. /\ campaign.pc = "restore" /\ campaign.i \in 1..Len(Mutations) /\ found' = found
        /\ text' = [text EXCEPT ![Mutation.file] = campaign.backup]
        /\ Len(campaign.results) = campaign.i /\ last = campaign.results[campaign.i]
    BY ScriptsAssumption
    DEF Restore, CampaignAt, CampaignInv, CampaignTypeOK, LoopInv, Last
  <1>2. /\ campaign' = [campaign EXCEPT !.i = @ + 1,
                                        !.pc = IF last = "raised" THEN "failed" ELSE "next"]
        /\ campaign'.i = campaign.i + 1
        /\ campaign'.pc = (IF last = "raised" THEN "failed" ELSE "next")
        /\ campaign'.results = campaign.results /\ campaign'.edited = campaign.edited
    BY DEF Restore, CampaignInv, CampaignTypeOK
  <1>3. CampaignTypeOK'
    <2>1. text' \in TreeType
      <3>1. campaign.backup \in Seq(Fragments) /\ text \in TreeType
        BY DEF CampaignInv, CampaignTypeOK
      <3> QED
        BY <1>1, <3>1, WriteFile
    <2>2. PICK pc \in {"failed", "next"} :
            campaign' = [campaign EXCEPT !.i = @ + 1, !.pc = pc]
      BY <1>2
    <2>3. /\ campaign' = [campaign EXCEPT !.i = campaign.i + 1, !.pc = pc]
          /\ campaign.i + 1 \in Nat \ {0} /\ found \in TreeType
      BY <2>2 DEF CampaignInv, CampaignTypeOK
    <2>4. campaign \in [pc      : {"off", "next", "apply", "test", "restore", "failed",
                                  "succeeded"},
                       i       : Nat \ {0},
                       backup  : Seq(Fragments),
                       results : Seq(Outcomes),
                       edited  : BOOLEAN]
      BY DEF CampaignInv, CampaignTypeOK
    <2> QED
      BY <1>1, <2>1, <2>3, <2>4 DEF CampaignTypeOK
  <1>4. LoopInv'
    BY <1>1, <1>2 DEF CampaignInv, CampaignTypeOK, LoopInv
  <1>5. TreeInv'
    <2> SUFFICES ASSUME ~campaign.edited PROVE TreeInv'
      BY <1>2 DEF TreeInv
    <2>1. /\ campaign.backup = found[Mutation.file]
          /\ text = found \/ text = Mutated(Mutation, found)
          /\ \A k \in DOMAIN campaign.results : OutcomeMeans(k, campaign.results[k])
      BY <1>1 DEF CampaignInv, TreeInv
    <2>2. text' = found
      BY <1>1, <2>1, MutateRestore DEF CampaignInv, CampaignTypeOK, Mutation
    <2>3. ~UnderTest' /\ campaign'.pc \notin {"apply", "test", "restore"}
      BY <1>2 DEF UnderTest
    <2> QED
      BY <1>1, <1>2, <2>1, <2>2, <2>3 DEF TreeInv, OutcomeMeans
  <1> QED
    BY <1>3, <1>4, <1>5 DEF CampaignInv

LEMMA SummariseStep == CampaignInv /\ Summarise => CampaignInv'
  <1> SUFFICES ASSUME CampaignInv, Summarise PROVE CampaignInv'
    OBVIOUS
  <1>1. /\ campaign.pc = "next" /\ campaign.i > Len(Mutations)
        /\ text' = text /\ found' = found
        /\ campaign' = [campaign EXCEPT !.pc = IF "survived" \in ToSet(campaign.results)
                                               THEN "failed" ELSE "succeeded"]
    BY DEF Summarise, CampaignAt
  <1>2. CampaignTypeOK'
    BY <1>1 DEF CampaignInv, CampaignTypeOK
  <1>3. LoopInv'
    BY <1>1 DEF CampaignInv, CampaignTypeOK, LoopInv, ToSet
  <1>4. TreeInv'
    BY <1>1 DEF CampaignInv, CampaignTypeOK, TreeInv, UnderTest, OutcomeMeans
  <1> QED
    BY <1>2, <1>3, <1>4 DEF CampaignInv

(* A kill, and somebody else's edit. *)
LEMMA KillCampaignStep == CampaignInv /\ KillCampaign => CampaignInv'
  BY DEF KillCampaign, CampaignInv, CampaignTypeOK, LoopInv, TreeInv

LEMMA EditStep ==
  ASSUME CampaignInv, NEW file \in Files, Edit(file)
  PROVE  CampaignInv'
  <1>1. /\ text' = [text EXCEPT ![file] = Append(@, "edit")] /\ found' = found
        /\ campaign' = [campaign EXCEPT !.edited = TRUE]
    BY DEF Edit
  <1>2. text' \in TreeType
    <2>1. Append(text[file], "edit") \in Seq(Fragments)
      <3>1. text[file] \in Seq(Fragments)
        BY DEF CampaignInv, CampaignTypeOK, TreeType
      <3>2. "edit" \in Fragments
        BY ScriptsAssumption
      <3> QED
        BY <3>1, <3>2, AppendProperties
    <2>2. text \in TreeType /\ text' = [text EXCEPT ![file] = Append(text[file], "edit")]
      BY <1>1 DEF CampaignInv, CampaignTypeOK
    <2> QED
      BY <2>1, <2>2, WriteFile
  <1> QED
    BY <1>1, <1>2 DEF CampaignInv, CampaignTypeOK, LoopInv, TreeInv

(* The campaign's invariant is inductive: the other scripts leave the tree  *)
(* alone.                                                                   *)
LEMMA NextCampaign == CampaignInv /\ [Next]_vars => CampaignInv'
  <1>1. CampaignInv /\ UNCHANGED treeVars => CampaignInv'
    BY DEF treeVars, CampaignInv, CampaignTypeOK, LoopInv, TreeInv, UnderTest, Mutation,
           OutcomeMeans
  <1>2. ASSUME \/ CheckCoverage
               \/ StartFork \/ DiscoverBinaries \/ AssertPortFree \/ Launch \/ Poll
               \/ ReconcileFeature \/ ForgeTest \/ Teardown
               \/ AnvilBinds \/ AnvilCrashes \/ SomebodyListens \/ KillFork
               \/ UNCHANGED vars
        PROVE  UNCHANGED treeVars
    BY <1>2
    DEF CheckCoverage, StartFork, DiscoverBinaries, AssertPortFree, Launch, Poll,
        ReconcileFeature, ForgeTest, Teardown, AnvilBinds, AnvilCrashes, SomebodyListens,
        KillFork, ForkAt, vars
  <1> QED
    BY <1>1, <1>2, StartCampaignStep, BackupStep, ApplyMutationStep, RunForgeTestStep,
       RestoreStep, SummariseStep, KillCampaignStep, EditStep DEF Next

(***************************************************************************)
(* The campaign's inductive invariant: the backup is the file as found     *)
(* while a mutation is in place, the tree is as found otherwise, and every *)
(* outcome recorded means what it says of the tree (Backup, ApplyMutation, *)
(* Restore), as long as nobody else edits it.                              *)
(***************************************************************************)
THEOREM CampaignInvariant == Spec => []CampaignInv
  BY InitCampaign, NextCampaign, PTL DEF Spec

-----------------------------------------------------------------------------
(* The fork runner.                                                        *)

Activatable == ToSet(FEATURES) \union {"nobody"}
Ports == [mine : BOOLEAN, active : SUBSET Activatable]

ForkRuns ==
  [pc      : {"off", "discover", "port", "launch", "poll", "reconcile", "teardown", "done",
              "killed"},
   polls   : Nat,
   i       : Nat \ {0},
   tested  : Ports,
   grabbed : BOOLEAN,
   exit    : 0..2]

ForkTypeOK ==
  /\ port \in Ports
  /\ anvil \in {"none", "starting", "up", "dead"}
  /\ fork \in ForkRuns

(* Whose node it is: the run's own answers on the port exactly while it is  *)
(* up, and a stranger does only if it came after the port was found free.   *)
NodeInv ==
  /\ port.mine <=> anvil = "up"
  /\ port.mine => port.active \subseteq ToSet(FEATURES)
  /\ fork.pc \in {"off", "discover", "port", "launch"} => anvil = "none"
  /\ fork.pc = "done" => anvil \in {"none", "dead"}
  /\ fork.pc \in {"launch", "poll", "reconcile"} /\ ~fork.grabbed =>
       port = Nobody \/ port.mine

(* How far the run is: features are reconciled in order, on a node that no  *)
(* longer starts; nothing was tested before forge test, and the exit code   *)
(* is settled after it.                                                     *)
Reconciled(active, n) ==
  \A k \in 1..n : FEATURES[k] \in active <=> ~ShouldSkip(FEATURES[k])

ProgressInv ==
  /\ fork.pc \in {"off", "discover", "port", "launch", "poll"} => fork.i = 1
  /\ fork.pc \in {"off", "discover", "port", "launch", "poll", "reconcile"} =>
       fork.tested = Nobody /\ fork.exit = 0
  /\ fork.pc = "reconcile" /\ ~fork.grabbed =>
       /\ anvil # "starting"
       /\ fork.i <= Len(FEATURES) + 1
       /\ port.mine => Reconciled(port.active, fork.i - 1)
  /\ fork.pc \in {"teardown", "done"} =>
       /\ fork.exit = 0 => fork.tested # Nobody
       /\ fork.exit = 0 /\ ~fork.grabbed => fork.tested = [mine |-> TRUE, active |-> Wanted]
       /\ fork.exit = 2 => fork.tested = Nobody

ForkInv == ForkTypeOK /\ NodeInv /\ ProgressInv

(* Nobody is a port, and not the run's own. *)
LEMMA NobodyFacts == Nobody \in Ports /\ ~Nobody.mine
  BY DEF Nobody, Ports, Activatable

LEMMA InitFork == Init => ForkInv
  <1> SUFFICES ASSUME Init PROVE ForkInv
    OBVIOUS
  <1>1. /\ port = Nobody /\ anvil = "none"
        /\ fork = [pc |-> "off", polls |-> 0, i |-> 1, tested |-> Nobody,
                   grabbed |-> FALSE, exit |-> 0]
    BY DEF Init, NewRun
  <1> QED
    BY <1>1, NobodyFacts DEF ForkInv, ForkTypeOK, ForkRuns, NodeInv, ProgressInv

(* The steps of a run before it has a node. *)
LEMMA StartForkStep == ForkInv /\ StartFork => ForkInv'
  <1> SUFFICES ASSUME ForkInv, StartFork PROVE ForkInv'
    OBVIOUS
  <1>1. /\ fork' = [pc |-> "discover", polls |-> 0, i |-> 1, tested |-> Nobody,
                    grabbed |-> FALSE, exit |-> 0]
        /\ anvil' = "none" /\ port' = [port EXCEPT !.mine = FALSE] /\ port \in Ports
    BY DEF StartFork, NewRun, ForkInv, ForkTypeOK, ForkRuns
  <1>2. port' \in Ports /\ ~port'.mine
    BY <1>1 DEF Ports
  <1> QED
    BY <1>1, <1>2, NobodyFacts DEF ForkInv, ForkTypeOK, ForkRuns, NodeInv, ProgressInv

(* A run that moves on, or leaves, without a test: only pc and exit change. *)
Moves(pc, code) == fork' = [fork EXCEPT !.pc = pc, !.exit = code]

LEMMA MovesFields ==
  ASSUME ForkTypeOK, NEW pc, NEW code, Moves(pc, code)
  PROVE  /\ fork'.pc = pc /\ fork'.exit = code /\ fork'.polls = fork.polls /\ fork'.i = fork.i
         /\ fork'.tested = fork.tested /\ fork'.grabbed = fork.grabbed
         /\ pc \in {"discover", "port", "launch", "poll", "reconcile", "teardown", "done",
                    "killed"} /\ code \in 0..2 /\ port' \in Ports
              /\ anvil' \in {"none", "starting", "up", "dead"} => ForkTypeOK'
  BY DEF Moves, ForkTypeOK, ForkRuns

LEMMA GotoMoves == ASSUME ForkTypeOK, NEW pc, Goto(pc) PROVE Moves(pc, fork.exit)
  BY DEF Goto, Moves, ForkTypeOK, ForkRuns

LEMMA DiscoverStep == ForkInv /\ (DiscoverBinaries \/ AssertPortFree) => ForkInv'
  <1> SUFFICES ASSUME ForkInv, DiscoverBinaries \/ AssertPortFree PROVE ForkInv'
    OBVIOUS
  <1>1. /\ fork.pc \in {"discover", "port"} /\ port' = port /\ anvil' = anvil
        /\ \/ fork.pc = "discover" /\ Goto("port")
           \/ fork.pc = "port" /\ port = Nobody /\ Goto("launch")
           \/ Moves("done", 2)
    BY DEF DiscoverBinaries, AssertPortFree, ForkAt, LeaveAtOnce, Moves
  <1>2. /\ anvil = "none" /\ ~port.mine /\ fork.i = 1 /\ fork.tested = Nobody /\ fork.exit = 0
        /\ ForkTypeOK
    BY <1>1 DEF ForkInv, NodeInv, ProgressInv
  <1>3. PICK pc \in {"port", "launch", "done"}, code \in {0, 2} :
          Moves(pc, code) /\ (pc = "launch" => port = Nobody) /\ (pc = "done" <=> code = 2)
    BY <1>1, <1>2, GotoMoves
  <1>4. /\ fork'.pc = pc /\ fork'.exit = code /\ fork'.i = 1 /\ fork'.tested = Nobody
        /\ ForkTypeOK'
    BY <1>1, <1>2, <1>3, MovesFields DEF ForkTypeOK, ForkRuns
  <1>5. NodeInv'
    BY <1>1, <1>2, <1>3, <1>4 DEF NodeInv
  <1>6. ProgressInv'
    BY <1>1, <1>2, <1>3, <1>4 DEF ProgressInv
  <1> QED
    BY <1>4, <1>5, <1>6 DEF ForkInv

LEMMA LaunchStep == ForkInv /\ Launch => ForkInv'
  <1> SUFFICES ASSUME ForkInv, Launch PROVE ForkInv'
    OBVIOUS
  <1>1. /\ fork.pc = "launch" /\ port' = port
        /\ \/ anvil' = "starting" /\ Goto("poll")
           \/ anvil' = "none" /\ Moves("done", 1)
    BY DEF Launch, ForkAt, LeaveAtOnce, Moves
  <1>2. /\ anvil = "none" /\ ~port.mine /\ fork.i = 1 /\ fork.tested = Nobody /\ fork.exit = 0
        /\ ForkTypeOK /\ (fork.grabbed \/ port = Nobody)
    BY <1>1 DEF ForkInv, NodeInv, ProgressInv, ForkTypeOK, ForkRuns
  <1>3. PICK pc \in {"poll", "done"}, code \in {0, 1} :
          /\ Moves(pc, code) /\ (pc = "done" <=> code = 1)
          /\ anvil' = IF pc = "poll" THEN "starting" ELSE "none"
    BY <1>1, <1>2, GotoMoves
  <1>4. /\ fork'.pc = pc /\ fork'.exit = code /\ fork'.i = 1 /\ fork'.tested = Nobody
        /\ fork'.grabbed = fork.grabbed /\ ForkTypeOK'
    BY <1>1, <1>2, <1>3, MovesFields DEF ForkTypeOK, ForkRuns
  <1>5. NodeInv'
    BY <1>1, <1>2, <1>3, <1>4 DEF NodeInv
  <1>6. ProgressInv'
    BY <1>1, <1>2, <1>3, <1>4 DEF ProgressInv
  <1> QED
    BY <1>4, <1>5, <1>6 DEF ForkInv

(* A run with a node that leaves untested takes code 1 or 2 to the teardown. *)
LEMMA LeaveStep ==
  ASSUME ForkInv, fork.pc \in {"poll", "reconcile"}, NEW code \in {1, 2}, Leave(code),
         port' = port, anvil' = anvil
  PROVE  ForkInv'
  <1>1. /\ fork.tested = Nobody /\ ForkTypeOK /\ (port.mine <=> anvil = "up")
        /\ port.mine => port.active \subseteq ToSet(FEATURES)
    BY DEF ForkInv, NodeInv, ProgressInv
  <1>2. Moves("teardown", code)
    BY DEF Leave, Moves
  <1>3. /\ fork'.pc = "teardown" /\ fork'.exit = code /\ fork'.tested = Nobody /\ ForkTypeOK'
    BY <1>1, <1>2, MovesFields DEF ForkTypeOK, ForkRuns
  <1>4. NodeInv' /\ ProgressInv'
    BY <1>1, <1>3 DEF NodeInv, ProgressInv
  <1> QED
    BY <1>3, <1>4 DEF ForkInv

LEMMA PollStep == ForkInv /\ Poll => ForkInv'
  <1> SUFFICES ASSUME ForkInv, Poll PROVE ForkInv'
    OBVIOUS
  <1>1. /\ fork.pc = "poll" /\ fork.i = 1 /\ fork.tested = Nobody /\ fork.exit = 0
        /\ port' = port /\ anvil' = anvil
    BY DEF Poll, ForkAt, ForkInv, ProgressInv
  <1>2. CASE Leave(2)
    BY <1>1, <1>2, LeaveStep
  <1>3. CASE anvil # "dead" /\ port # Nobody /\ fork' = [fork EXCEPT !.pc = "reconcile"]
    BY <1>1, <1>3 DEF ForkInv, ForkTypeOK, ForkRuns, NodeInv, ProgressInv, Reconciled
  <1>4. CASE fork' = [fork EXCEPT !.polls = @ + 1]
    BY <1>1, <1>4 DEF ForkInv, ForkTypeOK, ForkRuns, NodeInv, ProgressInv
  <1> QED
    BY <1>2, <1>3, <1>4 DEF Poll, Goto

(* The features, one by one. *)
LEMMA ReconcileStep == ForkInv /\ ReconcileFeature => ForkInv'
  <1> SUFFICES ASSUME ForkInv, ReconcileFeature PROVE ForkInv'
    OBVIOUS
  <1> DEFINE name == FEATURES[fork.i]
  <1>1. /\ fork.pc = "reconcile" /\ fork.tested = Nobody /\ fork.exit = 0
        /\ fork.i \in 1..Len(FEATURES) /\ name \in ToSet(FEATURES) /\ anvil' = anvil
    BY ScriptsAssumption
       DEF ReconcileFeature, ForkAt, ForkInv, ForkTypeOK, ForkRuns, ProgressInv, ToSet
  <1>2. CASE port' = port /\ \E code \in {1, 2} : Leave(code)
    BY <1>1, <1>2, LeaveStep
  <1>3. CASE /\ fork' = [fork EXCEPT !.i = @ + 1]
             /\ port # Nobody
             /\ port' = [port EXCEPT !.active = IF ~ShouldSkip(name) THEN @ \union {name}
                                                ELSE @ \ {name}]
    <2>1. /\ port' \in Ports /\ port'.mine = port.mine
          /\ port'.active = IF ~ShouldSkip(name) THEN port.active \union {name}
                            ELSE port.active \ {name}
      BY <1>1, <1>3 DEF ForkInv, ForkTypeOK, ForkRuns, Ports, Activatable
    <2>2. /\ fork'.pc = "reconcile" /\ fork'.i = fork.i + 1 /\ fork'.grabbed = fork.grabbed
          /\ fork'.tested = fork.tested /\ fork'.exit = fork.exit
      BY <1>1, <1>3 DEF ForkInv, ForkTypeOK, ForkRuns
    <2>3. ForkTypeOK'
      BY <1>1, <1>3, <2>1 DEF ForkInv, ForkTypeOK, ForkRuns
    <2>4. NodeInv'
      BY <1>1, <1>3, <2>1, <2>2 DEF ForkInv, NodeInv
    <2>5. Reconciled(port.active, fork.i - 1) => Reconciled(port'.active, fork.i)
      BY <1>1, <2>1 DEF Reconciled
    <2>6. ProgressInv'
      BY <1>1, <1>3, <2>1, <2>2, <2>5 DEF ForkInv, ForkTypeOK, ForkRuns, ProgressInv
    <2> QED
      BY <2>3, <2>4, <2>6 DEF ForkInv
  <1>4. (name \in port.active) = ~ShouldSkip(name) /\ port # Nobody =>
          port = [port EXCEPT !.active = IF ~ShouldSkip(name) THEN @ \union {name}
                                         ELSE @ \ {name}]
    BY DEF ForkInv, ForkTypeOK, ForkRuns, Ports
  <1> QED
    BY <1>2, <1>3, <1>4 DEF ReconcileFeature

(* A run that leaves after the test keeps what it was tested on. *)
Tests(code) == fork' = [fork EXCEPT !.pc = "teardown", !.exit = code, !.tested = port]

LEMMA TestedFields ==
  ASSUME ForkTypeOK, NEW code \in {0, 1}, port' = port, anvil' = anvil, Tests(code)
  PROVE  /\ fork'.pc = "teardown" /\ fork'.exit = code /\ fork'.tested = port
         /\ fork'.grabbed = fork.grabbed /\ ForkTypeOK'
  <1>0. code \in 0..2
    OBVIOUS
  <1>1. fork \in ForkRuns /\ port \in Ports
    BY DEF ForkTypeOK
  <1>2. fork'.pc = "teardown" /\ fork'.exit = code /\ fork'.grabbed = fork.grabbed
    BY <1>0, <1>1 DEF Tests, ForkRuns
  <1>3. fork' \in ForkRuns /\ fork'.tested = port
    BY <1>0, <1>1 DEF Tests, ForkRuns
  <1> QED
    BY <1>1, <1>2, <1>3 DEF ForkTypeOK

(* forge test runs on what answers on the port. *)
LEMMA ForgeTestStep == ForkInv /\ ForgeTest => ForkInv'
  <1> SUFFICES ASSUME ForkInv, ForgeTest PROVE ForkInv'
    OBVIOUS
  <1>1. /\ fork.pc = "reconcile" /\ fork.i > Len(FEATURES) /\ port' = port /\ anvil' = anvil
        /\ port \in Ports /\ ForkTypeOK
    BY DEF ForgeTest, ForkAt, ForkInv, ForkTypeOK, ForkRuns
  <1>2. PICK code \in (IF port = Nobody THEN {1} ELSE {0, 1}) :
          Tests(code)
    BY DEF ForgeTest, Tests
  <1>3. code \in {0, 1} /\ (code = 0 => port # Nobody)
    OBVIOUS
  <1>4. port.mine /\ ~fork.grabbed => port.active = Wanted
    <2> SUFFICES ASSUME port.mine, ~fork.grabbed PROVE port.active = Wanted
      OBVIOUS
    <2>1. Reconciled(port.active, Len(FEATURES)) /\ port.active \subseteq ToSet(FEATURES)
      <3>1. fork.i = Len(FEATURES) + 1 /\ fork.i - 1 = Len(FEATURES)
        BY <1>1, ScriptsAssumption DEF ForkInv, ForkTypeOK, ForkRuns, ProgressInv
      <3> QED
        BY <1>1, <3>1 DEF ForkInv, NodeInv, ProgressInv
    <2>2. DOMAIN FEATURES = 1..Len(FEATURES)
      BY ScriptsAssumption
    <2> QED
      BY <2>1, <2>2 DEF Reconciled, Wanted, ToSet, ShouldSkip
  <1>5. code = 0 /\ ~fork.grabbed => port = [mine |-> TRUE, active |-> Wanted]
    <2>1. code = 0 /\ ~fork.grabbed => port.mine
      BY <1>1, <1>3 DEF ForkInv, NodeInv
    <2> QED
      BY <1>1, <1>4, <2>1 DEF Ports
  <1>6. /\ fork'.pc = "teardown" /\ fork'.exit = code /\ fork'.tested = port
        /\ fork'.grabbed = fork.grabbed /\ ForkTypeOK'
    BY <1>1, <1>2, <1>3, TestedFields
  <1>7. NodeInv'
    BY <1>1, <1>6 DEF ForkInv, NodeInv
  <1>8. ProgressInv'
    BY <1>5, <1>3, <1>6, <1>1 DEF ProgressInv
  <1> QED
    BY <1>6, <1>7, <1>8 DEF ForkInv

(* The end of the run, and what happens to its node meanwhile. *)
LEMMA TeardownStep == ForkInv /\ Teardown => ForkInv'
  <1> SUFFICES ASSUME ForkInv, Teardown PROVE ForkInv'
    OBVIOUS
  <1>1. /\ fork.pc = "teardown" /\ fork' = [fork EXCEPT !.pc = "done"] /\ anvil' = "dead"
        /\ port' \in Ports /\ ~port'.mine
    BY NobodyFacts DEF Teardown, ForkAt, Goto, ForkInv, ForkTypeOK, ForkRuns
  <1> QED
    BY <1>1 DEF ForkInv, ForkTypeOK, ForkRuns, NodeInv, ProgressInv

LEMMA AnvilStep == ForkInv /\ (AnvilBinds \/ AnvilCrashes) => ForkInv'
  <1> SUFFICES ASSUME ForkInv, AnvilBinds \/ AnvilCrashes PROVE ForkInv'
    OBVIOUS
  <1>1. CASE AnvilBinds
    <2>1. /\ anvil = "starting" /\ fork' = fork /\ fork.pc # "done"
          /\ fork.pc \notin {"off", "discover", "port", "launch"}
      BY <1>1 DEF AnvilBinds, ForkInv, NodeInv
    <2>2. \/ /\ port = Nobody /\ anvil' = "up"
             /\ \E active \in {{}, ToSet(FEATURES)} : port' = [mine |-> TRUE, active |-> active]
          \/ anvil' = "dead" /\ port' = port
      BY <1>1 DEF AnvilBinds
    <2>3. port' \in Ports /\ (port'.mine => port'.active \subseteq ToSet(FEATURES))
      <3>1. CASE port' = port
        BY <3>1 DEF ForkInv, ForkTypeOK, ForkRuns, NodeInv
      <3>2. CASE \E active \in {{}, ToSet(FEATURES)} : port' = [mine |-> TRUE, active |-> active]
        <4>1. PICK active \in {{}, ToSet(FEATURES)} : port' = [mine |-> TRUE, active |-> active]
          BY <3>2
        <4>2. active \subseteq ToSet(FEATURES) /\ active \in SUBSET Activatable
          BY DEF Activatable
        <4> QED
          BY <4>1, <4>2 DEF Ports
      <3> QED
        BY <2>2, <3>1, <3>2
    <2>4. /\ anvil' \in {"up", "dead"} /\ (port'.mine <=> anvil' = "up")
          /\ port'.mine \/ port' = port
      BY <2>1, <2>2 DEF ForkInv, NodeInv
    <2> QED
      BY <2>1, <2>3, <2>4 DEF ForkInv, ForkTypeOK, ForkRuns, NodeInv, ProgressInv
  <1>2. CASE AnvilCrashes
    <2>1. /\ anvil = "up" /\ anvil' = "dead" /\ port' = Nobody /\ fork' = fork
      BY <1>2 DEF AnvilCrashes, ForkInv, NodeInv
    <2> QED
      BY <2>1, NobodyFacts DEF ForkInv, ForkTypeOK, ForkRuns, NodeInv, ProgressInv
  <1> QED
    BY <1>1, <1>2

LEMMA StrangerStep == ForkInv /\ SomebodyListens => ForkInv'
  <1> SUFFICES ASSUME ForkInv, SomebodyListens PROVE ForkInv'
    OBVIOUS
  <1>1. /\ port = Nobody /\ fork' = [fork EXCEPT !.grabbed = TRUE] /\ anvil' = anvil
        /\ port' \in Ports /\ ~port'.mine
    BY DEF SomebodyListens, Ports, Activatable
  <1> QED
    BY <1>1, NobodyFacts DEF ForkInv, ForkTypeOK, ForkRuns, NodeInv, ProgressInv

LEMMA KillForkStep == ForkInv /\ KillFork => ForkInv'
  BY DEF KillFork, Goto, ForkInv, ForkTypeOK, ForkRuns, NodeInv, ProgressInv

(* The runner's invariant is inductive: the other scripts leave ports alone. *)
LEMMA NextFork == ForkInv /\ [Next]_vars => ForkInv'
  <1>1. ForkInv /\ UNCHANGED forkVars => ForkInv'
    BY DEF forkVars, ForkInv, ForkTypeOK, ForkRuns, NodeInv, ProgressInv
  <1>2. ASSUME \/ StartCampaign \/ Backup \/ ApplyMutation \/ RunForgeTest \/ Restore
               \/ Summarise \/ KillCampaign \/ \E file \in Files : Edit(file)
               \/ CheckCoverage \/ UNCHANGED vars
        PROVE  UNCHANGED forkVars
    BY <1>2
    DEF StartCampaign, Backup, ApplyMutation, RunForgeTest, Restore, Summarise,
        KillCampaign, Edit, CheckCoverage, CampaignAt, vars
  <1> QED
    BY <1>1, <1>2, StartForkStep, DiscoverStep, LaunchStep, PollStep, ReconcileStep,
       ForgeTestStep, TeardownStep, AnvilStep, StrangerStep, KillForkStep DEF Next

(***************************************************************************)
(* The fork runner's inductive invariant: no anvil without a run that will *)
(* stop it, and a node that is the run's own has every feature up to the   *)
(* loop's in the state that is wanted (Launch, ReconcileFeature, Teardown). *)
(***************************************************************************)
THEOREM ForkInvariant == Spec => []ForkInv
  BY InitFork, NextFork, PTL DEF Spec
-----------------------------------------------------------------------------
(* The coverage gate.                                                      *)

(* What holds at a and is passed on up to b, holds up to b: natural numbers *)
(* are well founded.                                                        *)
LEMMA Least ==
  ASSUME NEW T \in SUBSET Nat, T # {}
  PROVE  \E x \in T : \A y \in T : x <= y
  <1> DEFINE R == {ss \in Nat \X Nat : ss[1] < ss[2]}
  <1>1. PICK x \in T : \A y \in T : <<y, x>> \notin R
    <2>1. IsWellFoundedOn(R, Nat)
      BY NatLessThanWellFounded DEF OpToRel
    <2> HIDE DEF R
    <2> QED
      BY <2>1, WFMin
  <1>2. ASSUME NEW y \in T, ~(x <= y) PROVE FALSE
    <2>1. <<y, x>> \in Nat \X Nat /\ <<y, x>>[1] < <<y, x>>[2]
      BY <1>2
    <2>2. <<y, x>> \in R
      BY <2>1, Zenon
    <2> QED
      BY <2>2, <1>1
  <1> QED
    BY <1>2

LEMMA Between ==
  ASSUME NEW a \in Nat, NEW b \in Nat, NEW S, a \in S,
         \A n \in a..b - 1 : n \in S => n + 1 \in S
  PROVE  \A n \in a..b : n \in S
  <1> SUFFICES ASSUME {n \in a..b : n \notin S} # {} PROVE FALSE
    OBVIOUS
  <1> DEFINE T == {n \in a..b : n \notin S}
  <1>1. T \in SUBSET Nat /\ T # {}
    OBVIOUS
  <1>2. PICK x \in T : \A y \in T : x <= y
    <2> HIDE DEF T
    <2> QED
      BY <1>1, Least
  <1>3. x \in a..b /\ x \notin S /\ x # a
    OBVIOUS
  <1>4. x - 1 \in a..b - 1 /\ x - 1 + 1 = x /\ x - 1 \in a..b /\ ~(x <= x - 1)
    BY <1>3
  <1>5. x - 1 \in S
    BY <1>2, <1>4
  <1> QED
    BY <1>3, <1>4, <1>5

(* The parser's states, one after each of the first n lines. *)
ParsedUpTo(g, lines, N) ==
  g = [n \in 0..N |-> IF n = 0 THEN NoRecord({}) ELSE ParseLine(g[n-1], lines[n])]

LEMMA ParseExists ==
  ASSUME NEW lines, Len(lines) \in Nat
  PROVE  \E g : ParsedUpTo(g, lines, Len(lines))
  <1> DEFINE S == {N \in Nat : \E g : ParsedUpTo(g, lines, N)}
  <1>1. 0 \in S
    <2> DEFINE g0 == [n \in 0..0 |-> NoRecord({})]
    <2>1. ParsedUpTo(g0, lines, 0)
      BY DEF ParsedUpTo
    <2> QED
      BY <2>1
  <1>2. ASSUME NEW N \in Nat, N \in S PROVE N + 1 \in S
    <2>1. PICK g : ParsedUpTo(g, lines, N)
      BY <1>2
    <2> DEFINE h == [n \in 0..N + 1 |-> IF n <= N THEN g[n] ELSE ParseLine(g[N], lines[N + 1])]
    <2>2. ASSUME NEW n \in 0..N + 1
          PROVE  h[n] = IF n = 0 THEN NoRecord({}) ELSE ParseLine(h[n-1], lines[n])
      <3>1. CASE n = 0
        BY <2>1, <3>1 DEF ParsedUpTo
      <3>2. CASE n \in 1..N
        <4>1. h[n] = g[n] /\ h[n-1] = g[n-1]
          BY <3>2
        <4>2. g[n] = ParseLine(g[n-1], lines[n])
          BY <2>1, <3>2 DEF ParsedUpTo
        <4> QED
          BY <3>2, <4>1, <4>2
      <3>3. CASE n = N + 1
        BY <3>3
      <3> QED
        BY <3>1, <3>2, <3>3
    <2>3. h = [n \in 0..N + 1 |-> IF n = 0 THEN NoRecord({}) ELSE ParseLine(h[n-1], lines[n])]
      <3> DEFINE e(n) == IF n = 0 THEN NoRecord({}) ELSE ParseLine(h[n-1], lines[n])
      <3>1. \A n \in 0..N + 1 : h[n] = e(n)
        BY <2>2
      <3>2. h = [n \in 0..N + 1 |-> h[n]]
        OBVIOUS
      <3> HIDE DEF h, e
      <3>3. h = [n \in 0..N + 1 |-> e(n)]
        BY <3>1, <3>2
      <3> QED
        BY <3>3 DEF e
    <2> HIDE DEF h
    <2>4. ParsedUpTo(h, lines, N + 1)
      BY <2>3 DEF ParsedUpTo
    <2> QED
      BY <2>4
  <1>3. \A n \in 0..Len(lines) : n \in S
    <2> HIDE DEF S
    <2> QED
      BY <1>1, <1>2, Between
  <1> QED
    BY <1>3

LEMMA ParseSteps ==
  ASSUME NEW lines, Len(lines) \in Nat
  PROVE  \E g : /\ ParseLcov(lines) = g[Len(lines)].uncovered
                /\ g[0] = NoRecord({})
                /\ \A n \in 1..Len(lines) : g[n] = ParseLine(g[n-1], lines[n])
  <1>1. PICK g : g = CHOOSE h : ParsedUpTo(h, lines, Len(lines))
    OBVIOUS
  <1>2. ParsedUpTo(g, lines, Len(lines))
    BY <1>1, ParseExists
  <1>3. ParseLcov(lines) = g[Len(lines)].uncovered
    BY <1>1, Zenon DEF ParseLcov, ParsedUpTo
  <1>4. g[0] = NoRecord({})
    BY <1>2 DEF ParsedUpTo
  <1>5. ASSUME NEW n \in 1..Len(lines) PROVE g[n] = ParseLine(g[n-1], lines[n])
    BY <1>2 DEF ParsedUpTo
  <1> QED
    BY <1>3, <1>4, <1>5

(* A line never makes an uncovered function covered; between the lines that *)
(* begin and end a record, only its own FNDA lines count.                   *)
AccOK(acc) == acc = [mock |-> acc.mock, fn_hits |-> acc.fn_hits, uncovered |-> acc.uncovered]

LEMMA ParseLineKeeps ==
  ASSUME NEW acc, NEW line, AccOK(acc)
  PROVE  AccOK(ParseLine(acc, line)) /\ acc.uncovered \subseteq ParseLine(acc, line).uncovered
  BY DEF ParseLine, NoRecord, AccOK

LEMMA FunctionLine ==
  ASSUME NEW acc, NEW line, AccOK(acc), line.tag \notin {"SF", "end_of_record"}, line.hits \in Nat,
         NEW name, name \in DOMAIN acc.fn_hits => acc.fn_hits[name] = 0,
         line.tag = "FNDA" /\ line.name = name => line.hits = 0
  PROVE  /\ ParseLine(acc, line).mock = acc.mock
         /\ DOMAIN acc.fn_hits \subseteq DOMAIN ParseLine(acc, line).fn_hits
         /\ line.tag = "FN" /\ line.name = name => name \in DOMAIN ParseLine(acc, line).fn_hits
         /\ name \in DOMAIN ParseLine(acc, line).fn_hits => ParseLine(acc, line).fn_hits[name] = 0
  <1>1. ASSUME NEW hits \in Nat, line.name = name => hits = 0
        PROVE  /\ DOMAIN Counted(acc.fn_hits, line.name, hits)
                    = DOMAIN acc.fn_hits \union {line.name}
               /\ name \in DOMAIN Counted(acc.fn_hits, line.name, hits) =>
                    Counted(acc.fn_hits, line.name, hits)[name] = 0
    <2> DEFINE counted == Counted(acc.fn_hits, line.name, hits)
    <2>1. /\ DOMAIN counted = DOMAIN acc.fn_hits \union {line.name}
          /\ \A n \in DOMAIN counted : counted[n] = IF n = line.name THEN Hits(acc.fn_hits, n) + hits
                                                    ELSE acc.fn_hits[n]
      BY DEF Counted
    <2> HIDE DEF counted
    <2>2. line.name = name => Hits(acc.fn_hits, name) + hits = 0
      BY <1>1 DEF Hits
    <2>3. name \in DOMAIN counted => counted[name] = 0
      <3>1. CASE name = line.name
        BY <2>1, <2>2, <3>1
      <3>2. CASE name # line.name
        BY <2>1, <3>2
      <3> QED
        BY <3>1, <3>2
    <2> QED
      BY <2>1, <2>3 DEF counted
  <1>2. CASE line.tag = "FN"
    <2>1. /\ ParseLine(acc, line).mock = acc.mock
          /\ ParseLine(acc, line).fn_hits = Counted(acc.fn_hits, line.name, 0)
      BY <1>2 DEF ParseLine, AccOK
    <2> QED
      BY <1>1, <1>2, <2>1
  <1>3. CASE line.tag = "FNDA"
    <2>1. /\ ParseLine(acc, line).mock = acc.mock
          /\ ParseLine(acc, line).fn_hits = Counted(acc.fn_hits, line.name, line.hits)
      BY <1>3 DEF ParseLine, AccOK
    <2> QED
      BY <1>1, <1>3, <2>1
  <1>4. CASE line.tag \notin {"FN", "FNDA"}
    BY <1>4 DEF ParseLine
  <1> QED
    BY <1>2, <1>3, <1>4

(* An uncalled function of a mock is found at the end of its record, and is *)
(* not forgotten by the end of the report.                                  *)
LEMMA UncalledFound ==
  ASSUME NEW report \in Reports, NEW k \in DOMAIN report.truth, report.truth[k].mock = TRUE,
         NEW name \in Uncalled(report.truth[k].functions)
  PROVE  ParseLcov(report.lines) # {}
  <1> DEFINE lines  == report.lines
             source == report.truth[k]
  <1>1. /\ Len(lines) \in Nat /\ DOMAIN lines = 1..Len(lines)
        /\ \A p \in 1..Len(lines) : lines[p].hits \in Nat
        /\ Records(lines, source)
    <2> DEFINE LineType == [tag : STRING, mock : BOOLEAN, name : STRING, hits : Nat]
    <2>1. lines \in Seq(LineType) /\ Records(lines, source)
      BY ReportsAssumption
    <2> HIDE DEF lines, source, LineType
    <2>2. /\ Len(lines) \in Nat /\ DOMAIN lines = 1..Len(lines)
          /\ \A p \in 1..Len(lines) : lines[p] \in LineType
      BY <2>1, ElementOfSeq
    <2>3. \A line \in LineType : line.hits \in Nat
      BY DEF LineType
    <2> QED
      BY <2>1, <2>2, <2>3
  <1>2. PICK g : /\ ParseLcov(lines) = g[Len(lines)].uncovered
                 /\ g[0] = NoRecord({})
                 /\ \A n \in 1..Len(lines) : g[n] = ParseLine(g[n-1], lines[n])
    <2> HIDE DEF lines
    <2> QED
      BY <1>1, ParseSteps
  <1>3. PICK first \in 1..Len(lines), last \in 1..Len(lines) :
          /\ first < last
          /\ lines[first].tag = "SF" /\ lines[first].mock = source.mock
          /\ lines[last].tag = "end_of_record"
          /\ \A p \in first + 1 .. last - 1 :
               /\ lines[p].tag \notin {"SF", "end_of_record"}
               /\ lines[p].tag = "FNDA" /\ lines[p].hits # 0 =>
                    lines[p].name \notin Uncalled(source.functions)
          /\ \A n \in DOMAIN source.functions :
               \E p \in first + 1 .. last - 1 : lines[p].tag = "FN" /\ lines[p].name = n
    <2> HIDE DEF lines, source
    <2> QED
      BY <1>1 DEF Records
  <1>4. PICK at \in first + 1 .. last - 1 : lines[at].tag = "FN" /\ lines[at].name = name
    BY <1>3 DEF Uncalled
  <1>5. source.mock = TRUE /\ name \in Uncalled(source.functions)
    OBVIOUS
  <1> HIDE DEF lines, source
  <1>6. \A n \in 0..Len(lines) : AccOK(g[n])
    <2> DEFINE S == {n \in Nat : AccOK(g[n])}
    <2>1. 0 \in S
      BY <1>2 DEF AccOK, NoRecord
    <2>2. ASSUME NEW n \in 0..Len(lines) - 1, n \in S PROVE n + 1 \in S
      <3>1. n + 1 \in 1..Len(lines) /\ (n + 1) - 1 = n
        BY <1>1
      <3>2. g[n + 1] = ParseLine(g[n], lines[n + 1])
        BY <1>2, <3>1
      <3> QED
        BY <2>2, <3>2, ParseLineKeeps
    <2> HIDE DEF S
    <2>3. \A n \in 0..Len(lines) : n \in S
      BY <1>1, <2>1, <2>2, Between
    <2> QED
      BY <2>3 DEF S
  <1> DEFINE Seen(n) ==
        /\ g[n].mock = TRUE
        /\ n >= at => name \in DOMAIN g[n].fn_hits
        /\ name \in DOMAIN g[n].fn_hits => g[n].fn_hits[name] = 0
  <1>7. \A n \in first .. last - 1 : Seen(n)
    <2> DEFINE S == {n \in Nat : Seen(n)}
    <2>1. first \in S
      <3>1. g[first] = ParseLine(g[first - 1], lines[first])
        BY <1>2, <1>3
      <3>2. g[first].mock = TRUE /\ g[first].fn_hits = <<>>
        BY <1>3, <1>5, <3>1 DEF ParseLine
      <3> QED
        BY <1>3, <1>4, <3>2
    <2>2. ASSUME NEW n \in first .. (last - 1) - 1, n \in S PROVE n + 1 \in S
      <3>1. /\ n + 1 \in first + 1 .. last - 1 /\ n + 1 \in 1..Len(lines) /\ (n + 1) - 1 = n
            /\ n \in 0..Len(lines) /\ n + 1 \in Nat
        BY <1>1, <1>3
      <3>2. g[n + 1] = ParseLine(g[n], lines[n + 1])
        BY <1>2, <3>1
      <3>3. /\ lines[n + 1].tag \notin {"SF", "end_of_record"} /\ lines[n + 1].hits \in Nat
            /\ lines[n + 1].tag = "FNDA" /\ lines[n + 1].name = name => lines[n + 1].hits = 0
        BY <1>1, <1>3, <1>5, <3>1
      <3>4. /\ g[n + 1].mock = g[n].mock
            /\ DOMAIN g[n].fn_hits \subseteq DOMAIN g[n + 1].fn_hits
            /\ lines[n + 1].tag = "FN" /\ lines[n + 1].name = name
                 => name \in DOMAIN g[n + 1].fn_hits
            /\ name \in DOMAIN g[n + 1].fn_hits => g[n + 1].fn_hits[name] = 0
        BY <1>6, <2>2, <3>1, <3>2, <3>3, FunctionLine
      <3>5. n + 1 >= at => n + 1 = at \/ n >= at
        BY <1>4
      <3> QED
        BY <1>4, <2>2, <3>1, <3>4, <3>5
    <2>3. last - 1 \in Nat /\ first \in Nat
      BY <1>3
    <2> HIDE DEF S
    <2>4. \A n \in first .. last - 1 : n \in S
      BY <2>1, <2>2, <2>3, Between
    <2> QED
      BY <2>4 DEF S
  <1>8. name \in g[last].uncovered
    <2>1. g[last - 1].mock = TRUE /\ name \in Uncalled(g[last - 1].fn_hits)
      <3>1. last - 1 \in first .. last - 1 /\ last - 1 >= at
        BY <1>3, <1>4
      <3> QED
        BY <1>7, <3>1 DEF Uncalled
    <2>2. g[last] = ParseLine(g[last - 1], lines[last])
      BY <1>2, <1>3
    <2> QED
      BY <1>3, <2>1, <2>2 DEF ParseLine, NoRecord
  <1>9. \A n \in last .. Len(lines) : name \in g[n].uncovered
    <2> DEFINE S == {n \in Nat : name \in g[n].uncovered}
    <2>1. last \in S
      BY <1>3, <1>8
    <2>2. ASSUME NEW n \in last .. Len(lines) - 1, n \in S PROVE n + 1 \in S
      <3>1. n + 1 \in 1..Len(lines) /\ (n + 1) - 1 = n /\ n \in 0..Len(lines)
        BY <1>1, <1>3
      <3>2. g[n + 1] = ParseLine(g[n], lines[n + 1])
        BY <1>2, <3>1
      <3> QED
        BY <1>6, <2>2, <3>1, <3>2, ParseLineKeeps
    <2>3. last \in Nat /\ Len(lines) \in Nat
      BY <1>1, <1>3
    <2> HIDE DEF S
    <2>4. \A n \in last .. Len(lines) : n \in S
      BY <2>1, <2>2, <2>3, Between
    <2> QED
      BY <2>4 DEF S
  <1>10. name \in ParseLcov(lines)
    <2>1. Len(lines) \in last .. Len(lines)
      BY <1>1, <1>3
    <2> QED
      BY <1>2, <1>9, <2>1
  <1> QED
    BY <1>10 DEF lines

LEMMA CheckCoverageStep == GateVerdict /\ CheckCoverage => GateVerdict'
  <1> SUFFICES ASSUME CheckCoverage PROVE GateVerdict'
    OBVIOUS
  <1>1. CASE gate' = [verdict |-> "failed", truth |-> <<>>]
    BY <1>1 DEF GateVerdict
  <1>2. CASE \E report \in Reports :
               gate' = [truth |-> report.truth,
                        verdict |-> IF ParseLcov(report.lines) = {} THEN "covered" ELSE "failed"]
    <2>1. PICK report \in Reports :
               gate' = [truth |-> report.truth,
                        verdict |-> IF ParseLcov(report.lines) = {} THEN "covered" ELSE "failed"]
      BY <1>2
    <2> SUFFICES ASSUME gate'.verdict = "covered", NEW k \in DOMAIN gate'.truth, gate'.truth[k].mock,
                        NEW name \in DOMAIN gate'.truth[k].functions
                 PROVE  gate'.truth[k].functions[name] > 0
      BY DEF GateVerdict
    <2>2. gate'.truth = report.truth /\ ParseLcov(report.lines) = {}
      BY <2>1
    <2>3. report.truth[k].mock = TRUE /\ report.truth[k].functions[name] \in Nat
      BY <2>2, ReportsAssumption
    <2>4. name \notin Uncalled(report.truth[k].functions)
      BY <2>2, <2>3, UncalledFound
    <2> QED
      BY <2>2, <2>3, <2>4 DEF Uncalled
  <1> QED
    BY <1>1, <1>2 DEF CheckCoverage

(* The other scripts leave the verdict alone. *)
LEMMA NextGate == GateVerdict /\ [Next]_vars => GateVerdict'
  <1>1. GateVerdict /\ gate' = gate => GateVerdict'
    BY DEF GateVerdict
  <1>2. [Next]_vars => CheckCoverage \/ gate' = gate
    BY DEF Next, vars, CampaignAt, ForkAt, StartCampaign, Backup, ApplyMutation, RunForgeTest,
           Restore, Summarise, KillCampaign, Edit, StartFork, DiscoverBinaries, AssertPortFree,
           Launch, Poll, ReconcileFeature, ForgeTest, Teardown, AnvilBinds, AnvilCrashes,
           SomebodyListens, KillFork
  <1> QED
    BY <1>1, <1>2, CheckCoverageStep

(***************************************************************************)
(* The coverage gate's verdict, on any report in lcov's format: "covered"  *)
(* means that every function of every mock was called (ParseLcov adds up   *)
(* the hits of a name, and a missing file is not covered).                 *)
(***************************************************************************)
THEOREM GateVerdictMeans == Spec => []GateVerdict
  <1>1. Init => GateVerdict
    BY DEF Init, GateVerdict
  <1> QED
    BY <1>1, NextGate, PTL DEF Spec

-----------------------------------------------------------------------------
(* What the invariants say.                                                *)

(***************************************************************************)
(* Unless it is killed, a script leaves nothing behind: the mocks are as   *)
(* the campaign found them but for the mutation under test, whatever the   *)
(* suite does, if nobody else edits them; and a fork run that has ended    *)
(* has no anvil.                                                           *)
(***************************************************************************)
THEOREM NothingIsLeftBehind == Spec => []NothingLeftBehind
  <1>1. CampaignInv => TreeAsFound
    BY DEF CampaignInv, TreeInv, TreeAsFound
  <1>2. ForkInv => AnvilGone
    BY DEF ForkInv, NodeInv, AnvilGone
  <1> QED
    BY <1>1, <1>2, CampaignInvariant, ForkInvariant, PTL DEF NothingLeftBehind

(* A campaign that succeeded has an outcome for every mutation, and it is   *)
(* that the pattern was not applicable or that the suite failed.            *)
LEMMA CampaignMeans == CampaignInv => CampaignVerdict
  <1> SUFFICES ASSUME CampaignInv, campaign.pc = "succeeded", ~campaign.edited,
                      NEW k \in DOMAIN Mutations, Applicable(Mutations[k], found)
               PROVE  Suite(Mutated(Mutations[k], found)) = "fail"
    BY DEF CampaignVerdict
  <1>1. /\ campaign.results \in Seq(Outcomes) /\ campaign.i \in Nat
        /\ Len(Mutations) \in Nat /\ DOMAIN Mutations = 1..Len(Mutations)
    BY ScriptsAssumption DEF CampaignInv, CampaignTypeOK
  <1>2. /\ Len(campaign.results) = campaign.i - 1 /\ campaign.i > Len(Mutations)
        /\ \A j \in 1..Len(campaign.results) : campaign.results[j] \notin {"raised", "survived"}
    BY DEF CampaignInv, LoopInv
  <1>3. k \in 1..Len(campaign.results) /\ DOMAIN campaign.results = 1..Len(campaign.results)
    BY <1>1, <1>2
  <1>4. campaign.results[k] \in Outcomes
    BY <1>1, <1>3, ElementOfSeq
  <1>5. OutcomeMeans(k, campaign.results[k])
    BY <1>3 DEF CampaignInv, TreeInv
  <1> QED
    BY <1>2, <1>3, <1>4, <1>5 DEF Outcomes, OutcomeMeans

(***************************************************************************)
(* A green verdict of a script means what it says, for every tree, table,  *)
(* suite, coverage report and list of features.                            *)
(***************************************************************************)
THEOREM VerdictsMeanWhatTheySay == Spec => []VerdictsMean
  <1>1. ForkInv => ForkVerdict
    BY DEF ForkInv, ProgressInv, ForkVerdict
  <1> QED
    BY <1>1, CampaignMeans, CampaignInvariant, ForkInvariant, GateVerdictMeans, PTL
    DEF VerdictsMean

=============================================================================
