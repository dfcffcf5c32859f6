----------------------------- MODULE LocalScripts -----------------------------
(***************************************************************************)
(* The scripts a developer runs on the source tree: the mutation campaign  *)
(* (src/script/mutate.py), the coverage gate (check-coverage.py) and the   *)
(* fork runner (fork/__main__.py), with what they share with the rest of   *)
(* the machine: the mock files, which others edit, and a port, which       *)
(* others listen on.  forge and anvil are outside: their answers are       *)
(* parameters or choices.  Each script can be killed between two steps.    *)
(***************************************************************************)
EXTENDS Integers, Sequences, FiniteSets, TLC, SequencesExt

CONSTANTS
  Files, Trees,\* a tree has for each file its text, a sequence of fragments
  Fragments,   \* what texts, and the patterns of the table, are made of
  Mutations,   \* the table: a sequence of [file, old, new] fragments
  Suite(_),    \* what forge test makes of a tree: "pass", "fail", "hang"
  Reports,     \* what forge coverage may write: [truth, lines], where truth is
               \* a sequence of [mock, functions : name -> calls]
  FEATURES,    \* a sequence of names
  Skip,        \* those named in SKIP_ACTIVATE
  MaxPolls,    \* 20 in the code
  Runs,        \* how often the fork runner is started
  Trouble      \* how often others edit, listen or kill

Uncalled(fn_hits) == {n \in DOMAIN fn_hits : fn_hits[n] = 0}

\* The lcov record of a source file: its functions are named, and nothing is
\* counted for one that was not called.
Records(lines, source) ==
  \E first, last \in DOMAIN lines :
    /\ first < last
    /\ lines[first].tag = "SF" /\ lines[first].mock = source.mock
    /\ lines[last].tag = "end_of_record"
    /\ \A p \in first + 1 .. last - 1 :
         /\ lines[p].tag \notin {"SF", "end_of_record"}
         /\ lines[p].tag = "FNDA" /\ lines[p].hits # 0 =>
              lines[p].name \notin Uncalled(source.functions)
    /\ \A name \in DOMAIN source.functions :
         \E p \in first + 1 .. last - 1 : lines[p].tag = "FN" /\ lines[p].name = name

ASSUME ScriptsAssumption ==
  /\ Trees \subseteq [Files -> Seq(Fragments)] /\ "edit" \in Fragments
  /\ Mutations \in Seq([file : Files, old : Fragments, new : Fragments])
  /\ FEATURES \in Seq(STRING)

ASSUME ReportsAssumption ==
  \A report \in Reports :
    /\ report.lines \in Seq([tag : STRING, mock : BOOLEAN, name : STRING, hits : Nat])
    /\ \A k \in DOMAIN report.truth :
         /\ report.truth[k].mock \in BOOLEAN
         /\ report.truth[k].functions \in [DOMAIN report.truth[k].functions -> Nat]
         /\ Records(report.lines, report.truth[k])

VARIABLES
  text, found, campaign,  \* the mock files; as the campaign found them; the campaign
  gate,                   \* the last verdict of the coverage gate
  port, anvil, fork,      \* who listens; the runner's own anvil; the runner
  runs, trouble           \* what is left of Runs and Trouble

treeVars == <<text, found, campaign>>
forkVars == <<port, anvil, fork, runs>>
vars == <<treeVars, gate, forkVars, trouble>>

-----------------------------------------------------------------------------
(* mutate.py                                                               *)

Occurrences(m, tree) == {p \in DOMAIN tree[m.file] : tree[m.file][p] = m.old}
Applicable(m, tree)  == Cardinality(Occurrences(m, tree)) = 1
Mutated(m, tree) ==
  [tree EXCEPT ![m.file] = [p \in DOMAIN @ |-> IF @[p] = m.old THEN m.new ELSE @[p]]]

Mutation == Mutations[campaign.i]
CampaignAt(pc) == campaign.pc = pc /\ UNCHANGED <<gate, forkVars, trouble>>

NewCampaign == [pc |-> "next", i |-> 1, backup |-> <<>>, results |-> <<>>, edited |-> FALSE]

StartCampaign ==
  /\ CampaignAt("off")
  /\ campaign' = NewCampaign /\ found' = text /\ UNCHANGED text

Backup ==
  /\ CampaignAt("next") /\ campaign.i <= Len(Mutations)
  /\ campaign' = [campaign EXCEPT !.pc = "apply", !.backup = text[Mutation.file]]
  /\ UNCHANGED <<text, found>>

\* The file is read again; a pattern that is not there exactly once is skipped.
ApplyMutation ==
  /\ CampaignAt("apply")
  /\ IF Applicable(Mutation, text)
     THEN text' = Mutated(Mutation, text) /\ campaign' = [campaign EXCEPT !.pc = "test"]
     ELSE /\ UNCHANGED text
          /\ campaign' = [campaign EXCEPT !.pc = "restore", !.results = Append(@, "skipped")]
  /\ UNCHANGED found

\* A suite that does not end within its time raises out of the loop.
RunForgeTest ==
  /\ CampaignAt("test")
  /\ campaign' = [campaign EXCEPT !.pc = "restore",
                    !.results = Append(@, CASE Suite(text) = "pass" -> "survived"
                                            [] Suite(text) = "fail" -> "killed"
                                            [] OTHER                -> "raised")]
  /\ UNCHANGED <<text, found>>

\* Mutant: the file is restored after a verdict only.
Restore_afterVerdict ==
  /\ CampaignAt("restore")
  /\ text' = IF Last(campaign.results) = "raised" THEN text
             ELSE [text EXCEPT ![Mutation.file] = campaign.backup]
  /\ campaign' = [campaign EXCEPT !.i = @ + 1,
                    !.pc = IF Last(campaign.results) = "raised" THEN "failed" ELSE "next"]
  /\ UNCHANGED found

\* finally: whatever happened, and whoever wrote to the file meanwhile.
Restore ==
  /\ CampaignAt("restore")
  /\ text' = [text EXCEPT ![Mutation.file] = campaign.backup]
  /\ campaign' = [campaign EXCEPT !.i = @ + 1,
                    !.pc = IF Last(campaign.results) = "raised" THEN "failed" ELSE "next"]
  /\ UNCHANGED found

Summarise ==
  /\ CampaignAt("next") /\ campaign.i > Len(Mutations)
  /\ campaign' = [campaign EXCEPT !.pc = IF "survived" \in ToSet(campaign.results)
                                         THEN "failed" ELSE "succeeded"]
  /\ UNCHANGED <<text, found>>

\* Killed, the campaign restores nothing; another one may follow it.
KillCampaign ==
  /\ campaign.pc \in {"next", "apply", "test", "restore"} /\ trouble > 0
  /\ campaign' = [campaign EXCEPT !.pc = "off"] /\ trouble' = trouble - 1
  /\ UNCHANGED <<text, found, gate, forkVars>>

Edit(file) ==
  /\ trouble > 0 /\ trouble' = trouble - 1
  /\ text' = [text EXCEPT ![file] = Append(@, "edit")]
  /\ campaign' = [campaign EXCEPT !.edited = TRUE]
  /\ UNCHANGED <<found, gate, forkVars>>

-----------------------------------------------------------------------------
(* check-coverage.py: the lcov report, line by line.                       *)

Hits(fn_hits, name) == IF name \in DOMAIN fn_hits THEN fn_hits[name] ELSE 0
Counted(fn_hits, name, hits) ==
  [n \in DOMAIN fn_hits \union {name} |-> IF n = name THEN Hits(fn_hits, n) + hits
                                         ELSE fn_hits[n]]

NoRecord(uncovered) == [mock |-> FALSE, fn_hits |-> <<>>, uncovered |-> uncovered]

ParseLine(acc, line) ==
  CASE line.tag = "SF"   -> [mock |-> line.mock, fn_hits |-> <<>>, uncovered |-> acc.uncovered]
    [] line.tag = "FN"   -> [acc EXCEPT !.fn_hits = Counted(@, line.name, 0)]
    [] line.tag = "FNDA" -> [acc EXCEPT !.fn_hits = Counted(@, line.name, line.hits)]
    [] line.tag = "end_of_record" ->
         NoRecord(acc.uncovered \union (IF acc.mock THEN Uncalled(acc.fn_hits) ELSE {}))
    [] OTHER -> acc

ParseLcov(lines) ==
  LET parsed[n \in 0..Len(lines)] ==
        IF n = 0 THEN NoRecord({}) ELSE ParseLine(parsed[n-1], lines[n])
  IN  parsed[Len(lines)].uncovered

\* forge coverage fails, or writes a report of what it counted.
CheckCoverage ==
  /\ gate = [verdict |-> "none", truth |-> <<>>]
  /\ \/ gate' = [verdict |-> "failed", truth |-> <<>>]
     \/ \E report \in Reports :
          gate' = [truth |-> report.truth,
                   verdict |-> IF ParseLcov(report.lines) = {} THEN "covered" ELSE "failed"]
  /\ UNCHANGED <<treeVars, forkVars, trouble>>

-----------------------------------------------------------------------------
(* fork/__main__.py                                                        *)

Nobody == [mine |-> FALSE, active |-> {"nobody"}]
Wanted == ToSet(FEATURES) \ Skip
NewRun ==
  [pc |-> "discover", polls |-> 0, i |-> 1, tested |-> Nobody, grabbed |-> FALSE, exit |-> 0]

ForkAt(pc) == fork.pc = pc /\ UNCHANGED <<treeVars, gate, runs, trouble>>
Goto(pc)   == fork' = [fork EXCEPT !.pc = pc]
Leave(code) == fork' = [fork EXCEPT !.pc = "teardown", !.exit = code]
LeaveAtOnce(code) == fork' = [fork EXCEPT !.pc = "done", !.exit = code]

\* An anvil that a killed run left behind is a stranger to the next one.
StartFork ==
  /\ fork.pc \in {"off", "done", "killed"} /\ runs > 0 /\ runs' = runs - 1
  /\ fork' = NewRun /\ anvil' = "none" /\ port' = [port EXCEPT !.mine = FALSE]
  /\ UNCHANGED <<treeVars, gate, trouble>>

DiscoverBinaries ==
  /\ ForkAt("discover") /\ (Goto("port") \/ LeaveAtOnce(2))
  /\ UNCHANGED <<port, anvil>>

AssertPortFree ==
  /\ ForkAt("port") /\ (IF port = Nobody THEN Goto("launch") ELSE LeaveAtOnce(2))
  /\ UNCHANGED <<port, anvil>>

\* $ANVIL_BIN is taken as it is: Popen raises if it cannot be executed.
Launch ==
  /\ ForkAt("launch")
  /\ \/ anvil' = "starting" /\ Goto("poll")
     \/ anvil' = "none" /\ LeaveAtOnce(1)
  /\ UNCHANGED port

Poll ==
  /\ ForkAt("poll")
  /\ IF anvil = "dead" THEN Leave(2)
     ELSE IF port # Nobody THEN Goto("reconcile")
     ELSE IF fork.polls = MaxPolls THEN Leave(2)
     ELSE fork' = [fork EXCEPT !.polls = @ + 1]
  /\ UNCHANGED <<port, anvil>>

ShouldSkip(name) == name \in Skip

\* Mutant: features to skip are left as the node booted with them.
ReconcileFeature_activateOnly ==
  /\ ForkAt("reconcile") /\ fork.i <= Len(FEATURES)
  /\ LET name == FEATURES[fork.i]
     IN  IF port = Nobody THEN Leave(1) /\ UNCHANGED port
         ELSE fork' = [fork EXCEPT !.i = @ + 1]
              /\ port' = [port EXCEPT !.active = IF ShouldSkip(name) THEN @ ELSE @ \union {name}]
  /\ UNCHANGED anvil

\* The question may go unanswered, which nothing catches; a transaction that
\* fails or reverts is an environment problem.
ReconcileFeature ==
  /\ ForkAt("reconcile") /\ fork.i <= Len(FEATURES)
  /\ LET name == FEATURES[fork.i]
         want == ~ShouldSkip(name)
         next == fork' = [fork EXCEPT !.i = @ + 1]
     IN  \/ port = Nobody /\ Leave(1) /\ UNCHANGED port
         \/ port # Nobody /\ (name \in port.active) = want /\ next /\ UNCHANGED port
         \/ /\ port # Nobody /\ (name \in port.active) # want
            /\ \/ /\ next
                  /\ port' = [port EXCEPT !.active = IF want THEN @ \union {name} ELSE @ \ {name}]
               \/ Leave(2) /\ UNCHANGED port
  /\ UNCHANGED anvil

\* The runner passes on the code forge exits with; 1 stands for all but 0.
ForgeTest ==
  /\ ForkAt("reconcile") /\ fork.i > Len(FEATURES)
  /\ \E code \in (IF port = Nobody THEN {1} ELSE {0, 1}) :
       fork' = [fork EXCEPT !.pc = "teardown", !.exit = code, !.tested = port]
  /\ UNCHANGED <<port, anvil>>

\* terminate, and kill what has not gone after five seconds.
Teardown ==
  /\ ForkAt("teardown") /\ Goto("done")
  /\ anvil' = "dead" /\ port' = IF port.mine THEN Nobody ELSE port

AnvilBinds ==
  /\ anvil = "starting" /\ fork.pc \notin {"done", "killed"}
  /\ IF port = Nobody
     THEN /\ anvil' = "up"
          /\ \E active \in {{}, ToSet(FEATURES)} : port' = [mine |-> TRUE, active |-> active]
     ELSE anvil' = "dead" /\ UNCHANGED port
  /\ UNCHANGED <<treeVars, gate, fork, runs, trouble>>

AnvilCrashes ==
  /\ anvil = "up" /\ trouble > 0 /\ trouble' = trouble - 1
  /\ anvil' = "dead" /\ port' = IF port.mine THEN Nobody ELSE port
  /\ UNCHANGED <<treeVars, gate, fork, runs>>

SomebodyListens ==
  /\ port = Nobody /\ trouble > 0 /\ trouble' = trouble - 1
  /\ \E active \in {{}, ToSet(FEATURES)} : port' = [mine |-> FALSE, active |-> active]
  /\ fork' = [fork EXCEPT !.grabbed = TRUE]
  /\ UNCHANGED <<treeVars, gate, anvil, runs>>

KillFork ==
  /\ fork.pc \notin {"off", "done", "killed"} /\ trouble > 0 /\ trouble' = trouble - 1
  /\ Goto("killed")
  /\ UNCHANGED <<treeVars, gate, port, anvil, runs>>

-----------------------------------------------------------------------------
Init ==
  /\ text \in Trees /\ found = text /\ campaign = [NewCampaign EXCEPT !.pc = "off"]
  /\ gate = [verdict |-> "none", truth |-> <<>>]
  /\ port = Nobody /\ anvil = "none" /\ fork = [NewRun EXCEPT !.pc = "off"]
  /\ runs = Runs /\ trouble = Trouble

Next ==
  \/ StartCampaign \/ Backup \/ ApplyMutation \/ RunForgeTest \/ Restore \/ Summarise
  \/ KillCampaign \/ \E file \in Files : Edit(file)
  \/ CheckCoverage
  \/ StartFork \/ DiscoverBinaries \/ AssertPortFree \/ Launch \/ Poll
  \/ ReconcileFeature \/ ForgeTest \/ Teardown
  \/ AnvilBinds \/ AnvilCrashes \/ SomebodyListens \/ KillFork

Spec == Init /\ [][Next]_vars

-----------------------------------------------------------------------------
(* Properties.                                                             *)

UnderTest ==
  \/ campaign.pc = "test"
  \/ campaign.pc = "restore" /\ Last(campaign.results) # "skipped"

TreeAsFound ==
  campaign.pc # "off" /\ ~campaign.edited =>
    text = IF UnderTest THEN Mutated(Mutation, found) ELSE found

AnvilGone == fork.pc = "done" => anvil \in {"none", "dead"} /\ ~port.mine

(***************************************************************************)
(* Unless it is killed, a script leaves nothing behind: the tree is as the *)
(* campaign found it but for the one mutation under test, even where the   *)
(* suite hangs, if nobody else writes to it; and the anvil is gone however *)
(* the fork run ends.                                                      *)
(***************************************************************************)
NothingLeftBehind == TreeAsFound /\ AnvilGone

CampaignVerdict ==
  campaign.pc = "succeeded" /\ ~campaign.edited =>
    \A k \in DOMAIN Mutations :
      Applicable(Mutations[k], found) => Suite(Mutated(Mutations[k], found)) = "fail"

GateVerdict ==
  gate.verdict = "covered" =>
    \A k \in DOMAIN gate.truth : gate.truth[k].mock =>
      \A name \in DOMAIN gate.truth[k].functions : gate.truth[k].functions[name] > 0

ForkVerdict ==
  fork.pc = "done" =>
    /\ fork.exit = 0 => fork.tested # Nobody
    /\ fork.exit = 0 /\ ~fork.grabbed => fork.tested = [mine |-> TRUE, active |-> Wanted]
    /\ fork.exit = 2 => fork.tested = Nobody

(***************************************************************************)
(* A green verdict means what it says: each mutation the table could apply *)
(* to the tree as it was is caught by the suite; every function of a mock  *)
(* was called; the fork tests ran on the run's own node, with the features *)
(* as they were asked for, unless another process took the port after it   *)
(* was found free.  And exit code 2 means that no test ran.                *)
(***************************************************************************)
VerdictsMean == CampaignVerdict /\ GateVerdict /\ ForkVerdict
=============================================================================
