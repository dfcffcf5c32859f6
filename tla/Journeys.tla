------------------------------- MODULE Journeys -------------------------------
(***************************************************************************)
(* The smoke test's runner (src/script/smoke/__main__.py) and its harness  *)
(* (chain.py), carrying out the scripts of SmokeScripts on the chain of    *)
(* B20Chain while the world goes on: other users create policies, the      *)
(* chain is upgraded, time passes, and the node fails to answer.           *)
(*                                                                         *)
(* `chain` is what the node would answer, everything else is the runner's. *)
(* `j` is the journey in progress; j.hit says whether something happened   *)
(* to it that no test can be blamed for (a node failure, a clock that ran  *)
(* past a schedule the journey meant to keep in the future).               *)
(***************************************************************************)
EXTENDS B20Chain, SmokeScripts

CONSTANTS
  Args,        \* the command lines: sequences of journey names and flags
  Bugs,        \* what an implementation may have got wrong
  Disturbances(_), \* how often the world interferes with a command's run
  MaxPolls,    \* polls before a wait gives up
  Hour, Window,\* seconds ahead the journeys schedule, in units of the model
  MaxNow       \* the clock stops here

ASSUME JourneysAssumption ==
  /\ \A argv \in Args : Disturbances(argv) \in Nat
  /\ MaxPolls \in Nat /\ MaxNow \in Nat
  /\ Hour \in Nat \ {0} /\ Window \in Nat \ {0}

VARIABLES
  chain, todo, phase, j, waited, results, exit, keepGoing, observe, budget

runner == <<todo, phase, j, waited, results, exit, keepGoing, observe>>
vars == <<chain, runner, budget>>

-----------------------------------------------------------------------------
(* The command line. *)

Flags == {"-k", "--keep-going"}
Names(argv) == ToSet(argv) \ Flags
BadUsage(argv) == Names(argv) \ ({"all"} \union DOMAIN Scripts) # {} /\ "all" \notin Names(argv)

\* In the suite's order, whatever the order of the arguments.
Plan(argv) ==
  LET If(i) == IF Names(argv) \intersect {"all", ORDER[i]} # {} THEN <<ORDER[i]>> ELSE <<>>
  IN  If(1) \o If(2) \o If(3) \o If(4) \o If(5) \o If(6) \o If(7) \o If(8)

Fresh == [name |-> "none", fork |-> 0, pos |-> 1, locals |-> <<>>, flags |-> {}, emitted |-> {},
          last |-> <<>>, funded |-> FALSE, findings |-> {}, hit |-> FALSE]

\* Chain(cfg): nothing of an earlier journey is left in the harness.
Begin(name) ==
  [Fresh EXCEPT !.name = name, !.fork = chain.fork,
     !.flags = {"always"} \union (IF observe THEN {"observe_flip"} ELSE {}),
     !.locals = [ALWAYS_ALLOW |-> ALWAYS_ALLOW, ALWAYS_BLOCK |-> ALWAYS_BLOCK, ghost |-> Ghost]
                @@ ("2^64" :> MaxTime + 1)]

Init ==
  /\ \E argv \in Args, fork \in {Beryl, Cobalt, Denim}, bug \in Bugs \union {NoBug},
        features \in {{"ASSET", "STABLECOIN", "POLICY"}, {"ASSET", "POLICY"}, {}},
        receiversFirst \in BOOLEAN :
       /\ bug # NoBug => /\ Plan(argv) = ORDER /\ fork = Denim
                         /\ features = {"ASSET", "STABLECOIN", "POLICY"}
       /\ ~receiversFirst => Names(argv) = {"asset"} /\ bug = NoBug
       /\ chain = [fork |-> fork, bug |-> bug, now |-> 1, counter |-> 2, features |-> features,
                   receiversFirst |-> receiversFirst,
                   policies |-> <<>>, tokens |-> <<>>, gas |-> <<>>, fed |-> {}]
       /\ keepGoing = (ToSet(argv) \cap Flags # {})
       /\ todo = IF BadUsage(argv) THEN <<>> ELSE Plan(argv)
       /\ phase = IF BadUsage(argv) \/ Names(argv) = {} THEN "ended" ELSE "connect"
       /\ exit = IF BadUsage(argv) \/ Names(argv) = {} THEN "error" ELSE "ok"
       /\ observe \in IF "multiplier" \in Names(argv) THEN BOOLEAN ELSE {FALSE}
       /\ budget = IF bug = NoBug THEN Disturbances(argv) ELSE 0
  /\ j = Fresh /\ waited = 0 /\ results = <<>>

-----------------------------------------------------------------------------
(* The main loop. *)

End(how) == phase' = "ended" /\ exit' = how

\* A journey is over: its verdict, and the next one or the end of the run.
\* (The failure that ends a fail-fast run is kept too.)
Finish(status, hit) ==
  /\ results' = Append(results, [name |-> Head(todo), status |-> status, hit |-> hit,
                                 fork |-> j.fork, features |-> chain.features])
  /\ todo' = Tail(todo) /\ j' = Fresh
  /\ IF status = "fail" /\ ~keepGoing THEN End("error")
     ELSE IF Tail(todo) = <<>> THEN End("ok") ELSE phase' = "connect" /\ UNCHANGED exit

Turn(next) == phase' = next /\ UNCHANGED <<todo, results, exit>>

Connect ==
  /\ phase = "connect" /\ Turn("fund") /\ j' = Begin(Head(todo))
  /\ UNCHANGED <<chain, waited, keepGoing, observe, budget>>

\* The balance is enough; or it is not and there is no faucet, or one to ask,
\* which refuses or is waited for.
EnsureDeployerFunded ==
  /\ phase = "fund"
  /\ \/ Turn("features")
     \/ End("error") /\ UNCHANGED <<todo, results>>
     \/ Turn("faucet")
  /\ waited' = 0
  /\ UNCHANGED <<chain, j, keepGoing, observe, budget>>

AwaitFaucet ==
  /\ phase = "faucet"
  /\ \/ Turn("features") /\ waited' = 0
     \/ waited < MaxPolls /\ waited' = waited + 1 /\ Turn("faucet")
     \/ waited = MaxPolls /\ End("error") /\ UNCHANGED <<todo, results, waited>>
  /\ UNCHANGED <<chain, j, keepGoing, observe, budget>>

FeaturesActivated ==
  /\ phase = "features"
  /\ IF {"ASSET", "STABLECOIN", "POLICY"} \subseteq chain.features
     THEN Turn("running") /\ UNCHANGED j
     ELSE Finish("skip", FALSE)
  /\ UNCHANGED <<chain, waited, keepGoing, observe, budget>>

-----------------------------------------------------------------------------
(* The step under way, with the names in its call replaced by their values. *)

Script  == Scripts[Head(todo)]
Current == Script[j.pos]

Local(name) ==
  CASE name = "simple^bit63" -> Inverted(j.locals["simple"])
    [] name = "0^bit63"      -> Inverted(ALWAYS_ALLOW)
    [] OTHER                 -> j.locals[name]
Locals(names) == [i \in DOMAIN names |-> Local(names[i])]

OfPolicy == Updates \union {"policyExists", "policyAdmin", "pendingPolicyAdmin", "isAuthorized",
                            "compositePolicyChildIds", "invertedPolicyId"}

Simple(c) ==
  CASE c[1] = "updateComposite"       -> [c EXCEPT ![3] = Local(@), ![4] = Locals(@)]
    [] c[1] = "createCompositePolicy" -> [c EXCEPT ![5] = Locals(@)]
    [] c[1] \in OfPolicy              -> [c EXCEPT ![3] = Local(@)]
    [] c[1] \in {"updatePolicy", "updateUIMultiplier"} -> [c EXCEPT ![4] = Local(@)]
    [] OTHER                          -> c

Resolved(c) ==
  CASE c[1] = "createB20" -> [c EXCEPT ![6] = [i \in DOMAIN @ |-> Simple(@[i])]]
    [] c[1] \in DOMAIN Rejection \union {"returndata", "callThenRevert"} ->
         IF c[3] = <<>> THEN c ELSE [c EXCEPT ![3] = Simple(@)]
    [] OTHER -> Simple(c)

Answer   == Perform(chain, Current.who, Resolved(Current.call))
Viewed   == View(chain, Resolved(Current.call))
Known    == Shipped(chain, Current.call[1])
Events(logs) == {logs[i][1] : i \in DOMAIN logs}
Payloads(event) == SelectSeq(j.last, LAMBDA e : e[1] = event)

Running(kinds) ==
  /\ phase = "running" /\ j.pos <= Len(Script)
  /\ Current.when \in j.flags /\ Current.do \in kinds

Advance(next) == j' = [next EXCEPT !.pos = @ + 1] /\ Turn("running")

\* die(), or an exception: a collected check is recorded and the next one
\* begins (run_collected); elsewhere the journey is over.
NextCheck ==
  CHOOSE p \in j.pos + 1 .. Len(Script) + 1 :
    /\ p > Len(Script) \/ Script[p].check # Current.check
    /\ \A q \in j.pos + 1 .. p - 1 : Script[q].check = Current.check

Fail(at) ==
  IF Current.check = 0 THEN Finish("fail", at.hit)
  ELSE /\ j' = [at EXCEPT !.findings = @ \union {Current.check}, !.pos = NextCheck]
       /\ Turn("running")

Judge(ok, next) == IF ok THEN Advance(next) ELSE Fail(j)

Still == UNCHANGED <<waited, keepGoing, observe, budget>>

-----------------------------------------------------------------------------
(* Transactions. *)

Recorded(logs) == [j EXCEPT !.last = logs, !.emitted = @ \union Events(logs)]

\* send: gas estimation already fails where the call would revert.
SendTx ==
  /\ Running({"send"})
  /\ \E answer \in {Answer} :
       IF answer.error = "none" /\ (Current.who = U => j.funded)
       THEN chain' = answer.chain /\ Advance(Recorded(answer.logs))
       ELSE UNCHANGED chain /\ Fail(j)
  /\ Still

\* The new policy's id is the one its own receipt announces.
PolicyIdFrom(logs) == SelectSeq(logs, LAMBDA e : e[1] = "PolicyCreated")[1][2]

CreatePolicyTx ==
  /\ Running({"create"})
  /\ \E answer \in {Answer} :
       IF answer.error = "none"
       THEN /\ chain' = answer.chain
            /\ Advance([Recorded(answer.logs) EXCEPT
                          !.locals = (Current.want :> PolicyIdFrom(answer.logs)) @@ @])
       ELSE UNCHANGED chain /\ Fail(j)
  /\ Still

FundUser2 ==
  /\ Running({"fund_user2"})
  /\ Advance([j EXCEPT !.funded = TRUE]) /\ UNCHANGED chain /\ Still

\* deploy: of the probe, or of a contract that leaves its ether at the target.
DeployTx ==
  /\ Running({"deploy"})
  /\ chain' = [chain EXCEPT !.fed = @ \union {Current.call}]
  /\ Advance(j) /\ Still

\* The transaction is mined and must have failed; its receipt is not recorded.
SendExpectingRevert ==
  /\ Running({"send_expecting_revert"})
  /\ \E answer \in {Answer} :
       /\ chain' = answer.chain
       /\ Judge(answer.error # "none", [j EXCEPT !.last = answer.logs])
  /\ Still

-----------------------------------------------------------------------------
(* Simulated calls and views. *)

\* Mutant: any revert will do.
RevertsAs_any(error, want) == error # "none"

\* expect_revert and its kin ask for one error, by its selector.
RevertsAs(error, want) == error # "none" /\ want \in {error, "any"}

ExpectRevert ==
  /\ Running({"expect_revert", "expect_abi_decode_failed", "expect_raw_panic"})
  /\ Judge(RevertsAs(Answer.error, Current.want), j)
  /\ UNCHANGED chain /\ Still

\* expect_raw_revert names an error only where error_name is given; a call
\* through the probe contract is read by its success flag.
ExpectRawRevert ==
  /\ Running({"expect_raw_revert", "probe_fails"})
  /\ Judge(RevertsAs(Answer.error, Current.want), j)
  /\ UNCHANGED chain /\ Still

AssertEq ==
  /\ Running({"assert_eq", "assert_named", "assert_all_named", "assert_same"})
  /\ Judge(/\ Known
           /\ CASE Current.do = "assert_eq"        -> Viewed = Current.want
                [] Current.do = "assert_named"     -> Viewed = Local(Current.want)
                [] Current.do = "assert_all_named" -> Viewed = Locals(Current.want)
                [] Current.do = "assert_same"      -> Viewed = View(chain, Current.want), j)
  /\ UNCHANGED chain /\ Still

ReadView ==
  /\ Running({"read"})
  /\ IF Known THEN Advance([j EXCEPT !.locals = (Current.want :> Viewed) @@ @]) ELSE Fail(j)
  /\ UNCHANGED chain /\ Still

\* Mutant: one fork's selector is probed for every feature.
ProbeFork_newestOnly ==
  /\ Running({"supports_erc165", "probe_view"})
  /\ Advance(IF Shipped(chain, "invertedPolicyId")
             THEN [j EXCEPT !.flags = @ \union {Current.want}] ELSE j)
  /\ UNCHANGED chain /\ Still

\* What the chain can do decides what is asked of it.
ProbeFork ==
  /\ Running({"supports_erc165", "probe_view"})
  /\ Advance(IF Known THEN [j EXCEPT !.flags = @ \union {Current.want}] ELSE j)
  /\ UNCHANGED chain /\ Still

ProbeRevert ==
  /\ Running({"probe_call"})
  /\ Advance(IF RevertsAs(Answer.error, Current.want[2])
             THEN [j EXCEPT !.flags = @ \union {Current.want[1]}] ELSE j)
  /\ UNCHANGED chain /\ Still

ReadClock ==
  /\ Running({"now"})
  /\ Advance([j EXCEPT !.locals = (Current.want :> chain.now
                  + (CASE Current.call = "hour" -> Hour [] Current.call = "window" -> Window
                       [] OTHER -> 0)) @@ @])
  /\ UNCHANGED chain /\ Still

\* Mutant: the wait has no deadline.
PollFlip_noDeadline ==
  /\ Running({"poll"})
  /\ IF chain.now >= j.locals[Current.call]
     THEN Advance([j EXCEPT !.flags = @ \union {"flipped"}]) /\ waited' = 0
     ELSE j' = j /\ waited' = 1 - waited /\ Turn("running")
  /\ UNCHANGED <<chain, keepGoing, observe, budget>>

\* The flip is waited for, not insisted on: at the deadline the rest is skipped.
PollFlip ==
  /\ Running({"poll"})
  /\ LET flipped == /\ chain.now >= j.locals[Current.call]
                    /\ View(chain, <<"multiplier", "multiplier">>) = Current.want
     IN  \/ flipped /\ Advance([j EXCEPT !.flags = @ \union {"flipped"}]) /\ waited' = 0
         \/ ~flipped /\ waited < MaxPolls /\ waited' = waited + 1 /\ j' = j /\ Turn("running")
         \/ ~flipped /\ waited = MaxPolls /\ waited' = 0 /\ Advance(j)
  /\ UNCHANGED <<chain, keepGoing, observe, budget>>

-----------------------------------------------------------------------------
(* What the receipts say. *)

AssertLog ==
  /\ Running({"assert_log", "assert_no_log"})
  /\ Judge((Current.do = "assert_log") = (Current.call \in Events(j.last)), j)
  /\ UNCHANGED chain /\ Still

AssertLogOrder ==
  /\ Running({"assert_log_order"})
  /\ Judge(\E i \in 1 .. Len(j.last) - 1 :
             j.last[i][1] = Current.call /\ j.last[i + 1][1] = Current.want, j)
  /\ UNCHANGED chain /\ Still

EventArgs ==
  /\ Running({"event_args", "event_times", "composite_children_from"})
  /\ LET event == IF Current.do = "composite_children_from" THEN "CompositePolicyUpdated"
                  ELSE Current.call
         wanted == CASE Current.do = "event_args"  -> Current.want
                     [] Current.do = "event_times" ->
                          Append(Current.want[1], Local(Current.want[2]))
                     [] OTHER                      -> Locals(Current.want)
     IN  Judge(Payloads(event) # <<>> /\ Payloads(event)[1][2] = wanted, j)
  /\ UNCHANGED chain /\ Still

AssertEventsEmitted ==
  /\ Running({"assert_events_emitted"})
  /\ Judge(Current.want \subseteq j.emitted, j)
  /\ UNCHANGED chain /\ Still

SkipJourney ==
  /\ Running({"skip"})
  /\ IF Current.want \in j.flags THEN Advance(j) ELSE Finish("skip", j.hit)
  /\ UNCHANGED chain /\ Still

NotApplicable ==
  /\ phase = "running" /\ j.pos <= Len(Script) /\ Current.when \notin j.flags
  /\ Advance(j) /\ UNCHANGED chain /\ Still

JourneyEnds ==
  /\ phase = "running" /\ j.pos > Len(Script)
  /\ Finish(IF j.findings = {} THEN "pass" ELSE "fail", j.hit)
  /\ UNCHANGED chain /\ Still

-----------------------------------------------------------------------------
(* The world. *)

Disturb == budget > 0 /\ budget' = budget - 1 /\ UNCHANGED <<waited, keepGoing, observe>>

ReceiptOnly == {"assert_log", "assert_no_log", "assert_log_order", "event_args", "event_times",
                "composite_children_from", "assert_events_emitted", "skip"}
Transactions == {"send", "create", "deploy", "send_expecting_revert"}

\* The node fails to answer in the middle of a step.  A transaction may be
\* mined all the same.  Where the harness catches every exception it takes
\* the failure for an answer: "not supported", or "rejected".
NodeFails ==
  /\ phase = "running" /\ j.pos <= Len(Script) /\ Current.when \in j.flags
  /\ Current.do \notin ReceiptOnly /\ Disturb
  /\ LET hit == [j EXCEPT !.hit = TRUE]
         forgiven == \/ Current.do \in {"supports_erc165", "expect_raw_revert"}
                     \/ /\ Current.do = "assert_eq" /\ Current.call[1] = "supportsInterface"
                        /\ Current.want = FALSE
     IN  IF forgiven THEN Advance(hit) ELSE Fail(hit)
  /\ \/ UNCHANGED chain
     \/ /\ Current.do \in {"send", "create"}
        /\ \E answer \in {Answer} : answer.error = "none" /\ chain' = answer.chain

\* The same before the journey: features_activated takes it for a chain
\* without the registry, the rest of the preflight lets it end the run.
NodeFailsBefore ==
  /\ phase \in {"connect", "fund", "features"} /\ Disturb
  /\ IF phase = "features" THEN Finish("skip", TRUE)
     ELSE End("error") /\ UNCHANGED <<todo, results, j>>
  /\ UNCHANGED chain

\* Somebody else creates a policy.
StrangerCreates ==
  /\ phase = "running" /\ Disturb
  /\ chain' = Call(chain, "stranger", <<"createPolicy", R, "stranger", "BLOCKLIST">>).chain
  /\ UNCHANGED <<todo, phase, j, results, exit>>

Upgrade ==
  /\ phase = "running" /\ chain.fork < Denim /\ Disturb
  /\ chain' = [chain EXCEPT !.fork = @ + 1]
  /\ UNCHANGED <<todo, phase, j, results, exit>>

\* Only the multiplier journey looks at the clock.  It is hit when the time of
\* its schedule comes before it has sent it, or while it still expects it ahead.
Overtaken(time) ==
  \/ \E t \in DOMAIN chain.tokens : chain.tokens[t].mult.at = time /\ Current.do # "poll"
  \/ /\ Current.when \in j.flags /\ Current.do = "send" /\ Current.call[1] = "updateUIMultiplier"
     /\ Local(Current.call[4]) = time

Tick ==
  /\ phase = "running" /\ Head(todo) = "multiplier" /\ j.pos <= Len(Script)
  /\ chain.now < MaxNow /\ chain.bug = NoBug
  /\ chain' = [chain EXCEPT !.now = @ + 1]
  /\ j' = [j EXCEPT !.hit = @ \/ Overtaken(chain.now + 1)]
  /\ UNCHANGED <<todo, phase, waited, results, exit, keepGoing, observe, budget>>

Client ==
  \/ Connect \/ EnsureDeployerFunded \/ AwaitFaucet \/ FeaturesActivated
  \/ SendTx \/ CreatePolicyTx \/ FundUser2 \/ DeployTx \/ SendExpectingRevert
  \/ ExpectRevert \/ ExpectRawRevert \/ AssertEq \/ ReadView \/ ProbeFork \/ ProbeRevert
  \/ ReadClock \/ PollFlip \/ AssertLog \/ AssertLogOrder \/ EventArgs
  \/ AssertEventsEmitted \/ SkipJourney \/ NotApplicable \/ JourneyEnds

World == NodeFails \/ NodeFailsBefore \/ StrangerCreates \/ Upgrade \/ Tick

Ended == phase = "ended"
Stopped == Ended /\ UNCHANGED vars

Next == Client \/ World \/ Stopped

\* The runner is one thread that never waits for anything but its own polls.
\* This is WF_vars(Client) with its ENABLED written out: until it has ended
\* the runner can take a step (the check for deadlock is the proof of that,
\* for the world can interfere only so often).
Fairness == []<>Ended \/ []<><<Client>>_vars

Spec == Init /\ [][Next]_vars /\ Fairness

-----------------------------------------------------------------------------
(* What the smoke test is worth. *)

\* No false alarm: on an implementation without a bug a journey fails only if
\* something hit it, whoever else uses the chain or upgrades it meanwhile.
\* Two journeys do not ask for the fork they need (policy, invariants) and
\* fail on Beryl; and asset expects a batch to look at all its receivers before
\* it mints for the first, which the mocks do not.
NoFalseAlarm ==
  chain.bug = NoBug =>
    \A i \in DOMAIN results :
      results[i].status = "fail" =>
        \/ results[i].hit
        \/ results[i].fork = Beryl /\ results[i].name \in {"policy", "invariants"}
        \/ results[i].name = "asset" /\ ~chain.receiversFirst

\* A pass means something: the whole suite passes undisturbed on Denim only
\* if the implementation has none of the bugs.
PassMeansSound ==
  /\ Ended /\ exit = "ok" /\ Len(results) = Len(ORDER)
  /\ \A i \in DOMAIN results : results[i].status = "pass" /\ ~results[i].hit
  => chain.bug = NoBug

\* A journey is skipped only where its surface is missing: a feature is off,
\* or the fork is too old.  Only a node failure is taken for that, too.
SkipsAreEarned ==
  \A i \in DOMAIN results :
    results[i].status = "skip" =>
      \/ results[i].hit
      \/ ~({"ASSET", "STABLECOIN", "POLICY"} \subseteq results[i].features)
      \/ results[i].name \in {"multiplier", "seize"} /\ results[i].fork < Cobalt
      \/ results[i].name = "policyinvert" /\ results[i].fork < Denim

\* The run ends, whether or not the clock moves, the faucet pays, or the node
\* answers: every wait has a deadline.
RunEnds == <>Ended
=============================================================================
