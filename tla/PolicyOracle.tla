---------------------------- MODULE PolicyOracle ----------------------------
(***************************************************************************)
(* What the policy registry promises to its callers, the tokens: a growing *)
(* set of known policy ids, each with a current verdict (the accounts it   *)
(* authorizes).  Verdicts of known ids change under the token at any time, *)
(* except those of sealed ids; an id and its inverse always disagree; the  *)
(* creation of a policy disturbs no other policy.  PolicyRegistry is shown *)
(* to implement this module, and the token modules run against it.         *)
(***************************************************************************)
EXTENDS FiniteSets

CONSTANTS
  Subjects,     \* the accounts policies judge
  PolicyIds,    \* every policy id
  Inverted(_),   \* the id with the invert flag toggled
  AlwaysAllow,  \* the built-in that authorizes everybody
  AlwaysBlock   \* the built-in that authorizes nobody

ASSUME OracleAssumption ==
  /\ \A id \in PolicyIds : /\ Inverted(id) \in PolicyIds \ {id}
                            /\ Inverted(Inverted(id)) = id
  /\ AlwaysAllow \in PolicyIds
  /\ AlwaysBlock \in PolicyIds \ {AlwaysAllow, Inverted(AlwaysAllow)}

VARIABLES
  known,    \* the ids policyExists accepts
  sealed,   \* the known ids whose verdict nobody can change any more
  verdict   \* known id -> the accounts isAuthorized accepts

oracleVars == <<known, sealed, verdict>>

Complementary(v) ==
  \A id \in DOMAIN v : v[Inverted(id)] = Subjects \ v[id]

Builtins == {AlwaysAllow, AlwaysBlock, Inverted(AlwaysAllow), Inverted(AlwaysBlock)}

OracleTypeOK ==
  /\ known \subseteq PolicyIds /\ Builtins \subseteq known
  /\ \A id \in known : Inverted(id) \in known
  /\ sealed \subseteq known
  /\ verdict \in [known -> SUBSET Subjects]
  /\ Complementary(verdict)

OracleInit ==
  /\ known = Builtins
  /\ sealed = Builtins
  /\ verdict = [id \in Builtins |->
                 IF id \in {AlwaysAllow, Inverted(AlwaysBlock)} THEN Subjects ELSE {}]

(* The states the oracle can be in: its type, with the built-ins fixed. *)
OracleReachable ==
  /\ OracleTypeOK
  /\ Builtins \subseteq sealed
  /\ \A id \in Builtins :
       verdict[id] = IF id \in {AlwaysAllow, Inverted(AlwaysBlock)} THEN Subjects ELSE {}

AgreeOn(S, v, w) == \A id \in S : v[id] = w[id]

(* Admins edit lists: any verdict that is not sealed may change. *)
ChangeVerdicts ==
  /\ UNCHANGED <<known, sealed>>
  /\ verdict' \in [known -> SUBSET Subjects]
  /\ Complementary(verdict')
  /\ AgreeOn(sealed, verdict, verdict')

(* Renouncing seals verdicts for good, and changes none. *)
Seal ==
  /\ UNCHANGED <<known, verdict>>
  /\ sealed' \in SUBSET known
  /\ sealed \subseteq sealed'

(* A policy and its inverse come into being; every other verdict stands. *)
AddPolicy(id, authorized) ==
  /\ known' = known \union {id, Inverted(id)}
  /\ verdict' = [i \in known' |-> CASE i = id          -> authorized
                                    [] i = Inverted(id) -> Subjects \ authorized
                                    [] OTHER           -> verdict[i]]
  /\ UNCHANGED sealed

OracleNext ==
  \/ ChangeVerdicts
  \/ Seal
  \/ \E id \in PolicyIds \ known : \E authorized \in SUBSET Subjects :
       AddPolicy(id, authorized)

OracleSpec == OracleInit /\ [][OracleNext]_oracleVars
=============================================================================
