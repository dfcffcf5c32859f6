---------------------------- MODULE B20CallsProofs ----------------------------
(***************************************************************************)
(* Proofs about B20Calls, for any calls, nested in any way, any tokens and *)
(* any accounts: what a transaction may change (OnlyByRight), that a token *)
(* is created whole or not at all, that the events tell what is stored     *)
(* (LogTellsState), and that no permit counts twice (PermitsOnce).         *)
(***************************************************************************)
EXTENDS B20Calls, SequenceTheorems, WellFoundedInduction, TLAPS

Stored ==
  [code : BOOLEAN, initialized : BOOLEAN, name : Names \union {""}, cap : Nat, supply : Nat,
   paused : BOOLEAN, used : SUBSET Ids, roles : SUBSET (Roles \X Accounts),
   nonces : [Senders -> Nat], allowances : [Senders -> Nat]]

Grants == [op : {"grantRole"}, role : Roles, to : Accounts]
Parts  == [op : {"end"}, id : Ids] \union [op : {"element"}, to : Receivers, amount : Nat]
Items  == [by : Senders, call : Calls \union Grants \union Parts, internal : BOOLEAN]

Open == [open : {TRUE}, who : Accounts, token : Tokens, creating : SUBSET Tokens,
         before : [Tokens -> Stored], mark : {tx.mark}, agenda : Seq(Items)]

(* The calls an announcement or a batch hands on are its maker's own, and  *)
(* elements come only from a batch that was allowed.                       *)
Own == {x \in Items : /\ x.by = tx.who
                      /\ x.call.op = "element" => May(tx.token, "MINT")}

Progress(after) ==
  /\ Rightful(tx.token, after)
  /\ \A a \in Senders : after.nonces[a] >= tx.before[tx.token].nonces[a]

CallsTypeOK ==
  /\ token \in [Tokens -> Stored]
  /\ signed \subseteq Messages
  /\ tx \in Open \/ tx = Idle

(* While a transaction runs only its token differs from before; what it    *)
(* has changed so far it had the right to change, unless it creates it.    *)
Underway ==
  /\ tx.creating \in {{}, {tx.token}}
  /\ T.code
  /\ \A t \in Tokens : /\ t # tx.token => token[t] = tx.before[t]
                       /\ tx.before[t].initialized <=> tx.before[t].code
  /\ tx.creating # {} => ~tx.before[tx.token].code /\ active /\ tx.who = Deployer[tx.token]
  /\ tx.creating = {} => /\ tx.agenda \in Seq(Own) /\ Progress(T)
                         /\ tx.before[tx.token].code /\ T.initialized

TokensBornWhole == ~tx.open => \A t \in Tokens : token[t].initialized <=> token[t].code

CallsInv == CallsTypeOK /\ (tx.open => Underway) /\ TokensBornWhole

-----------------------------------------------------------------------------
(* A function on an initial segment of the naturals is a sequence. *)
LEMMA FunctionIsSeq ==
  ASSUME NEW S, NEW n \in Nat, NEW f \in [1 .. n -> S]
  PROVE  f \in Seq(S)
BY SeqDef

(* The items made of calls are items of the one who makes them. *)
LEMMA MadeByItems ==
  ASSUME NEW sender \in Senders, NEW calls \in Seq(Calls \union Grants), NEW internal \in BOOLEAN
  PROVE  MadeBy(sender, calls, internal) \in Seq(Items)
<1>1. \A i \in DOMAIN calls :
        [by |-> sender, call |-> calls[i], internal |-> internal] \in Items
  BY DEF Items
<1>. QED  BY <1>1 DEF MadeBy

(* An ordinary call is none of the parts of a batch or an announcement. *)
LEMMA CallsAreNotParts ==
  ASSUME NEW c \in Calls
  PROVE  c.op \notin {"element", "end"}
BY CallsAssumption DEF WellFormed

(* The calls of the sender of a transaction are its own. *)
LEMMA MadeByOwn ==
  ASSUME NEW calls \in Seq(Calls), NEW internal \in BOOLEAN, tx.who \in Senders
  PROVE  MadeBy(tx.who, calls, internal) \in Seq(Own)
<1>1. \A i \in DOMAIN calls :
        [by |-> tx.who, call |-> calls[i], internal |-> internal] \in Own
  BY CallsAreNotParts DEF Own, Items
<1>. QED  BY <1>1 DEF MadeBy

(* What is next in a transaction. *)
LEMMA NextItem ==
  ASSUME CallsInv, tx.open, tx.agenda # <<>>
  PROVE  /\ tx \in Open /\ Item \in Items /\ Tail(tx.agenda) \in Seq(Items)
         /\ tx.token \in Tokens /\ T \in Stored /\ tx.who \in Senders
         /\ tx.creating = {} => /\ Item \in Own /\ Tail(tx.agenda) \in Seq(Own)
                                /\ Item.by = tx.who /\ Item.by # Factory
<1>1. tx \in Open  BY DEF CallsInv, CallsTypeOK, Idle
<1>2. Item \in Items /\ Tail(tx.agenda) \in Seq(Items)
  BY <1>1, HeadTailProperties DEF Open, Item
<1>3. ASSUME tx.creating = {}
      PROVE  Item \in Own /\ Tail(tx.agenda) \in Seq(Own)
  <2>1. tx.agenda \in Seq(Own)  BY <1>3 DEF CallsInv, Underway
  <2>. QED  BY <2>1, HeadTailProperties DEF Item
<1>4. tx.token \in Tokens /\ T \in Stored /\ tx.who \in Accounts
  BY <1>1 DEF Open, T, CallsInv, CallsTypeOK
<1>. QED  BY <1>1, <1>2, <1>3, <1>4, CallsAssumption DEF Own, Senders

(* A role checked on the way is one the sender had, or could have granted. *)
LEMMA RoleIsRight ==
  ASSUME CallsInv, tx.open, tx.agenda # <<>>, tx.creating = {}, NEW role, OnlyRole(role)
  PROVE  May(tx.token, role)
<1>1. Item.by = tx.who /\ Item.by # Factory  BY NextItem
<1>2. <<role, tx.who>> \in T.roles  BY <1>1 DEF OnlyRole, IsPrivileged
<1>3. Progress(T)  BY DEF CallsInv, Underway
<1>4. T.roles = tx.before[tx.token].roles \/ May(tx.token, "ADMIN")
  BY <1>3 DEF Progress, Rightful
<1>. QED  BY <1>2, <1>4 DEF May

(* One call made: the transaction goes on. *)
LEMMA DoesKeeps ==
  ASSUME CallsInv, tx.open, tx.agenda # <<>>,
         NEW change \in Stored, NEW events, NEW calls \in Seq(Items),
         Does(change, events, calls), UNCHANGED <<active, now, signed>>,
         change.code = T.code, change.initialized = T.initialized,
         tx.creating = {} => calls \in Seq(Own) /\ Progress(change)
  PROVE  CallsInv'
<1>1. /\ tx \in Open /\ tx.token \in Tokens /\ Tail(tx.agenda) \in Seq(Items)
      /\ tx.creating = {} => Tail(tx.agenda) \in Seq(Own)
  BY NextItem
<1>2. /\ token' = [token EXCEPT ![tx.token] = change]
      /\ tx' = [tx EXCEPT !.agenda = calls \o Tail(@)]
  BY DEF Does
<1>3. calls \o Tail(tx.agenda) \in Seq(Items)  BY <1>1, ConcatProperties
<1>4. tx' \in Open'  BY <1>1, <1>2, <1>3 DEF Open
<1>5. /\ tx'.open = tx.open /\ tx'.who = tx.who /\ tx'.token = tx.token
      /\ tx'.creating = tx.creating /\ tx'.before = tx.before
      /\ tx'.agenda = calls \o Tail(tx.agenda)
  BY <1>1, <1>2 DEF Open
<1>6. token' \in [Tokens -> Stored] /\ T' = change
  BY <1>1, <1>2, <1>5 DEF CallsInv, CallsTypeOK, T
<1>7. CallsTypeOK'  BY <1>4, <1>6 DEF CallsInv, CallsTypeOK
<1>8. Own' = Own  BY <1>5 DEF Own, May
<1>9. \A t \in Tokens : t # tx.token => token'[t] = token[t]
  BY <1>1, <1>2 DEF CallsInv, CallsTypeOK
<1>10. ASSUME tx.creating = {}
       PROVE  tx'.agenda \in Seq(Own)' /\ Progress(T)'
  <2>1. calls \o Tail(tx.agenda) \in Seq(Own)  BY <1>1, <1>10, ConcatProperties
  <2>2. tx'.agenda \in Seq(Own)'  BY <2>1, <1>5, <1>8
  <2>3. Progress(change)  BY <1>10
  <2>4. Progress(T)'
    BY <2>3, <1>5, <1>6 DEF Progress, Rightful, May, Agreed
  <2>. QED  BY <2>2, <2>4
<1>11. /\ T'.code = T.code /\ T'.initialized = T.initialized /\ active' = active
       /\ \A t \in Tokens : t # tx.token => token'[t] = tx.before[t]
  BY <1>6, <1>9 DEF CallsInv, Underway
<1>12. Underway'
  BY <1>5, <1>10, <1>11 DEF CallsInv, Underway
<1>. QED  BY <1>5, <1>7, <1>12 DEF CallsInv, TokensBornWhole

-----------------------------------------------------------------------------
(* One lemma per call: what it changes, the right to it, what comes next.  *)

(* Most calls make no other. *)
LEMMA NothingNext == <<>> \in Seq(Items) /\ <<>> \in Seq(Own)
OBVIOUS

(* What a transaction of an existing token has done so far was rightful. *)
LEMMA ProgressSoFar ==
  ASSUME CallsInv, tx.open, tx.agenda # <<>>, tx.creating = {}
  PROVE  Progress(T)
BY DEF CallsInv, Underway

(* A call that leaves allowances and nonces alone needs the right to what  *)
(* it changes.                                                             *)
LEMMA StillRightful ==
  ASSUME CallsInv, tx.open, tx.agenda # <<>>, tx.creating = {}, NEW after,
         after.supply # T.supply => May(tx.token, "MINT"),
         after.used # T.used => May(tx.token, "OPERATOR"),
         after.name # T.name => May(tx.token, "METADATA"),
         after.paused # T.paused => May(tx.token, "PAUSE"),
         after.cap # T.cap \/ after.roles # T.roles => May(tx.token, "ADMIN"),
         after.allowances = T.allowances, after.nonces = T.nonces
  PROVE  Progress(after)
<1>1. Progress(T)  BY ProgressSoFar
<1>2. ASSUME NEW a \in Senders,
             after.allowances[a] # tx.before[tx.token].allowances[a]
      PROVE  Agreed(tx.token, after, a)
  BY <1>1, <1>2 DEF Progress, Rightful, Agreed
<1>. QED  BY <1>1, <1>2 DEF Progress, Rightful

(* announce: needs OPERATOR, and hands its internal calls to the announcer. *)
LEMMA AnnounceKeeps ==
  ASSUME CallsInv, Announce, UNCHANGED <<active, now, signed>>
  PROVE  CallsInv'
<1>. DEFINE change == [T EXCEPT !.used = @ \union {Item.call.id}]
            end == [by |-> Item.by, call |-> [op |-> "end", id |-> Item.call.id], internal |-> FALSE]
            calls == Append(MadeBy(Item.by, Item.call.calls, TRUE), end)
<1>1. tx.open /\ tx.agenda # <<>> /\ Item.call.op = "announce"  BY DEF Announce, Making
<1>2. Item \in Items /\ T \in Stored  BY <1>1, NextItem
<1>3. Item.call.id \in Ids /\ Item.call.calls \in Seq(Calls) /\ Item.by \in Senders
  BY <1>1, <1>2, CallsAssumption DEF Items, Grants, Parts, WellFormed
<1>4. change \in Stored /\ change.code = T.code /\ change.initialized = T.initialized
  BY <1>2, <1>3 DEF Stored
<1>5. end \in Items  BY <1>3 DEF Items, Parts
<1>6. calls \in Seq(Items)
  <2>1. Item.call.calls \in Seq(Calls \union Grants)  BY <1>3
  <2>2. MadeBy(Item.by, Item.call.calls, TRUE) \in Seq(Items)  BY <1>3, <2>1, MadeByItems
  <2>. QED  BY <2>2, <1>5, AppendProperties
<1>7. ASSUME tx.creating = {}
      PROVE  calls \in Seq(Own) /\ Progress(change)
  <2>1. Item.by = tx.who /\ tx.who \in Senders  BY <1>1, <1>7, NextItem
  <2>2. end \in Own  BY <1>5, <2>1 DEF Own
  <2>3. calls \in Seq(Own)
    <3>1. MadeBy(Item.by, Item.call.calls, TRUE) \in Seq(Own)  BY <2>1, <1>3, MadeByOwn
    <3>. QED  BY <3>1, <2>2, AppendProperties
  <2>4. May(tx.token, "OPERATOR")  BY <1>1, <1>7, RoleIsRight DEF Announce, AnnounceOK
  <2>5. Progress(change)  BY <1>1, <1>2, <1>7, <2>4, StillRightful DEF Stored
  <2>. QED  BY <2>3, <2>5
<1>. QED  BY <1>1, <1>4, <1>6, <1>7, DoesKeeps DEF Announce

(* The event that closes an announcement changes nothing. *)
LEMMA EndAnnouncementKeeps ==
  ASSUME CallsInv, EndAnnouncement, UNCHANGED <<active, now, signed>>
  PROVE  CallsInv'
<1>1. tx.open /\ tx.agenda # <<>>  BY DEF EndAnnouncement, Making
<1>2. T \in Stored  BY <1>1, NextItem
<1>3. tx.creating = {} => Progress(T)  BY <1>1, ProgressSoFar
<1>. QED  BY <1>1, <1>2, <1>3, NothingNext, DoesKeeps DEF EndAnnouncement

(* batchMint: needs MINT for its elements. *)
LEMMA BatchMintKeeps ==
  ASSUME CallsInv, BatchMint, UNCHANGED <<active, now, signed>>
  PROVE  CallsInv'
<1>. DEFINE pairs == Item.call.pairs
            element(i) == [by |-> Item.by, internal |-> FALSE,
                           call |-> [op |-> "element", to |-> pairs[i][1], amount |-> pairs[i][2]]]
            calls == [i \in DOMAIN pairs |-> element(i)]
<1>1. tx.open /\ tx.agenda # <<>> /\ Item.call.op = "batchMint"  BY DEF BatchMint, Making
<1>2. Item \in Items /\ T \in Stored  BY <1>1, NextItem
<1>3. pairs \in Seq(Receivers \X Nat) /\ Item.by \in Senders
  BY <1>1, <1>2, CallsAssumption DEF Items, Grants, Parts, WellFormed
<1>4. \A i \in DOMAIN pairs : element(i) \in Items  BY <1>3 DEF Items, Parts
<1>5. calls \in Seq(Items)
  <2>1. calls \in [1 .. Len(pairs) -> Items]  BY <1>3, <1>4, LenProperties
  <2>2. Len(pairs) \in Nat  BY <1>3, LenProperties
  <2>. QED  BY <2>1, <2>2, FunctionIsSeq
<1>6. ASSUME tx.creating = {}
      PROVE  calls \in Seq(Own) /\ Progress(T)
  <2>1. Item.by = tx.who  BY <1>1, <1>6, NextItem
  <2>2. May(tx.token, "MINT")  BY <1>1, <1>6, RoleIsRight DEF BatchMint, BatchMintOK
  <2>3. \A i \in DOMAIN pairs : element(i) \in Own  BY <1>4, <2>1, <2>2 DEF Own
  <2>4. calls \in Seq(Own)
    <3>1. calls \in [1 .. Len(pairs) -> Own]  BY <1>3, <2>3, LenProperties
    <3>2. Len(pairs) \in Nat  BY <1>3, LenProperties
    <3>. QED  BY <3>1, <3>2, FunctionIsSeq
  <2>. QED  BY <1>1, <1>6, <2>4, ProgressSoFar
<1>. QED  BY <1>1, <1>2, <1>5, <1>6, DoesKeeps DEF BatchMint

(* An element of a batch: minted by the right its batch had. *)
LEMMA ElementKeeps ==
  ASSUME CallsInv, Element, UNCHANGED <<active, now, signed>>
  PROVE  CallsInv'
<1>. DEFINE change == [T EXCEPT !.supply = @ + Item.call.amount]
<1>1. tx.open /\ tx.agenda # <<>> /\ Item.call.op = "element"  BY DEF Element, Making
<1>2. Item \in Items /\ T \in Stored  BY <1>1, NextItem
<1>3. Item.call.amount \in Nat
  BY <1>1, <1>2, CallsAreNotParts DEF Items, Grants, Parts
<1>4. T.supply + Item.call.amount \in Nat
  <2>1. T.supply \in Nat  BY <1>2 DEF Stored
  <2>. QED  BY <2>1, <1>3
<1>5. change \in Stored /\ change.code = T.code /\ change.initialized = T.initialized
  BY <1>2, <1>4 DEF Stored
<1>6. ASSUME tx.creating = {}
      PROVE  Progress(change)
  <2>1. May(tx.token, "MINT")  BY <1>1, <1>6, NextItem DEF Own
  <2>. QED  BY <1>1, <1>2, <1>6, <2>1, StillRightful DEF Stored
<1>. QED  BY <1>1, <1>5, <1>6, NothingNext, DoesKeeps DEF Element

(* permit: the message its owner signed, and the nonce used up. *)
LEMMA PermitKeeps ==
  ASSUME CallsInv, Permit, UNCHANGED <<active, now, signed>>
  PROVE  CallsInv'
<1>. DEFINE m == Item.call.message
            change == [T EXCEPT !.nonces[m.owner] = @ + 1, !.allowances[m.owner] = m.value]
<1>1. tx.open /\ tx.agenda # <<>> /\ Item.call.op = "permit"  BY DEF Permit, Making
<1>2. Item \in Items /\ T \in Stored /\ tx.token \in Tokens /\ tx \in Open  BY <1>1, NextItem
<1>3. m \in Messages /\ m \in signed /\ m.token = tx.token /\ m.nonce = T.nonces[m.owner]
  BY <1>1 DEF Permit, PermitOK, Verifies, CallsInv, CallsTypeOK
<1>4. m.owner \in Senders /\ m.value \in Nat
  BY <1>3, CallsAssumption DEF Messages, Senders
<1>5. /\ T.nonces \in [Senders -> Nat] /\ T.allowances \in [Senders -> Nat]
      /\ T.nonces[m.owner] + 1 \in Nat
  <2>1. T.nonces \in [Senders -> Nat] /\ T.allowances \in [Senders -> Nat]
    BY <1>2 DEF Stored
  <2>2. T.nonces[m.owner] \in Nat  BY <2>1, <1>4
  <2>. QED  BY <2>1, <2>2
<1>6. /\ change.nonces = [T.nonces EXCEPT ![m.owner] = T.nonces[m.owner] + 1]
      /\ change.allowances = [T.allowances EXCEPT ![m.owner] = m.value]
      /\ change.code = T.code /\ change.initialized = T.initialized
      /\ change.supply = T.supply /\ change.used = T.used /\ change.name = T.name
      /\ change.paused = T.paused /\ change.cap = T.cap /\ change.roles = T.roles
  BY <1>2 DEF Stored
<1>7. change \in Stored
  <2>1. [T.nonces EXCEPT ![m.owner] = T.nonces[m.owner] + 1] \in [Senders -> Nat]
    BY <1>4, <1>5
  <2>2. [T.allowances EXCEPT ![m.owner] = m.value] \in [Senders -> Nat]
    BY <1>4, <1>5
  <2>. QED  BY <1>2, <2>1, <2>2 DEF Stored
<1>8. ASSUME tx.creating = {}
      PROVE  Progress(change)
  <2>1. Progress(T)  BY <1>1, <1>8, ProgressSoFar
  <2>2. /\ tx.before[tx.token].nonces \in [Senders -> Nat]
        /\ tx.before[tx.token].allowances \in [Senders -> Nat]
    BY <1>2 DEF Open, Stored
  <2>3. \A a \in Senders : /\ T.nonces[a] <= change.nonces[a]
                           /\ tx.before[tx.token].nonces[a] <= T.nonces[a]
    BY <1>4, <1>5, <1>6, <2>1 DEF Progress
  <2>4. \A a \in Senders : change.nonces[a] >= tx.before[tx.token].nonces[a]
    <3>1. \A a \in Senders : T.nonces[a] \in Nat /\ change.nonces[a] \in Nat
                             /\ tx.before[tx.token].nonces[a] \in Nat
      BY <1>5, <1>6, <2>2
    <3>. QED  BY <2>3, <3>1
  <2>5. ASSUME NEW a \in Senders,
               change.allowances[a] # tx.before[tx.token].allowances[a]
        PROVE  Agreed(tx.token, change, a)
    <3>1. CASE a = m.owner
      <4>1. change.nonces[a] = T.nonces[a] + 1 /\ T.nonces[a] \in Nat
            /\ change.allowances[a] = m.value
        BY <3>1, <1>4, <1>5, <1>6
      <4>2. m.nonce >= tx.before[tx.token].nonces[a] /\ m.nonce < change.nonces[a]
        BY <4>1, <3>1, <1>3, <2>2, <2>3
      <4>. QED  BY <4>1, <4>2, <3>1, <1>3 DEF Agreed
    <3>2. CASE a # m.owner
      <4>1. change.allowances[a] = T.allowances[a] /\ change.nonces[a] = T.nonces[a]
        BY <3>2, <1>4, <1>5, <1>6
      <4>2. Agreed(tx.token, T, a)  BY <4>1, <2>1, <2>5 DEF Progress, Rightful
      <4>. QED  BY <4>1, <4>2 DEF Agreed
    <3>. QED  BY <3>1, <3>2
  <2>6. Rightful(tx.token, change)
    BY <1>6, <2>1, <2>5 DEF Progress, Rightful
  <2>. QED  BY <2>4, <2>6 DEF Progress
<1>. QED  BY <1>1, <1>6, <1>7, <1>8, NothingNext, DoesKeeps DEF Permit

(* approve: the sender's own allowance. *)
LEMMA ApproveKeeps ==
  ASSUME CallsInv, Approve, UNCHANGED <<active, now, signed>>
  PROVE  CallsInv'
<1>. DEFINE change == [T EXCEPT !.allowances[Item.by] = Item.call.value]
<1>1. tx.open /\ tx.agenda # <<>> /\ Item.call.op = "approve"  BY DEF Approve, Making
<1>2. Item \in Items /\ T \in Stored  BY <1>1, NextItem
<1>3. Item.by \in Senders /\ Item.call.value \in Nat
  BY <1>1, <1>2, CallsAssumption DEF Items, Grants, Parts, WellFormed
<1>4. T.allowances \in [Senders -> Nat]  BY <1>2 DEF Stored
<1>5. /\ change.allowances = [T.allowances EXCEPT ![Item.by] = Item.call.value]
      /\ change.code = T.code /\ change.initialized = T.initialized
      /\ change.supply = T.supply /\ change.used = T.used /\ change.name = T.name
      /\ change.paused = T.paused /\ change.cap = T.cap /\ change.roles = T.roles
      /\ change.nonces = T.nonces
  BY <1>2 DEF Stored
<1>6. change \in Stored
  <2>1. [T.allowances EXCEPT ![Item.by] = Item.call.value] \in [Senders -> Nat]
    BY <1>3, <1>4
  <2>. QED  BY <1>2, <2>1 DEF Stored
<1>7. ASSUME tx.creating = {}
      PROVE  Progress(change)
  <2>1. Progress(T)  BY <1>1, <1>7, ProgressSoFar
  <2>2. Item.by = tx.who  BY <1>1, <1>7, NextItem
  <2>3. ASSUME NEW a \in Senders,
               change.allowances[a] # tx.before[tx.token].allowances[a]
        PROVE  Agreed(tx.token, change, a)
    <3>1. CASE a = tx.who  BY <3>1 DEF Agreed
    <3>2. CASE a # tx.who
      <4>1. change.allowances[a] = T.allowances[a]  BY <3>2, <2>2, <1>3, <1>4, <1>5
      <4>2. Agreed(tx.token, T, a)  BY <4>1, <2>1, <2>3 DEF Progress, Rightful
      <4>. QED  BY <4>1, <4>2, <1>5 DEF Agreed
    <3>. QED  BY <3>1, <3>2
  <2>. QED  BY <1>5, <2>1, <2>3 DEF Progress, Rightful
<1>. QED  BY <1>1, <1>5, <1>6, <1>7, NothingNext, DoesKeeps DEF Approve

(* updateName: needs METADATA. *)
LEMMA UpdateNameKeeps ==
  ASSUME CallsInv, UpdateName, UNCHANGED <<active, now, signed>>
  PROVE  CallsInv'
<1>. DEFINE change == [T EXCEPT !.name = Item.call.name]
<1>1. tx.open /\ tx.agenda # <<>> /\ Item.call.op = "updateName"  BY DEF UpdateName, Making
<1>2. Item \in Items /\ T \in Stored  BY <1>1, NextItem
<1>3. Item.call.name \in Names
  BY <1>1, <1>2, CallsAssumption DEF Items, Grants, Parts, WellFormed
<1>4. change \in Stored /\ change.code = T.code /\ change.initialized = T.initialized
  BY <1>2, <1>3 DEF Stored
<1>5. ASSUME tx.creating = {}
      PROVE  Progress(change)
  <2>1. May(tx.token, "METADATA")  BY <1>1, <1>5, RoleIsRight DEF UpdateName
  <2>. QED  BY <1>1, <1>2, <1>5, <2>1, StillRightful DEF Stored
<1>. QED  BY <1>1, <1>4, <1>5, NothingNext, DoesKeeps DEF UpdateName

(* updateSupplyCap: needs ADMIN. *)
LEMMA UpdateSupplyCapKeeps ==
  ASSUME CallsInv, UpdateSupplyCap, UNCHANGED <<active, now, signed>>
  PROVE  CallsInv'
<1>. DEFINE change == [T EXCEPT !.cap = Item.call.cap]
<1>1. tx.open /\ tx.agenda # <<>> /\ Item.call.op = "updateSupplyCap"  BY DEF UpdateSupplyCap, Making
<1>2. Item \in Items /\ T \in Stored  BY <1>1, NextItem
<1>3. Item.call.cap \in Nat
  BY <1>1, <1>2, CallsAssumption DEF Items, Grants, Parts, WellFormed
<1>4. change \in Stored /\ change.code = T.code /\ change.initialized = T.initialized
  BY <1>2, <1>3 DEF Stored
<1>5. ASSUME tx.creating = {}
      PROVE  Progress(change)
  <2>1. May(tx.token, "ADMIN")  BY <1>1, <1>5, RoleIsRight DEF UpdateSupplyCap, SupplyCapOK
  <2>. QED  BY <1>1, <1>2, <1>5, <2>1, StillRightful DEF Stored
<1>. QED  BY <1>1, <1>4, <1>5, NothingNext, DoesKeeps DEF UpdateSupplyCap

(* pause: needs PAUSE. *)
LEMMA PauseMintKeeps ==
  ASSUME CallsInv, PauseMint, UNCHANGED <<active, now, signed>>
  PROVE  CallsInv'
<1>. DEFINE change == [T EXCEPT !.paused = TRUE]
<1>1. tx.open /\ tx.agenda # <<>> /\ Item.call.op = "pause"  BY DEF PauseMint, Making
<1>2. Item \in Items /\ T \in Stored  BY <1>1, NextItem
<1>3. TRUE \in BOOLEAN
  OBVIOUS
<1>4. change \in Stored /\ change.code = T.code /\ change.initialized = T.initialized
  BY <1>2, <1>3 DEF Stored
<1>5. ASSUME tx.creating = {}
      PROVE  Progress(change)
  <2>1. May(tx.token, "PAUSE")  BY <1>1, <1>5, RoleIsRight DEF PauseMint
  <2>. QED  BY <1>1, <1>2, <1>5, <2>1, StillRightful DEF Stored
<1>. QED  BY <1>1, <1>4, <1>5, NothingNext, DoesKeeps DEF PauseMint

(* grantRole: needs ADMIN. *)
LEMMA GrantRoleKeeps ==
  ASSUME CallsInv, GrantRole, UNCHANGED <<active, now, signed>>
  PROVE  CallsInv'
<1>. DEFINE change == [T EXCEPT !.roles = @ \union {<<Item.call.role, Item.call.to>>}]
<1>1. tx.open /\ tx.agenda # <<>> /\ Item.call.op = "grantRole"  BY DEF GrantRole, Making
<1>2. Item \in Items /\ T \in Stored  BY <1>1, NextItem
<1>3. Item.call.role \in Roles /\ Item.call.to \in Accounts
  BY <1>1, <1>2, CallsAssumption DEF Items, Grants, Parts, WellFormed
<1>4. change \in Stored /\ change.code = T.code /\ change.initialized = T.initialized
  <2>1. T.roles \union {<<Item.call.role, Item.call.to>>} \in SUBSET (Roles \X Accounts)
    <3>1. T.roles \in SUBSET (Roles \X Accounts)  BY <1>2 DEF Stored
    <3>. QED  BY <1>3, <3>1
  <2>. QED  BY <1>2, <2>1 DEF Stored
<1>5. ASSUME tx.creating = {}
      PROVE  Progress(change)
  <2>1. May(tx.token, "ADMIN")  BY <1>1, <1>5, RoleIsRight DEF GrantRole
  <2>. QED  BY <1>1, <1>2, <1>5, <2>1, StillRightful DEF Stored
<1>. QED  BY <1>1, <1>4, <1>5, NothingNext, DoesKeeps DEF GrantRole

-----------------------------------------------------------------------------
(* The ends of a transaction, and what happens between two of them.         *)

(* A failed transaction leaves what was there before. *)
LEMMA RevertKeeps ==
  ASSUME CallsInv, Revert
  PROVE  CallsInv'
<1>1. tx \in Open /\ tx.open /\ tx.agenda # <<>>  BY NextItem DEF Revert
<1>2. token' = tx.before /\ tx' = Idle /\ signed' = signed  BY DEF Revert
<1>3. CallsTypeOK'  BY <1>1, <1>2 DEF CallsInv, CallsTypeOK, Open
<1>4. \A t \in Tokens : tx.before[t].initialized <=> tx.before[t].code
  BY <1>1 DEF CallsInv, Underway
<1>. QED  BY <1>2, <1>3, <1>4 DEF CallsInv, TokensBornWhole, Idle

(* A finished one closes the window of the token it created, if any. *)
LEMMA CommitKeeps ==
  ASSUME CallsInv, Commit
  PROVE  CallsInv'
<1>1. tx.open /\ tx \in Open /\ Underway  BY DEF Commit, CallsInv, CallsTypeOK, Idle
<1>2. tx' = Idle /\ signed' = signed  BY DEF Commit
<1>3. \A t \in Tokens : token'[t] = IF t \in tx.creating
                                  THEN [token[t] EXCEPT !.initialized = TRUE] ELSE token[t]
  BY DEF Commit
<1>4. \A t \in Tokens : token[t] \in Stored  BY DEF CallsInv, CallsTypeOK
<1>5. \A t \in Tokens : token'[t] \in Stored
  <2>1. \A t \in Tokens : [token[t] EXCEPT !.initialized = TRUE] \in Stored
    BY <1>4 DEF Stored
  <2>. QED  BY <1>3, <1>4, <2>1
<1>6. CallsTypeOK'
  <2>1. token' = [t \in Tokens |-> token'[t]]  BY DEF Commit
  <2>2. token' \in [Tokens -> Stored]  BY <1>5, <2>1
  <2>. QED  BY <1>2, <2>2 DEF CallsInv, CallsTypeOK
<1>7. ASSUME NEW t \in Tokens
      PROVE  token'[t].initialized <=> token'[t].code
  <2>1. CASE t \in tx.creating
    <3>1. t = tx.token  BY <1>1, <2>1 DEF Underway
    <3>2. token'[t] = [T EXCEPT !.initialized = TRUE] /\ T \in Stored
      BY <1>3, <1>4, <2>1, <3>1 DEF T
    <3>3. token'[t].initialized /\ token'[t].code = T.code  BY <3>2 DEF Stored
    <3>. QED  BY <1>1, <3>3 DEF Underway
  <2>2. CASE t \notin tx.creating
    <3>1. token'[t] = token[t]  BY <1>3, <2>2
    <3>2. CASE t # tx.token  BY <1>1, <3>1, <3>2 DEF Underway
    <3>3. CASE t = tx.token
      <4>1. tx.creating = {}  BY <1>1, <2>2, <3>3 DEF Underway
      <4>. QED  BY <1>1, <3>1, <3>3, <4>1 DEF Underway, T
    <3>. QED  BY <3>2, <3>3
  <2>. QED  BY <2>1, <2>2
<1>. QED  BY <1>2, <1>6, <1>7 DEF CallsInv, TokensBornWhole, Idle

(* A transaction of an existing token starts with nothing changed. *)
LEMMA CallTokenKeeps ==
  ASSUME CallsInv, NEW who \in Accounts, NEW t \in Tokens, NEW call \in Requests,
         CallToken(who, t, call)
  PROVE  CallsInv'
<1>1. /\ ~tx.open /\ token[t].code /\ token' = token /\ signed' = signed
      /\ tx' = [open |-> TRUE, who |-> who, token |-> t, creating |-> {}, before |-> token,
                mark |-> Len(log), agenda |-> MadeBy(who, <<call>>, FALSE)]
  BY DEF CallToken, Room, Begin
<1>2. /\ tx'.open /\ tx'.who = who /\ tx'.token = t /\ tx'.creating = {}
      /\ tx'.before = token /\ tx'.agenda = MadeBy(who, <<call>>, FALSE)
  BY <1>1
<1>3. call \in Calls /\ who \in Senders  BY CallsAssumption DEF Senders
<1>4. MadeBy(who, <<call>>, FALSE) \in Seq(Items)
  <2>1. <<call>> \in Seq(Calls \union Grants)  BY <1>3
  <2>. QED  BY <1>3, <2>1, MadeByItems
<1>5. tx' \in Open'  BY <1>1, <1>4 DEF Open, CallsInv, CallsTypeOK
<1>6. CallsTypeOK'  BY <1>1, <1>5 DEF CallsInv, CallsTypeOK
<1>7. tx'.agenda \in Seq(Own)'
  <2>. DEFINE item == [by |-> who, call |-> call, internal |-> FALSE]
  <2>1. item \in Items /\ item.by = who /\ item.call.op # "element"
    BY <1>3, CallsAreNotParts DEF Items
  <2>2. item \in Own'  BY <1>2, <2>1 DEF Own
  <2>3. MadeBy(who, <<call>>, FALSE) = <<item>>
    <3>1. DOMAIN <<call>> = 1..1 /\ <<call>>[1] = call  OBVIOUS
    <3>2. MadeBy(who, <<call>>, FALSE) = [i \in 1..1 |-> item]
      <4>1. \A i \in 1..1 : <<call>>[i] = call  OBVIOUS
      <4>. QED  BY <3>1, <4>1 DEF MadeBy
    <3>3. [i \in 1..1 |-> item] = <<item>>
      <4>. HIDE DEF item
      <4>. QED  OBVIOUS
    <3>. QED  BY <3>2, <3>3
  <2>4. <<item>> \in Seq(Own')
    <3>. HIDE DEF item
    <3>. QED  BY <2>2
  <2>. QED  BY <1>2, <2>3, <2>4
<1>8. T' = token[t] /\ token[t] \in Stored /\ tx'.before[t] = token[t]
  BY <1>1, <1>2 DEF T, CallsInv, CallsTypeOK
<1>9. Progress(T)'
  <2>1. T'.nonces \in [Senders -> Nat]  BY <1>8 DEF Stored
  <2>2. \A a \in Senders : T'.nonces[a] >= T'.nonces[a]  BY <2>1
  <2>. QED  BY <1>2, <1>8, <2>2 DEF Progress, Rightful
<1>10. \A u \in Tokens : token[u].initialized <=> token[u].code
  BY <1>1 DEF CallsInv, TokensBornWhole
<1>11. Underway'  BY <1>1, <1>2, <1>7, <1>8, <1>9, <1>10 DEF Underway
<1>. QED  BY <1>2, <1>6, <1>11 DEF CallsInv, TokensBornWhole

(* A creation plants the token and hands the init calls to the factory. *)
LEMMA CreateB20Keeps ==
  ASSUME CallsInv, NEW t \in Tokens, NEW creation \in Creations, CreateB20(t, creation)
  PROVE  CallsInv'
<1>. DEFINE grant == [op |-> "grantRole", role |-> "ADMIN", to |-> creation.admin]
            first == IF creation.admin = Zero THEN <<>> ELSE <<grant>>
            agenda == MadeBy(Factory, first \o creation.calls, FALSE)
<1>1. /\ ~tx.open /\ active /\ ~token[t].code /\ signed' = signed /\ active' = active
      /\ token' = [token EXCEPT ![t] = Planted(creation.name)]
      /\ tx' = [open |-> TRUE, who |-> Deployer[t], token |-> t, creating |-> {t},
                before |-> token, mark |-> Len(log), agenda |-> agenda]
  BY DEF CreateB20, Room, Begin
<1>2. /\ tx'.open /\ tx'.who = Deployer[t] /\ tx'.token = t /\ tx'.creating = {t}
      /\ tx'.before = token /\ tx'.agenda = agenda
  BY <1>1
<1>3. creation.calls \in Seq(Calls) /\ creation.name \in Names
      /\ creation.admin \in Accounts \union {Zero} /\ Deployer[t] \in Accounts
  BY CallsAssumption
<1>4. agenda \in Seq(Items)
  <2>1. first \in Seq(Calls \union Grants)
    <3>1. CASE creation.admin = Zero  BY <3>1
    <3>2. CASE creation.admin # Zero
      <4>1. grant \in Grants  BY <1>3, <3>2 DEF Grants, Roles
      <4>. QED  BY <3>2, <4>1
    <3>. QED  BY <3>1, <3>2
  <2>2. creation.calls \in Seq(Calls \union Grants)  BY <1>3
  <2>3. first \o creation.calls \in Seq(Calls \union Grants)
    BY <2>1, <2>2, ConcatProperties
  <2>. QED  BY <2>3, MadeByItems DEF Senders
<1>5. tx' \in Open'  BY <1>1, <1>3, <1>4 DEF Open, CallsInv, CallsTypeOK
<1>6. Planted(creation.name) \in Stored /\ Planted(creation.name).code
  <2>1. /\ [a \in Senders |-> 0] \in [Senders -> Nat] /\ MaxSupplyCap \in Nat
        /\ creation.name \in Names \union {""}
    BY <1>3, CallsAssumption
  <2>. QED  BY <2>1 DEF Planted, Empty, Stored
<1>7. CallsTypeOK'  BY <1>1, <1>5, <1>6 DEF CallsInv, CallsTypeOK
<1>8. /\ T'.code /\ tx'.before[t] = token[t]
      /\ \A u \in Tokens : u # t => token'[u] = token[u]
  BY <1>1, <1>2, <1>6 DEF T, CallsInv, CallsTypeOK
<1>9. \A u \in Tokens : token[u].initialized <=> token[u].code
  BY <1>1 DEF CallsInv, TokensBornWhole
<1>10. tx'.creating # {} /\ tx'.creating \in {{}, {tx'.token}}  BY <1>2
<1>11. \A u \in Tokens : u # tx'.token => token'[u] = tx'.before[u]  BY <1>2, <1>8
<1>12. \A u \in Tokens : tx'.before[u].initialized <=> tx'.before[u].code  BY <1>2, <1>9
<1>13. ~tx'.before[tx'.token].code /\ active' /\ tx'.who = Deployer[tx'.token]
  BY <1>1, <1>2
<1>14. Underway'  BY <1>8, <1>10, <1>11, <1>12, <1>13 DEF Underway
<1>. QED  BY <1>2, <1>7, <1>14 DEF CallsInv, TokensBornWhole

(* What happens between transactions leaves the tokens alone. *)
LEMMA BetweenKeeps ==
  ASSUME CallsInv, ~tx.open, UNCHANGED <<token, tx>>,
         \/ signed' = signed
         \/ \E message \in Submitted : signed' = signed \union {message}
  PROVE  CallsInv'
<1>1. \A message \in Submitted : message \in Messages
  BY CallsAssumption DEF Submitted, WellFormed
<1>2. CallsTypeOK'  BY <1>1 DEF CallsInv, CallsTypeOK, Open
<1>. QED  BY <1>2 DEF CallsInv, TokensBornWhole

(* Every step keeps the invariant. *)
LEMMA StepKeeps == CallsInv /\ [Next]_vars => CallsInv'
<1>. SUFFICES ASSUME CallsInv, [Next]_vars
              PROVE  CallsInv'
  OBVIOUS
<1>1. CASE /\ \/ Announce \/ EndAnnouncement \/ BatchMint \/ Element \/ Permit \/ Approve
              \/ UpdateName \/ UpdateSupplyCap \/ PauseMint \/ GrantRole
           /\ UNCHANGED <<active, now, signed>>
  BY <1>1, AnnounceKeeps, EndAnnouncementKeeps, BatchMintKeeps, ElementKeeps, PermitKeeps,
     ApproveKeeps, UpdateNameKeeps, UpdateSupplyCapKeeps, PauseMintKeeps, GrantRoleKeeps
<1>2. CASE Revert  BY <1>2, RevertKeeps
<1>3. CASE Commit  BY <1>3, CommitKeeps
<1>4. CASE \E who \in Accounts, t \in Tokens, call \in Requests : CallToken(who, t, call)
  BY <1>4, CallTokenKeeps
<1>5. CASE \E t \in Tokens, creation \in Creations : CreateB20(t, creation)
  BY <1>5, CreateB20Keeps
<1>6. CASE (\E message \in Submitted : Sign(message)) \/ Activate \/ Deactivate \/ Tick
  BY <1>6, BetweenKeeps DEF Sign, Activate, Deactivate, Tick, Room
<1>7. CASE UNCHANGED vars
  <2>1. CallsTypeOK' = CallsTypeOK  BY <1>7 DEF vars, CallsTypeOK, Open
  <2>2. Underway' = Underway
    BY <1>7 DEF vars, Underway, T, Own, May, Progress, Rightful, Agreed
  <2>. QED  BY <1>7, <2>1, <2>2 DEF vars, CallsInv, TokensBornWhole
<1>. QED  BY <1>1, <1>2, <1>3, <1>4, <1>5, <1>6, <1>7 DEF Next, Step

-----------------------------------------------------------------------------

(* The invariant, for any calls however nested: a transaction under way    *)
(* has changed only its own token and only what it had a right to, or is   *)
(* creating a token at its sender's address while the feature is active.   *)
THEOREM CallsInvariant == Spec => []CallsInv
<1>1. Init => CallsInv
  <2>. SUFFICES ASSUME Init PROVE CallsInv
    OBVIOUS
  <2>1. Empty \in Stored /\ Empty.initialized = Empty.code
    <3>1. [a \in Senders |-> 0] \in [Senders -> Nat]  OBVIOUS
    <3>. QED  BY <3>1 DEF Empty, Stored
  <2>2. CallsTypeOK  BY <2>1 DEF Init, CallsTypeOK
  <2>. QED  BY <2>1, <2>2 DEF Init, CallsInv, TokensBornWhole, Idle
<1>2. CallsInv /\ [Next]_vars => CallsInv'  BY StepKeeps
<1>. QED  BY <1>1, <1>2, PTL DEF Spec

(* Between transactions a token has code exactly when its bootstrap window *)
(* is closed: no failing init call leaves half a token (createB20).        *)
THEOREM NoHalfToken == Spec => []TokensBornWhole
<1>1. CallsInv => TokensBornWhole  BY DEF CallsInv
<1>. QED  BY <1>1, CallsInvariant, PTL

(* What a whole transaction changes, its sender had the right to change,   *)
(* whatever calls it nests and in whatever order.                          *)
THEOREM OnlyByRightHolds == Spec => OnlyByRight
<1>. DEFINE Right == tx.open /\ ~tx'.open =>
                       \A t \in Tokens :
                         IF token'[t].code /\ ~tx.before[t].code
                         THEN active /\ tx.who = Deployer[t]
                         ELSE Rightful(t, token'[t])
<1>1. CallsInv /\ [Next]_vars => [Right]_vars
  <2>. SUFFICES ASSUME CallsInv, Next, tx.open, ~tx'.open, NEW t \in Tokens
                PROVE  IF token'[t].code /\ ~tx.before[t].code
                       THEN active /\ tx.who = Deployer[t]
                       ELSE Rightful(t, token'[t])
    OBVIOUS
  <2>1. tx \in Open /\ Underway  BY DEF CallsInv, CallsTypeOK, Idle
  <2>2. Rightful(t, tx.before[t])  BY DEF Rightful
  <2>3. CASE Revert  BY <2>2, <2>3 DEF Revert
  <2>4. CASE Commit
    <3>1. CASE t # tx.token
      <4>1. t \notin tx.creating  BY <2>1, <3>1 DEF Underway
      <4>2. token'[t] = tx.before[t]  BY <2>1, <2>4, <3>1, <4>1 DEF Commit, Underway
      <4>. QED  BY <2>2, <4>2
    <3>2. CASE t = tx.token /\ tx.creating = {}
      <4>1. token'[t] = T  BY <2>4, <3>2 DEF Commit, T
      <4>2. Progress(T) /\ tx.before[t].code  BY <2>1, <3>2 DEF Underway
      <4>. QED  BY <4>1, <4>2, <3>2 DEF Progress
    <3>3. CASE t = tx.token /\ tx.creating # {}
      <4>1. /\ t \in tx.creating /\ T.code /\ ~tx.before[t].code
            /\ active /\ tx.who = Deployer[t]
        BY <2>1, <3>3 DEF Underway
      <4>2. T \in Stored  BY <3>3 DEF T, CallsInv, CallsTypeOK
      <4>3. token'[t] = [T EXCEPT !.initialized = TRUE]  BY <2>4, <3>3, <4>1 DEF Commit, T
      <4>4. token'[t].code  BY <4>1, <4>2, <4>3 DEF Stored
      <4>. QED  BY <4>1, <4>4
    <3>. QED  BY <3>1, <3>2, <3>3
  <2>5. CASE \/ Announce \/ EndAnnouncement \/ BatchMint \/ Element \/ Permit \/ Approve
             \/ UpdateName \/ UpdateSupplyCap \/ PauseMint \/ GrantRole
    <3>1. PICK change, events, calls : Does(change, events, calls)
      BY <2>5 DEF Announce, EndAnnouncement, BatchMint, Element, Permit, Approve,
                  UpdateName, UpdateSupplyCap, PauseMint, GrantRole
    <3>2. tx'.open = tx.open  BY <2>1, <3>1 DEF Does, Open
    <3>. QED  BY <3>2
  <2>. QED
    BY <2>3, <2>4, <2>5
       DEF Next, Step, CallToken, CreateB20, Sign, Activate, Deactivate, Tick, Room
<1>. QED  BY <1>1, CallsInvariant, PTL DEF Spec, OnlyByRight
-----------------------------------------------------------------------------
(* What the log tells.                                                      *)

(* What holds at a and is passed on up to b, holds up to b: natural numbers *)
(* are well founded.                                                        *)
LEMMA Least ==
  ASSUME NEW N \in SUBSET Nat, N # {}
  PROVE  \E x \in N : \A y \in N : x <= y
<1>. DEFINE R == {ss \in Nat \X Nat : ss[1] < ss[2]}
<1>1. PICK x \in N : \A y \in N : <<y, x>> \notin R
  <2>1. IsWellFoundedOn(R, Nat)  BY NatLessThanWellFounded DEF OpToRel
  <2>. HIDE DEF R
  <2>. QED  BY <2>1, WFMin
<1>2. ASSUME NEW y \in N, ~(x <= y)
      PROVE  FALSE
  <2>1. <<y, x>> \in Nat \X Nat /\ <<y, x>>[1] < <<y, x>>[2]  BY <1>2
  <2>2. <<y, x>> \in R  BY <2>1, Zenon
  <2>. QED  BY <2>2, <1>1
<1>. QED  BY <1>2

LEMMA Between ==
  ASSUME NEW a \in Nat, NEW b \in Nat, NEW S, a \in S,
         \A n \in a..b - 1 : n \in S => n + 1 \in S
  PROVE  \A n \in a..b : n \in S
<1>. DEFINE N == {n \in a..b : n \notin S}
<1>. SUFFICES ASSUME N # {} PROVE FALSE
  OBVIOUS
<1>1. N \in SUBSET Nat /\ N # {}  OBVIOUS
<1>2. PICK x \in N : \A y \in N : x <= y
  <2>. HIDE DEF N
  <2>. QED  BY <1>1, Least
<1>3. x \in a..b /\ x \notin S /\ x # a  OBVIOUS
<1>4. x - 1 \in a..b - 1 /\ x - 1 + 1 = x /\ x - 1 \in a..b /\ ~(x <= x - 1)  BY <1>3
<1>5. x - 1 \in S  BY <1>2, <1>4
<1>. QED  BY <1>3, <1>4, <1>5

(* What the events told after each of the first n. *)
Untold == [stored |-> Empty, announcing |-> {}, plausible |-> TRUE]

Telling(g, t, events, n) ==
  g = [k \in 0..n |-> IF k = 0 THEN Untold ELSE Index(t, g[k - 1], events[k])]

LEMMA TellingExists ==
  ASSUME NEW t, NEW events, NEW n \in Nat
  PROVE  \E g : Telling(g, t, events, n)
<1>. DEFINE S == {k \in Nat : \E g : Telling(g, t, events, k)}
<1>1. 0 \in S
  <2>1. Telling([k \in 0..0 |-> Untold], t, events, 0)  BY DEF Telling
  <2>. QED  BY <2>1
<1>2. ASSUME NEW m \in Nat, m \in S
      PROVE  m + 1 \in S
  <2>1. PICK g : Telling(g, t, events, m)  BY <1>2
  <2>. DEFINE h == [k \in 0..m + 1 |-> IF k <= m THEN g[k] ELSE Index(t, g[m], events[m + 1])]
              e(k) == IF k = 0 THEN Untold ELSE Index(t, h[k - 1], events[k])
  <2>2. \A k \in 0..m + 1 : h[k] = e(k)
    <3>. TAKE k \in 0..m + 1
    <3>1. CASE k = 0  BY <2>1, <3>1 DEF Telling
    <3>2. CASE k \in 1..m
      <4>1. h[k] = g[k] /\ h[k - 1] = g[k - 1]  BY <3>2
      <4>2. g[k] = Index(t, g[k - 1], events[k])  BY <2>1, <3>2 DEF Telling
      <4>. QED  BY <3>2, <4>1, <4>2
    <3>3. CASE k = m + 1  BY <3>3
    <3>. QED  BY <3>1, <3>2, <3>3
  <2>3. h = [k \in 0..m + 1 |-> h[k]]  OBVIOUS
  <2>4. h = [k \in 0..m + 1 |-> e(k)]
    <3>. HIDE DEF h, e
    <3>. QED  BY <2>2, <2>3
  <2>5. Telling(h, t, events, m + 1)
    <3>. HIDE DEF h
    <3>. QED  BY <2>4 DEF Telling
  <2>. QED  BY <2>5
<1>3. \A k \in 0..n : k \in S
  <2>. HIDE DEF S
  <2>. QED  BY <1>1, <1>2, Between
<1>. QED  BY <1>3

LEMMA ToldIsTelling ==
  ASSUME NEW t, NEW events, NEW n \in Nat
  PROVE  \E g : Telling(g, t, events, n) /\ Told(t, events, n) = g[n]
<1>1. PICK g : g = CHOOSE h : Telling(h, t, events, n)  OBVIOUS
<1>2. Telling(g, t, events, n)  BY <1>1, TellingExists
<1>3. Told(t, events, n) = g[n]  BY <1>1, Zenon DEF Told, Telling, Untold
<1>. QED  BY <1>2, <1>3

(* It depends on those events alone, and every event adds to it. *)
LEMMA TellingUnique ==
  ASSUME NEW t, NEW E, NEW F, NEW g, NEW h, NEW m \in Nat, NEW n \in Nat, m <= n,
         Telling(g, t, E, m), Telling(h, t, F, n), \A k \in 1..m : E[k] = F[k]
  PROVE  \A k \in 0..m : g[k] = h[k]
<1>. DEFINE S == {k \in Nat : g[k] = h[k]}
<1>1. 0 \in S  BY DEF Telling
<1>2. ASSUME NEW k \in 0..m - 1, k \in S
      PROVE  k + 1 \in S
  <2>1. k + 1 \in 1..m /\ k + 1 \in 0..m /\ k + 1 \in 0..n /\ (k + 1) - 1 = k /\ k + 1 # 0
    OBVIOUS
  <2>2. g[k + 1] = Index(t, g[k], E[k + 1]) /\ h[k + 1] = Index(t, h[k], F[k + 1])
    BY <2>1 DEF Telling
  <2>. QED  BY <1>2, <2>1, <2>2
<1>3. \A k \in 0..m : k \in S
  <2>. HIDE DEF S
  <2>. QED  BY <1>1, <1>2, Between
<1>. QED  BY <1>3

LEMMA ToldNothing == ASSUME NEW t, NEW events PROVE Told(t, events, 0) = Untold
BY ToldIsTelling DEF Telling

LEMMA ToldPrefix ==
  ASSUME NEW t, NEW E, NEW F, NEW n \in Nat, \A k \in 1..n : E[k] = F[k]
  PROVE  Told(t, E, n) = Told(t, F, n)
<1>1. PICK g : Telling(g, t, E, n) /\ Told(t, E, n) = g[n]  BY ToldIsTelling
<1>2. PICK h : Telling(h, t, F, n) /\ Told(t, F, n) = h[n]  BY ToldIsTelling
<1>3. g[n] = h[n]  BY <1>1, <1>2, TellingUnique
<1>. QED  BY <1>1, <1>2, <1>3

LEMMA ToldMore ==
  ASSUME NEW t, NEW E, NEW n \in Nat
  PROVE  Told(t, E, n + 1) = Index(t, Told(t, E, n), E[n + 1])
<1>1. PICK g : Telling(g, t, E, n + 1) /\ Told(t, E, n + 1) = g[n + 1]  BY ToldIsTelling
<1>2. PICK h : Telling(h, t, E, n) /\ Told(t, E, n) = h[n]  BY ToldIsTelling
<1>3. g[n] = h[n]  BY <1>1, <1>2, TellingUnique
<1>4. g[n + 1] = Index(t, g[n], E[n + 1])
  <2>1. n + 1 \in 0..n + 1 /\ (n + 1) - 1 = n /\ n + 1 # 0  OBVIOUS
  <2>. QED  BY <1>1, <2>1 DEF Telling
<1>. QED  BY <1>1, <1>2, <1>3, <1>4

-----------------------------------------------------------------------------
(* The log during a transaction.                                           *)

Logged ==
         ({"B20Created", "NameUpdated"} \X Tokens \X Names)
  \union ({"SupplyCapUpdated", "Transfer"} \X Tokens \X Nat)
  \union ({"Paused"} \X Tokens)
  \union ({"Announcement", "EndAnnouncement"} \X Tokens \X Ids)
  \union ({"RoleGranted"} \X Tokens \X (Roles \X Accounts))
  \union ({"Approval"} \X Tokens \X Senders \X Values \X SUBSET Messages)

(* An event tells of a token as it will be once its creation is over.      *)
Closed(s) == [s EXCEPT !.initialized = s.code]

(* The announcements still to be closed: one at most, and until then no    *)
(* other can begin.                                                        *)
Ends(agenda) ==
  {agenda[i].call.id : i \in {j \in DOMAIN agenda : agenda[j].call.op = "end"}}

Bracketed(agenda) ==
  \A p \in DOMAIN agenda : agenda[p].call.op = "end" =>
    \A q \in 1..p - 1 : /\ agenda[q].call.op # "end"
                        /\ agenda[q].call.op = "announce" => agenda[q].internal

Announcing(t) == IF tx.open /\ t = tx.token THEN Ends(tx.agenda) ELSE {}

Tells(t, n, stored, announcing) ==
  Told(t, log, n) = [stored |-> stored, announcing |-> announcing, plausible |-> TRUE]

(* The log tells of every token, as it is now and as it was when the       *)
(* transaction began.                                                      *)
LogInv ==
  /\ log \in Seq(Logged)
  /\ \A t \in Tokens : /\ Tells(t, Len(log), Closed(token[t]), Announcing(t))
                       /\ token[t].supply <= token[t].cap
  /\ tx.open => /\ tx.mark \in 0..Len(log) /\ Bracketed(tx.agenda)
                /\ \A t \in Tokens : /\ Tells(t, tx.mark, tx.before[t], {})
                                     /\ tx.before[t].supply <= tx.before[t].cap

(* The agenda after its first item has been replaced by others.            *)
LEMMA AgendaConcat ==
  ASSUME NEW a \in Seq(Items), a # <<>>, NEW c \in Seq(Items), NEW b, b = c \o Tail(a)
  PROVE  /\ Len(a) \in Nat \ {0} /\ Len(c) \in Nat /\ Len(b) = Len(c) + Len(a) - 1
         /\ DOMAIN a = 1..Len(a) /\ DOMAIN c = 1..Len(c) /\ DOMAIN b = 1..Len(b)
         /\ \A p \in 1..Len(c) : b[p] = c[p]
         /\ \A p \in Len(c) + 1..Len(b) : /\ p - Len(c) + 1 \in 2..Len(a)
                                         /\ b[p] = a[p - Len(c) + 1]
         /\ \A q \in 2..Len(a) : /\ q - 1 + Len(c) \in Len(c) + 1..Len(b)
                                /\ b[q - 1 + Len(c)] = a[q]
<1>1. /\ Tail(a) \in Seq(Items) /\ Len(Tail(a)) = Len(a) - 1 /\ Len(a) \in Nat \ {0}
      /\ \A i \in 1..Len(Tail(a)) : Tail(a)[i] = a[i + 1]
  BY HeadTailProperties, EmptySeq
<1>2. /\ b \in Seq(Items) /\ Len(b) = Len(c) + Len(Tail(a)) /\ Len(c) \in Nat
      /\ \A i \in 1..Len(c) + Len(Tail(a)) : b[i] = IF i <= Len(c) THEN c[i]
                                                    ELSE Tail(a)[i - Len(c)]
  BY <1>1, ConcatProperties
<1>3. DOMAIN a = 1..Len(a) /\ DOMAIN c = 1..Len(c) /\ DOMAIN b = 1..Len(b)
  BY <1>2, LenProperties
<1>4. \A p \in 1..Len(c) : b[p] = c[p]
  BY <1>1, <1>2
<1>5. ASSUME NEW p \in Len(c) + 1..Len(b)
      PROVE  p - Len(c) + 1 \in 2..Len(a) /\ b[p] = a[p - Len(c) + 1]
  <2>1. /\ p \in 1..Len(c) + Len(Tail(a)) /\ ~(p <= Len(c)) /\ p - Len(c) \in 1..Len(Tail(a))
        /\ p - Len(c) + 1 \in 2..Len(a)
    BY <1>1, <1>2
  <2>. QED  BY <1>1, <1>2, <2>1
<1>6. ASSUME NEW q \in 2..Len(a)
      PROVE  q - 1 + Len(c) \in Len(c) + 1..Len(b) /\ b[q - 1 + Len(c)] = a[q]
  <2>1. q - 1 + Len(c) \in Len(c) + 1..Len(b) /\ (q - 1 + Len(c)) - Len(c) + 1 = q
    BY <1>1, <1>2
  <2>. QED  BY <1>5, <2>1
<1>. QED  BY <1>1, <1>2, <1>3, <1>4, <1>5, <1>6

(* What is neither the end of an announcement nor the beginning of one     *)
(* leaves the announcements as they are.                                   *)
LEMMA QuietAgenda ==
  ASSUME NEW a \in Seq(Items), a # <<>>, Bracketed(a), a[1].call.op # "end",
         NEW c \in Seq(Items), \A i \in DOMAIN c : c[i].call.op \notin {"end", "announce"},
         NEW b, b = c \o Tail(a)
  PROVE  Bracketed(b) /\ Ends(b) = Ends(a)
<1>1. /\ Len(a) \in Nat \ {0} /\ Len(c) \in Nat /\ Len(b) = Len(c) + Len(a) - 1
      /\ DOMAIN a = 1..Len(a) /\ DOMAIN c = 1..Len(c) /\ DOMAIN b = 1..Len(b)
      /\ \A p \in 1..Len(c) : b[p] = c[p]
      /\ \A p \in Len(c) + 1..Len(b) : /\ p - Len(c) + 1 \in 2..Len(a)
                                      /\ b[p] = a[p - Len(c) + 1]
      /\ \A q \in 2..Len(a) : /\ q - 1 + Len(c) \in Len(c) + 1..Len(b)
                             /\ b[q - 1 + Len(c)] = a[q]
  BY AgendaConcat
<1>2. ASSUME NEW p \in DOMAIN b, b[p].call.op = "end"
      PROVE  p \in Len(c) + 1..Len(b) /\ a[p - Len(c) + 1].call.op = "end"
             /\ a[p - Len(c) + 1].call.id = b[p].call.id /\ p - Len(c) + 1 \in DOMAIN a
  BY <1>1, <1>2
<1>3. Bracketed(b)
  <2>. SUFFICES ASSUME NEW p \in DOMAIN b, b[p].call.op = "end", NEW q \in 1..p - 1
                PROVE  b[q].call.op # "end" /\ (b[q].call.op = "announce" => b[q].internal)
    BY DEF Bracketed
  <2>1. p - Len(c) + 1 \in DOMAIN a /\ a[p - Len(c) + 1].call.op = "end"  BY <1>2
  <2>2. CASE q <= Len(c)
    <3>1. q \in 1..Len(c)  BY <1>1, <2>2
    <3>. QED  BY <1>1, <3>1
  <2>3. CASE ~(q <= Len(c))
    <3>1. /\ q \in Len(c) + 1..Len(b) /\ b[q] = a[q - Len(c) + 1]
          /\ q - Len(c) + 1 \in 1..(p - Len(c) + 1) - 1
      BY <1>1, <2>3
    <3>. QED  BY <2>1, <3>1 DEF Bracketed
  <2>. QED  BY <2>2, <2>3
<1>4. ASSUME NEW q \in DOMAIN a, a[q].call.op = "end"
      PROVE  q - 1 + Len(c) \in DOMAIN b /\ b[q - 1 + Len(c)] = a[q]
  <2>1. q \in 2..Len(a)  BY <1>1, <1>4
  <2>. QED  BY <1>1, <2>1
<1>5. Ends(b) = Ends(a)
  <2>1. ASSUME NEW p \in DOMAIN b, b[p].call.op = "end"
        PROVE  b[p].call.id \in Ends(a)
    <3>1. PICK q \in DOMAIN a : a[q].call.op = "end" /\ a[q].call.id = b[p].call.id
      BY <1>2, <2>1
    <3>. QED  BY <3>1 DEF Ends
  <2>2. ASSUME NEW q \in DOMAIN a, a[q].call.op = "end"
        PROVE  a[q].call.id \in Ends(b)
    <3>1. PICK p \in DOMAIN b : b[p] = a[q]  BY <1>4, <2>2
    <3>. QED  BY <2>2, <3>1 DEF Ends
  <2>3. Ends(b) \subseteq Ends(a)  BY <2>1 DEF Ends
  <2>4. Ends(a) \subseteq Ends(b)  BY <2>2 DEF Ends
  <2>. QED  BY <2>3, <2>4
<1>. QED  BY <1>3, <1>5

(* An announcement can begin only where none is open, and opens one.       *)
LEMMA AnnounceAgenda ==
  ASSUME NEW a \in Seq(Items), a # <<>>, Bracketed(a),
         a[1].call.op = "announce", ~a[1].internal,
         NEW m \in Seq(Items), \A i \in DOMAIN m : m[i].call.op # "end" /\ m[i].internal,
         NEW end \in Items, end.call.op = "end",
         NEW b, b = Append(m, end) \o Tail(a)
  PROVE  Bracketed(b) /\ Ends(a) = {} /\ Ends(b) = {end.call.id}
<1>. DEFINE c == Append(m, end)
<1>0. /\ c \in Seq(Items) /\ Len(c) = Len(m) + 1 /\ Len(m) \in Nat /\ c[Len(m) + 1] = end
      /\ \A i \in 1..Len(m) : c[i] = m[i] /\ i \in DOMAIN m
  BY AppendProperties
<1>1. /\ Len(a) \in Nat \ {0} /\ Len(b) = Len(c) + Len(a) - 1
      /\ DOMAIN a = 1..Len(a) /\ DOMAIN b = 1..Len(b)
      /\ \A p \in 1..Len(c) : b[p] = c[p]
      /\ \A p \in Len(c) + 1..Len(b) : /\ p - Len(c) + 1 \in 2..Len(a)
                                      /\ b[p] = a[p - Len(c) + 1]
  <2>. HIDE DEF c
  <2>1. b = c \o Tail(a)  BY DEF c
  <2>. QED  BY <1>0, <2>1, AgendaConcat
<1>. HIDE DEF c
<1>2. \A q \in DOMAIN a : a[q].call.op # "end"
  <2>. SUFFICES ASSUME NEW q \in DOMAIN a, a[q].call.op = "end" PROVE FALSE
    OBVIOUS
  <2>1. 1 \in 1..q - 1  BY <1>1
  <2>. QED  BY <2>1 DEF Bracketed
<1>3. ASSUME NEW p \in DOMAIN b
      PROVE  /\ b[p].call.op = "end" => p = Len(m) + 1
             /\ p < Len(m) + 1 => b[p].internal
             /\ p = Len(m) + 1 => b[p] = end
  <2>1. CASE p \in 1..Len(m)  BY <1>0, <1>1, <2>1
  <2>2. CASE p = Len(m) + 1  BY <1>0, <1>1, <2>2
  <2>3. CASE p \in Len(c) + 1..Len(b)
    <3>1. a[p - Len(c) + 1].call.op # "end" /\ b[p] = a[p - Len(c) + 1]
      <4>1. p - Len(c) + 1 \in DOMAIN a /\ b[p] = a[p - Len(c) + 1]  BY <1>0, <1>1, <2>3
      <4>. QED  BY <1>2, <4>1
    <3>2. p > Len(m) + 1  BY <1>0, <1>1, <2>3
    <3>. QED  BY <1>0, <3>1, <3>2
  <2>. QED  BY <1>0, <1>1, <2>1, <2>2, <2>3
<1>4. Len(m) + 1 \in DOMAIN b  BY <1>0, <1>1
<1>5. Bracketed(b)
  <2>. SUFFICES ASSUME NEW p \in DOMAIN b, b[p].call.op = "end", NEW q \in 1..p - 1
                PROVE  b[q].call.op # "end" /\ (b[q].call.op = "announce" => b[q].internal)
    BY DEF Bracketed
  <2>1. p = Len(m) + 1 /\ q \in DOMAIN b /\ q < Len(m) + 1
    BY <1>0, <1>1, <1>3
  <2>. QED  BY <1>0, <1>3, <2>1
<1>6. Ends(a) = {}  BY <1>2 DEF Ends
<1>7. b[Len(m) + 1] = end /\ \A p \in DOMAIN b : b[p].call.op = "end" => p = Len(m) + 1
  BY <1>3, <1>4
<1>8. Ends(b) = {end.call.id}
  <2>1. {j \in DOMAIN b : b[j].call.op = "end"} = {Len(m) + 1}  BY <1>4, <1>7
  <2>. QED  BY <1>7, <2>1 DEF Ends
<1>. QED  BY <1>5, <1>6, <1>8

LEMMA EndAgenda ==
  ASSUME NEW a \in Seq(Items), a # <<>>, Bracketed(a), a[1].call.op = "end",
         NEW b, b = <<>> \o Tail(a)
  PROVE  Bracketed(b) /\ Ends(a) = {a[1].call.id} /\ Ends(b) = {}
<1>1. /\ Len(a) \in Nat \ {0} /\ Len(b) = Len(a) - 1
      /\ DOMAIN a = 1..Len(a) /\ DOMAIN b = 1..Len(b)
      /\ \A p \in 1..Len(b) : p + 1 \in 2..Len(a) /\ b[p] = a[p + 1]
  <2>1. <<>> \in Seq(Items) /\ Len(<<>>) = 0  BY EmptySeq
  <2>. QED  BY <2>1, AgendaConcat
<1>2. \A q \in 2..Len(a) : a[q].call.op # "end"
  <2>. SUFFICES ASSUME NEW q \in 2..Len(a), a[q].call.op = "end" PROVE FALSE
    OBVIOUS
  <2>1. q \in DOMAIN a /\ 1 \in 1..q - 1  BY <1>1
  <2>. QED  BY <2>1 DEF Bracketed
<1>3. \A p \in DOMAIN b : b[p].call.op # "end"  BY <1>1, <1>2
<1>4. \A q \in DOMAIN a : a[q].call.op = "end" => q = 1
  BY <1>1, <1>2
<1>5. 1 \in DOMAIN a  BY <1>1
<1>. QED  BY <1>3, <1>4, <1>5 DEF Bracketed, Ends

(* One more event, and what was told before stays told.                    *)
LEMMA LogGrows ==
  ASSUME log \in Seq(Logged), NEW e \in Logged, log' = log \o <<e>>
  PROVE  /\ log' \in Seq(Logged) /\ Len(log) \in Nat /\ Len(log') = Len(log) + 1
         /\ log'[Len(log) + 1] = e /\ \A i \in 1..Len(log) : log'[i] = log[i]
         /\ \A t : \A n \in 0..Len(log) : Told(t, log', n) = Told(t, log, n)
         /\ \A t : Told(t, log', Len(log) + 1) = Index(t, Told(t, log, Len(log)), e)
<1>1. /\ log' \in Seq(Logged) /\ Len(log) \in Nat /\ Len(log') = Len(log) + 1
      /\ log'[Len(log) + 1] = e /\ \A i \in 1..Len(log) : log'[i] = log[i]
  <2>1. <<e>> \in Seq(Logged) /\ Len(<<e>>) = 1 /\ <<e>>[1] = e  OBVIOUS
  <2>. HIDE DEF Logged
  <2>. QED  BY <2>1, ConcatProperties, LenProperties
<1>2. ASSUME NEW t, NEW n \in 0..Len(log)
      PROVE  Told(t, log', n) = Told(t, log, n)
  <2>1. n \in Nat /\ \A k \in 1..n : log'[k] = log[k]  BY <1>1
  <2>. QED  BY <2>1, ToldPrefix
<1>3. ASSUME NEW t
      PROVE  Told(t, log', Len(log) + 1) = Index(t, Told(t, log, Len(log)), e)
  <2>1. Told(t, log', Len(log)) = Told(t, log, Len(log))  BY <1>1, <1>2
  <2>. QED  BY <1>1, <2>1, ToldMore
<1>. QED  BY <1>1, <1>2, <1>3

(* What a permit in the log is worth, by what was told before.             *)
Justified(e, told) ==
  IsPermit(e) =>
    \E m \in e[5] : /\ m \in signed /\ m.token = e[2] /\ m.owner = e[3] /\ m.value = e[4]
                    /\ m.name = told.name /\ m.nonce = told.nonces[e[3]]

(* What an event of a call tells: the change it comes with, of the token   *)
(* and of the announcement that is open.                                   *)
Explains(e, change, ends) ==
  /\ e \in Logged /\ e[2] = tx.token
  /\ StoredBy(Closed(T), e) = Closed(change)
  /\ AnnouncingBy(Ends(tx.agenda), e) = ends
  /\ Plausible([stored |-> Closed(T), announcing |-> Ends(tx.agenda), plausible |-> TRUE], e)
  /\ Justified(e, Closed(T))

TellsInv == LogInv /\ PermitsOnce

(* A call whose event explains its change keeps the log telling.           *)
LEMMA DoesTells ==
  ASSUME CallsInv, TellsInv, tx.open, tx.agenda # <<>>, UNCHANGED <<active, now, signed>>,
         NEW change \in Stored, change.supply <= change.cap,
         NEW events, NEW calls, Does(change, events, calls),
         Bracketed(calls \o Tail(tx.agenda)),
         \/ /\ events = <<>> /\ Closed(change) = Closed(T)
            /\ Ends(calls \o Tail(tx.agenda)) = Ends(tx.agenda)
         \/ \E e : events = <<e>> /\ Explains(e, change, Ends(calls \o Tail(tx.agenda)))
  PROVE  TellsInv'
<1>. DEFINE agenda == calls \o Tail(tx.agenda)
<1>1. /\ tx \in Open /\ tx.token \in Tokens /\ token \in [Tokens -> Stored]
      /\ log \in Seq(Logged) /\ Len(log) \in Nat
  <2>1. log \in Seq(Logged)  BY DEF TellsInv, LogInv
  <2>. QED  BY <2>1, NextItem, LenProperties DEF CallsInv, CallsTypeOK
<1>2. /\ token' = [token EXCEPT ![tx.token] = change] /\ log' = log \o events
      /\ tx' = [tx EXCEPT !.agenda = agenda]
  BY DEF Does
<1>3. /\ tx'.open = tx.open /\ tx'.token = tx.token /\ tx'.before = tx.before
      /\ tx'.mark = tx.mark /\ tx'.agenda = agenda
  BY <1>1, <1>2 DEF Open
<1>4. /\ token'[tx.token] = change
      /\ \A t \in Tokens : t # tx.token => token'[t] = token[t]
  BY <1>1, <1>2
<1>5. \A t \in Tokens : Announcing(t)' = IF t = tx.token THEN Ends(agenda) ELSE {}
  BY <1>3 DEF Announcing
<1>6. \A t \in Tokens : token'[t].supply <= token'[t].cap
  BY <1>4 DEF TellsInv, LogInv
<1>7. CASE /\ events = <<>> /\ Closed(change) = Closed(T) /\ Ends(agenda) = Ends(tx.agenda)
  <2>1. log' = log  BY <1>1, <1>2, <1>7, ConcatEmptySeq
  <2>2. \A t \in Tokens : Closed(token'[t]) = Closed(token[t]) /\ Announcing(t)' = Announcing(t)
    BY <1>4, <1>5, <1>7 DEF T, Announcing
  <2>3. ASSUME NEW t \in Tokens
        PROVE  Tells(t, Len(log), Closed(token[t]), Announcing(t))'
    BY <2>1, <2>2 DEF TellsInv, LogInv, Tells
  <2>4. tx'.mark \in 0..Len(log') /\ Bracketed(tx'.agenda)
    BY <1>3, <2>1 DEF TellsInv, LogInv
  <2>5. \A t \in Tokens : /\ Tells(t, tx.mark, tx.before[t], {})'
                          /\ tx'.before[t].supply <= tx'.before[t].cap
    BY <1>3, <2>1 DEF TellsInv, LogInv, Tells
  <2>6. LogInv'  BY <1>1, <1>6, <2>1, <2>3, <2>4, <2>5 DEF LogInv
  <2>7. PermitsOnce'  BY <2>1 DEF TellsInv, PermitsOnce
  <2>. QED  BY <2>6, <2>7 DEF TellsInv
<1>8. CASE \E e : events = <<e>> /\ Explains(e, change, Ends(agenda))
  <2>1. PICK e : events = <<e>> /\ Explains(e, change, Ends(agenda))  BY <1>8
  <2>2. /\ log' \in Seq(Logged) /\ Len(log') = Len(log) + 1
        /\ log'[Len(log) + 1] = e /\ \A i \in 1..Len(log) : log'[i] = log[i]
        /\ \A t : \A n \in 0..Len(log) : Told(t, log', n) = Told(t, log, n)
        /\ \A t : Told(t, log', Len(log) + 1) = Index(t, Told(t, log, Len(log)), e)
    BY <1>1, <1>2, <2>1, LogGrows DEF Explains
  <2>3. ASSUME NEW t \in Tokens
        PROVE  Tells(t, Len(log), Closed(token[t]), Announcing(t))'
    <3>1. Told(t, log', Len(log')) = Index(t, Told(t, log, Len(log)), e)  BY <2>2
    <3>2. Told(t, log, Len(log))
            = [stored |-> Closed(token[t]), announcing |-> Announcing(t), plausible |-> TRUE]
      BY DEF TellsInv, LogInv, Tells
    <3>3. CASE t # tx.token
      <4>1. Index(t, Told(t, log, Len(log)), e) = Told(t, log, Len(log))
        BY <2>1, <3>3 DEF Index, Explains
      <4>2. Closed(token'[t]) = Closed(token[t]) /\ Announcing(t)' = Announcing(t)
        BY <1>4, <1>5, <3>3 DEF Announcing
      <4>. QED  BY <3>1, <3>2, <4>1, <4>2 DEF Tells
    <3>4. CASE t = tx.token
      <4>1. Announcing(t) = Ends(tx.agenda) /\ Announcing(t)' = Ends(agenda)
            /\ token'[t] = change /\ token[t] = T
        BY <1>4, <1>5, <3>4 DEF Announcing, T
      <4>2. Told(t, log, Len(log))
              = [stored |-> Closed(T), announcing |-> Ends(tx.agenda), plausible |-> TRUE]
        BY <3>2, <4>1
      <4>3. Index(t, Told(t, log, Len(log)), e)
              = [stored |-> Closed(change), announcing |-> Ends(agenda), plausible |-> TRUE]
        <5>. DEFINE told == [stored |-> Closed(T), announcing |-> Ends(tx.agenda), plausible |-> TRUE]
        <5>1. /\ e[2] = t /\ StoredBy(told.stored, e) = Closed(change)
              /\ AnnouncingBy(told.announcing, e) = Ends(agenda)
          BY <2>1, <3>4 DEF Explains
        <5>2. (told.plausible /\ Plausible(told, e)) = TRUE
          <6>1. Plausible(told, e)  BY <2>1 DEF Explains
          <6>2. told.plausible = TRUE  OBVIOUS
          <6>. HIDE DEF told
          <6>. QED  BY <6>1, <6>2, Zenon
        <5>. HIDE DEF told
        <5>3. Index(t, told, e) = [stored |-> Closed(change), announcing |-> Ends(agenda),
                                   plausible |-> told.plausible /\ Plausible(told, e)]
          BY <5>1, Zenon DEF Index
        <5>. QED  BY <4>2, <5>2, <5>3, Zenon DEF told
      <4>. QED  BY <3>1, <4>1, <4>3 DEF Tells
    <3>. QED  BY <3>3, <3>4
  <2>4. tx'.mark \in 0..Len(log') /\ tx.mark \in 0..Len(log) /\ Bracketed(tx'.agenda)
    BY <1>1, <1>3, <2>2 DEF TellsInv, LogInv
  <2>5. \A t \in Tokens : /\ Tells(t, tx.mark, tx.before[t], {})'
                          /\ tx'.before[t].supply <= tx'.before[t].cap
    BY <1>3, <2>2, <2>4 DEF TellsInv, LogInv, Tells
  <2>6. LogInv'  BY <1>6, <2>2, <2>3, <2>4, <2>5 DEF LogInv
  <2>7. PermitsOnce'
    <3>1. DOMAIN log' = 1..Len(log) + 1 /\ DOMAIN log = 1..Len(log)  BY <1>1, <2>2, LenProperties
    <3>. SUFFICES ASSUME NEW i \in DOMAIN log'
                  PROVE  Justified(log'[i], Told(log'[i][2], log', i - 1).stored)
      BY DEF PermitsOnce, Justified
    <3>2. CASE i \in 1..Len(log)
      <4>1. /\ log'[i] = log[i] /\ i \in DOMAIN log /\ i - 1 \in 0..Len(log)
            /\ Told(log[i][2], log', i - 1) = Told(log[i][2], log, i - 1)
        BY <1>1, <2>2, <3>1, <3>2
      <4>2. Justified(log[i], Told(log[i][2], log, i - 1).stored)
        BY <4>1 DEF TellsInv, PermitsOnce, Justified
      <4>. QED  BY <4>1, <4>2
    <3>3. CASE i = Len(log) + 1
      <4>1. log'[i] = e /\ i - 1 = Len(log) /\ e[2] = tx.token
        BY <1>1, <2>1, <2>2, <3>3 DEF Explains
      <4>2. Told(tx.token, log', Len(log)) = Told(tx.token, log, Len(log))
        BY <1>1, <2>2
      <4>3. Told(tx.token, log, Len(log)).stored = Closed(T)
        BY <1>1 DEF TellsInv, LogInv, Tells, T
      <4>4. Justified(e, Closed(T))  BY <2>1 DEF Explains
      <4>. QED  BY <4>1, <4>2, <4>3, <4>4
    <3>. QED  BY <3>1, <3>2, <3>3
  <2>. QED  BY <2>6, <2>7 DEF TellsInv
<1>. QED  BY <1>7, <1>8

-----------------------------------------------------------------------------
(* One lemma per call: its event explains what it does.                    *)

(* What is known of the token and the agenda when a call is made.          *)
LEMMA CallFacts ==
  ASSUME CallsInv, TellsInv, tx.open, tx.agenda # <<>>
  PROVE  /\ T \in Stored /\ tx.token \in Tokens /\ T.supply <= T.cap
         /\ Item \in Items /\ tx.agenda \in Seq(Items) /\ Item = tx.agenda[1]
         /\ Bracketed(tx.agenda) /\ T.code = TRUE
         /\ Closed(T) \in Stored /\ Closed(T).code = TRUE
<1>1. /\ tx \in Open /\ Item \in Items /\ T \in Stored /\ tx.token \in Tokens  BY NextItem
<1>2. tx.agenda \in Seq(Items) /\ Item = tx.agenda[1]  BY <1>1 DEF Open, Item
<1>3. T.code = TRUE  BY <1>1 DEF CallsInv, Underway, Stored
<1>4. T.supply <= T.cap /\ Bracketed(tx.agenda)  BY <1>1 DEF TellsInv, LogInv, T
<1>5. Closed(T) \in Stored /\ Closed(T).code = TRUE  BY <1>1, <1>3 DEF Closed, Stored
<1>. QED  BY <1>1, <1>2, <1>3, <1>4, <1>5

(* A call that makes no other, or makes elements only.                     *)
LEMMA QuietCall ==
  ASSUME CallsInv, TellsInv, tx.open, tx.agenda # <<>>, Item.call.op # "end",
         NEW calls \in Seq(Items), \A i \in DOMAIN calls : calls[i].call.op \notin {"end", "announce"}
  PROVE  Bracketed(calls \o Tail(tx.agenda)) /\ Ends(calls \o Tail(tx.agenda)) = Ends(tx.agenda)
BY CallFacts, QuietAgenda

LEMMA NoCalls ==
  ASSUME CallsInv, TellsInv, tx.open, tx.agenda # <<>>, Item.call.op # "end"
  PROVE  Bracketed(<<>> \o Tail(tx.agenda)) /\ Ends(<<>> \o Tail(tx.agenda)) = Ends(tx.agenda)
<1>1. <<>> \in Seq(Items) /\ \A i \in DOMAIN <<>> : <<>>[i].call.op \notin {"end", "announce"}
  OBVIOUS
<1>. QED  BY <1>1, QuietCall

LEMMA UpdateNameTells ==
  ASSUME CallsInv, TellsInv, UpdateName, UNCHANGED <<active, now, signed>>
  PROVE  TellsInv'
<1>. DEFINE change == [T EXCEPT !.name = Item.call.name]
            e == <<"NameUpdated", tx.token, Item.call.name>>
<1>1. tx.open /\ tx.agenda # <<>> /\ Item.call.op = "updateName"  BY DEF UpdateName, Making
<1>2. T \in Stored /\ tx.token \in Tokens /\ T.supply <= T.cap /\ Item \in Items
      /\ Closed(T).code = TRUE
  BY <1>1, CallFacts
<1>3. Item.call.name \in Names
  BY <1>1, <1>2, CallsAssumption DEF Items, Grants, Parts, WellFormed
<1>4. change \in Stored /\ change.supply <= change.cap  BY <1>2, <1>3 DEF Stored
<1>5. StoredBy(Closed(T), e) = Closed(change)  BY <1>2 DEF StoredBy, Closed, Stored
<1>6. e \in Logged /\ e[2] = tx.token  BY <1>2, <1>3 DEF Logged
<1>7. Explains(e, change, Ends(tx.agenda))
  BY <1>2, <1>5, <1>6 DEF Explains, AnnouncingBy, Plausible, Justified, IsPermit
<1>8. Does(change, <<e>>, <<>>)  BY DEF UpdateName
<1>. QED  BY <1>1, <1>4, <1>7, <1>8, NoCalls, DoesTells

LEMMA UpdateSupplyCapTells ==
  ASSUME CallsInv, TellsInv, UpdateSupplyCap, UNCHANGED <<active, now, signed>>
  PROVE  TellsInv'
<1>. DEFINE change == [T EXCEPT !.cap = Item.call.cap]
            e == <<"SupplyCapUpdated", tx.token, Item.call.cap>>
<1>1. tx.open /\ tx.agenda # <<>> /\ Item.call.op = "updateSupplyCap"
  BY DEF UpdateSupplyCap, Making
<1>2. T \in Stored /\ tx.token \in Tokens /\ Item \in Items /\ Closed(T).code = TRUE
  BY <1>1, CallFacts
<1>3. Item.call.cap \in Nat /\ T.supply <= Item.call.cap
  <2>1. Item.call.cap \in Nat
    BY <1>1, <1>2, CallsAssumption DEF Items, Grants, Parts, WellFormed
  <2>2. Item.call.cap \in T.supply..MaxSupplyCap  BY DEF UpdateSupplyCap, SupplyCapOK
  <2>. QED  BY <2>1, <2>2
<1>4. change \in Stored /\ change.supply <= change.cap  BY <1>2, <1>3 DEF Stored
<1>5. StoredBy(Closed(T), e) = Closed(change)  BY <1>2 DEF StoredBy, Closed, Stored
<1>6. e \in Logged /\ e[2] = tx.token  BY <1>2, <1>3 DEF Logged
<1>7. Explains(e, change, Ends(tx.agenda))
  BY <1>2, <1>5, <1>6 DEF Explains, AnnouncingBy, Plausible, Justified, IsPermit
<1>8. Does(change, <<e>>, <<>>)  BY DEF UpdateSupplyCap
<1>. QED  BY <1>1, <1>4, <1>7, <1>8, NoCalls, DoesTells

LEMMA PauseMintTells ==
  ASSUME CallsInv, TellsInv, PauseMint, UNCHANGED <<active, now, signed>>
  PROVE  TellsInv'
<1>. DEFINE change == [T EXCEPT !.paused = TRUE]
            e == <<"Paused", tx.token>>
<1>1. tx.open /\ tx.agenda # <<>> /\ Item.call.op = "pause"  BY DEF PauseMint, Making
<1>2. T \in Stored /\ tx.token \in Tokens /\ T.supply <= T.cap /\ Closed(T).code = TRUE
  BY <1>1, CallFacts
<1>4. change \in Stored /\ change.supply <= change.cap  BY <1>2 DEF Stored
<1>5. StoredBy(Closed(T), e) = Closed(change)  BY <1>2 DEF StoredBy, Closed, Stored
<1>6. e \in Logged /\ e[2] = tx.token  BY <1>2 DEF Logged
<1>7. Explains(e, change, Ends(tx.agenda))
  BY <1>2, <1>5, <1>6 DEF Explains, AnnouncingBy, Plausible, Justified, IsPermit
<1>8. Does(change, <<e>>, <<>>)  BY DEF PauseMint
<1>. QED  BY <1>1, <1>4, <1>7, <1>8, NoCalls, DoesTells

LEMMA ElementTells ==
  ASSUME CallsInv, TellsInv, Element, UNCHANGED <<active, now, signed>>
  PROVE  TellsInv'
<1>. DEFINE change == [T EXCEPT !.supply = @ + Item.call.amount]
            e == <<"Transfer", tx.token, Item.call.amount>>
<1>1. tx.open /\ tx.agenda # <<>> /\ Item.call.op = "element"  BY DEF Element, Making
<1>2. T \in Stored /\ tx.token \in Tokens /\ Item \in Items /\ Closed(T).code = TRUE
  BY <1>1, CallFacts
<1>3. Item.call.amount \in Nat /\ T.supply \in Nat /\ T.supply + Item.call.amount \in Nat
      /\ T.supply + Item.call.amount <= T.cap
  <2>1. Item.call.amount \in Nat
    BY <1>1, <1>2, CallsAreNotParts DEF Items, Grants, Parts
  <2>2. T.supply \in Nat  BY <1>2 DEF Stored
  <2>3. T.supply + Item.call.amount <= T.cap  BY DEF Element, ElementOK
  <2>. QED  BY <2>1, <2>2, <2>3
<1>4. change \in Stored /\ change.supply <= change.cap  BY <1>2, <1>3 DEF Stored
<1>5. StoredBy(Closed(T), e) = Closed(change)  BY <1>2 DEF StoredBy, Closed, Stored
<1>6. e \in Logged /\ e[2] = tx.token  BY <1>2, <1>3 DEF Logged
<1>7. Explains(e, change, Ends(tx.agenda))
  BY <1>2, <1>5, <1>6 DEF Explains, AnnouncingBy, Plausible, Justified, IsPermit
<1>8. Does(change, <<e>>, <<>>)  BY DEF Element
<1>. QED  BY <1>1, <1>4, <1>7, <1>8, NoCalls, DoesTells

LEMMA ApproveTells ==
  ASSUME CallsInv, TellsInv, Approve, UNCHANGED <<active, now, signed>>
  PROVE  TellsInv'
<1>. DEFINE change == [T EXCEPT !.allowances[Item.by] = Item.call.value]
            e == <<"Approval", tx.token, Item.by, Item.call.value, {}>>
<1>1. tx.open /\ tx.agenda # <<>> /\ Item.call.op = "approve"  BY DEF Approve, Making
<1>2. T \in Stored /\ tx.token \in Tokens /\ T.supply <= T.cap /\ Item \in Items
      /\ Closed(T).code = TRUE
  BY <1>1, CallFacts
<1>3. Item.by \in Senders /\ Item.call.value \in Values /\ Item.call.value \in Nat
  BY <1>1, <1>2, CallsAssumption DEF Items, Grants, Parts, WellFormed
<1>4. /\ T.nonces \in [Senders -> Nat] /\ T.allowances \in [Senders -> Nat]
      /\ [T.allowances EXCEPT ![Item.by] = Item.call.value] \in [Senders -> Nat]
  <2>1. T.nonces \in [Senders -> Nat] /\ T.allowances \in [Senders -> Nat]  BY <1>2 DEF Stored
  <2>. QED  BY <1>3, <2>1
<1>5. change \in Stored /\ change.supply <= change.cap  BY <1>2, <1>4 DEF Stored
<1>6. StoredBy(Closed(T), e) = Closed(change)
  <2>1. StoredBy(Closed(T), e)
          = [Closed(T) EXCEPT !.allowances[Item.by] = Item.call.value, !.nonces[Item.by] = @]
    BY DEF StoredBy, IsPermit
  <2>2. [T.nonces EXCEPT ![Item.by] = T.nonces[Item.by]] = T.nonces  BY <1>3, <1>4
  <2>. QED  BY <1>2, <2>1, <2>2 DEF Closed, Stored
<1>7. e \in Logged /\ e[2] = tx.token  BY <1>2, <1>3 DEF Logged
<1>8. Explains(e, change, Ends(tx.agenda))
  BY <1>2, <1>6, <1>7 DEF Explains, AnnouncingBy, Plausible, Justified, IsPermit
<1>9. Does(change, <<e>>, <<>>)  BY DEF Approve
<1>. QED  BY <1>1, <1>5, <1>8, <1>9, NoCalls, DoesTells

LEMMA PermitTells ==
  ASSUME CallsInv, TellsInv, Permit, UNCHANGED <<active, now, signed>>
  PROVE  TellsInv'
<1>. DEFINE m == Item.call.message
            change == [T EXCEPT !.nonces[m.owner] = @ + 1, !.allowances[m.owner] = m.value]
            e == <<"Approval", tx.token, m.owner, m.value, {m}>>
<1>1. tx.open /\ tx.agenda # <<>> /\ Item.call.op = "permit"  BY DEF Permit, Making
<1>2. T \in Stored /\ tx.token \in Tokens /\ T.supply <= T.cap /\ Item \in Items
      /\ Closed(T).code = TRUE
  BY <1>1, CallFacts
<1>3. /\ m \in signed /\ m.token = tx.token /\ m.name = T.name /\ m.nonce = T.nonces[m.owner]
      /\ m \in Messages
  BY <1>1 DEF Permit, PermitOK, Verifies, CallsInv, CallsTypeOK
<1>4. m.owner \in Senders /\ m.value \in Values /\ m.value \in Nat
  BY <1>3, CallsAssumption DEF Messages, Senders
<1>5. /\ T.nonces \in [Senders -> Nat] /\ T.allowances \in [Senders -> Nat]
      /\ [T.nonces EXCEPT ![m.owner] = T.nonces[m.owner] + 1] \in [Senders -> Nat]
      /\ [T.allowances EXCEPT ![m.owner] = m.value] \in [Senders -> Nat]
  <2>1. T.nonces \in [Senders -> Nat] /\ T.allowances \in [Senders -> Nat]  BY <1>2 DEF Stored
  <2>2. T.nonces[m.owner] + 1 \in Nat  BY <1>4, <2>1
  <2>. QED  BY <1>4, <2>1, <2>2
<1>6. change \in Stored /\ change.supply <= change.cap  BY <1>2, <1>5 DEF Stored
<1>7. StoredBy(Closed(T), e) = Closed(change)
  <2>1. IsPermit(e)  BY DEF IsPermit
  <2>2. StoredBy(Closed(T), e)
          = [Closed(T) EXCEPT !.allowances[m.owner] = m.value, !.nonces[m.owner] = @ + 1]
    BY <2>1 DEF StoredBy
  <2>. QED  BY <1>2, <2>2 DEF Closed, Stored
<1>8. e \in Logged /\ e[2] = tx.token
  <2>1. {m} \in SUBSET Messages  BY <1>3
  <2>. HIDE DEF m
  <2>. QED  BY <1>2, <1>4, <2>1 DEF Logged
<1>9. Justified(e, Closed(T))
  <2>1. Closed(T).name = T.name /\ Closed(T).nonces = T.nonces  BY <1>2 DEF Closed, Stored
  <2>2. m \in e[5] /\ e[2] = tx.token /\ e[3] = m.owner /\ e[4] = m.value  OBVIOUS
  <2>. HIDE DEF e, m
  <2>. QED  BY <1>3, <2>1, <2>2 DEF Justified
<1>10. Explains(e, change, Ends(tx.agenda))
  BY <1>2, <1>7, <1>8, <1>9 DEF Explains, AnnouncingBy, Plausible
<1>11. Does(change, <<e>>, <<>>)  BY DEF Permit
<1>. QED  BY <1>1, <1>6, <1>10, <1>11, NoCalls, DoesTells

LEMMA GrantRoleTells ==
  ASSUME CallsInv, TellsInv, GrantRole, UNCHANGED <<active, now, signed>>
  PROVE  TellsInv'
<1>. DEFINE grant == <<Item.call.role, Item.call.to>>
            change == [T EXCEPT !.roles = @ \union {grant}]
            e == <<"RoleGranted", tx.token, grant>>
<1>1. tx.open /\ tx.agenda # <<>> /\ Item.call.op = "grantRole"  BY DEF GrantRole, Making
<1>2. T \in Stored /\ tx.token \in Tokens /\ T.supply <= T.cap /\ Item \in Items
      /\ Closed(T).code = TRUE
  BY <1>1, CallFacts
<1>3. grant \in Roles \X Accounts
  BY <1>1, <1>2, CallsAssumption DEF Items, Grants, Parts, WellFormed
<1>4. T.roles \union {grant} \in SUBSET (Roles \X Accounts)
  <2>1. T.roles \in SUBSET (Roles \X Accounts)  BY <1>2 DEF Stored
  <2>. QED  BY <1>3, <2>1
<1>5. change \in Stored /\ change.supply <= change.cap
  <2>. HIDE DEF grant
  <2>. QED  BY <1>2, <1>4 DEF Stored
<1>6. Closed(T).roles = T.roles  BY <1>2 DEF Closed, Stored
<1>7. CASE grant \in T.roles
  <2>1. Does(change, <<>>, <<>>)  BY <1>7 DEF GrantRole
  <2>2. Closed(change) = Closed(T)
    <3>1. T.roles \union {grant} = T.roles  BY <1>7
    <3>. HIDE DEF grant
    <3>. QED  BY <1>2, <3>1 DEF Closed, Stored
  <2>. QED  BY <1>1, <1>5, <2>1, <2>2, NoCalls, DoesTells
<1>8. CASE grant \notin T.roles
  <2>1. Does(change, <<e>>, <<>>)  BY <1>8 DEF GrantRole
  <2>2. StoredBy(Closed(T), e) = Closed(change)
    <3>. HIDE DEF grant
    <3>. QED  BY <1>2 DEF StoredBy, Closed, Stored
  <2>3. e \in Logged /\ e[2] = tx.token
    <3>. HIDE DEF grant
    <3>. QED  BY <1>2, <1>3 DEF Logged
  <2>4. Explains(e, change, Ends(tx.agenda))
    <3>. HIDE DEF grant
    <3>. QED  BY <1>2, <1>6, <1>8, <2>2, <2>3
                 DEF Explains, AnnouncingBy, Plausible, Justified, IsPermit
  <2>. QED  BY <1>1, <1>5, <2>1, <2>4, NoCalls, DoesTells
<1>. QED  BY <1>7, <1>8

LEMMA BatchMintTells ==
  ASSUME CallsInv, TellsInv, BatchMint, UNCHANGED <<active, now, signed>>
  PROVE  TellsInv'
<1>. DEFINE pairs == Item.call.pairs
            element(i) == [by |-> Item.by, internal |-> FALSE,
                           call |-> [op |-> "element", to |-> pairs[i][1], amount |-> pairs[i][2]]]
            calls == [i \in DOMAIN pairs |-> element(i)]
<1>1. tx.open /\ tx.agenda # <<>> /\ Item.call.op = "batchMint"  BY DEF BatchMint, Making
<1>2. T \in Stored /\ T.supply <= T.cap /\ Item \in Items  BY <1>1, CallFacts
<1>3. pairs \in Seq(Receivers \X Nat) /\ Item.by \in Senders
  BY <1>1, <1>2, CallsAssumption DEF Items, Grants, Parts, WellFormed
<1>4. \A i \in DOMAIN pairs : element(i) \in Items  BY <1>3 DEF Items, Parts
<1>5. calls \in Seq(Items)
  <2>1. calls \in [1 .. Len(pairs) -> Items]  BY <1>3, <1>4, LenProperties
  <2>2. Len(pairs) \in Nat  BY <1>3, LenProperties
  <2>. QED  BY <2>1, <2>2, FunctionIsSeq
<1>6. \A i \in DOMAIN calls : calls[i].call.op \notin {"end", "announce"}  OBVIOUS
<1>7. Does(T, <<>>, calls)  BY DEF BatchMint
<1>. HIDE DEF calls
<1>8. Bracketed(calls \o Tail(tx.agenda)) /\ Ends(calls \o Tail(tx.agenda)) = Ends(tx.agenda)
  BY <1>1, <1>5, <1>6, QuietCall
<1>. QED  BY <1>1, <1>2, <1>7, <1>8, DoesTells

(* The announcement that opens is new; the calls inside open no other.     *)
LEMMA AnnounceTells ==
  ASSUME CallsInv, TellsInv, Announce, UNCHANGED <<active, now, signed>>
  PROVE  TellsInv'
<1>. DEFINE id == Item.call.id
            change == [T EXCEPT !.used = @ \union {id}]
            end == [by |-> Item.by, call |-> [op |-> "end", id |-> id], internal |-> FALSE]
            inner == MadeBy(Item.by, Item.call.calls, TRUE)
            e == <<"Announcement", tx.token, id>>
            agenda == Append(inner, end) \o Tail(tx.agenda)
<1>1. /\ tx.open /\ tx.agenda # <<>> /\ Item.call.op = "announce" /\ ~Item.internal
      /\ id \notin T.used
  BY DEF Announce, AnnounceOK, Making, CheckSelector
<1>2. /\ T \in Stored /\ tx.token \in Tokens /\ T.supply <= T.cap /\ Item \in Items
      /\ Closed(T).code = TRUE /\ tx.agenda \in Seq(Items) /\ Item = tx.agenda[1]
      /\ Bracketed(tx.agenda)
  BY <1>1, CallFacts
<1>3. id \in Ids /\ Item.call.calls \in Seq(Calls) /\ Item.by \in Senders
  BY <1>1, <1>2, CallsAssumption DEF Items, Grants, Parts, WellFormed
<1>4. inner \in Seq(Items)
  <2>1. Item.call.calls \in Seq(Calls \union Grants)  BY <1>3
  <2>. QED  BY <1>3, <2>1, MadeByItems
<1>5. \A i \in DOMAIN inner : inner[i].call.op # "end" /\ inner[i].internal
  <2>1. \A i \in DOMAIN Item.call.calls : Item.call.calls[i] \in Calls  BY <1>3, ElementOfSeq
  <2>2. DOMAIN inner = DOMAIN Item.call.calls  BY DEF MadeBy
  <2>3. \A i \in DOMAIN inner : inner[i].call = Item.call.calls[i] /\ inner[i].internal = TRUE
    BY DEF MadeBy
  <2>. HIDE DEF inner
  <2>. QED  BY <2>1, <2>2, <2>3, CallsAreNotParts
<1>6. end \in Items /\ end.call.op = "end" /\ end.call.id = id  BY <1>3 DEF Items, Parts
<1>7. Bracketed(agenda) /\ Ends(tx.agenda) = {} /\ Ends(agenda) = {id}
  <2>1. /\ tx.agenda \in Seq(Items) /\ tx.agenda # <<>> /\ Bracketed(tx.agenda)
        /\ tx.agenda[1].call.op = "announce" /\ ~tx.agenda[1].internal
    BY <1>1, <1>2
  <2>2. agenda = Append(inner, end) \o Tail(tx.agenda)  OBVIOUS
  <2>. HIDE DEF inner, end, agenda
  <2>3. ASSUME NEW m \in Seq(Items), \A i \in DOMAIN m : m[i].call.op # "end" /\ m[i].internal,
               NEW x \in Items, x.call.op = "end"
        PROVE  /\ Bracketed(Append(m, x) \o Tail(tx.agenda)) /\ Ends(tx.agenda) = {}
               /\ Ends(Append(m, x) \o Tail(tx.agenda)) = {x.call.id}
    BY <2>1, <2>3, AnnounceAgenda
  <2>4. Bracketed(agenda) /\ Ends(tx.agenda) = {} /\ Ends(agenda) = {end.call.id}
    BY <1>4, <1>5, <1>6, <2>2, <2>3
  <2>. QED  BY <1>6, <2>4
<1>8. change \in Stored /\ change.supply <= change.cap
  <2>1. T.used \union {id} \in SUBSET Ids
    <3>1. T.used \in SUBSET Ids  BY <1>2 DEF Stored
    <3>. QED  BY <1>3, <3>1
  <2>. HIDE DEF id
  <2>. QED  BY <1>2, <2>1 DEF Stored
<1>9. StoredBy(Closed(T), e) = Closed(change) /\ Closed(T).used = T.used
  <2>. HIDE DEF id
  <2>. QED  BY <1>2 DEF StoredBy, Closed, Stored
<1>10. e \in Logged /\ e[2] = tx.token
  <2>. HIDE DEF id
  <2>. QED  BY <1>2, <1>3 DEF Logged
<1>11. Explains(e, change, Ends(agenda))
  <2>. HIDE DEF id, agenda
  <2>. QED  BY <1>1, <1>2, <1>7, <1>9, <1>10
               DEF Explains, AnnouncingBy, Plausible, Justified, IsPermit
<1>12. Does(change, <<e>>, Append(inner, end))  BY DEF Announce
<1>. QED
  <2>. HIDE DEF inner, end, change, e
  <2>. QED  BY <1>1, <1>7, <1>8, <1>11, <1>12, DoesTells

(* What closes is the announcement that is open. *)
LEMMA EndAnnouncementTells ==
  ASSUME CallsInv, TellsInv, EndAnnouncement, UNCHANGED <<active, now, signed>>
  PROVE  TellsInv'
<1>. DEFINE id == Item.call.id
            e == <<"EndAnnouncement", tx.token, id>>
            agenda == <<>> \o Tail(tx.agenda)
<1>1. tx.open /\ tx.agenda # <<>> /\ Item.call.op = "end"  BY DEF EndAnnouncement, Making
<1>2. /\ T \in Stored /\ tx.token \in Tokens /\ T.supply <= T.cap /\ Item \in Items
      /\ Closed(T).code = TRUE /\ tx.agenda \in Seq(Items) /\ Item = tx.agenda[1]
      /\ Bracketed(tx.agenda)
  BY <1>1, CallFacts
<1>3. id \in Ids
  BY <1>1, <1>2, CallsAreNotParts DEF Items, Grants, Parts
<1>4. Bracketed(agenda) /\ Ends(tx.agenda) = {id} /\ Ends(agenda) = {}
  BY <1>1, <1>2, EndAgenda
<1>5. e \in Logged /\ e[2] = tx.token
  <2>. HIDE DEF id
  <2>. QED  BY <1>2, <1>3 DEF Logged
<1>6. Explains(e, T, Ends(agenda))
  <2>. HIDE DEF id, agenda
  <2>. QED  BY <1>2, <1>4, <1>5
               DEF Explains, StoredBy, AnnouncingBy, Plausible, Justified, IsPermit
<1>7. Does(T, <<e>>, <<>>)  BY DEF EndAnnouncement
<1>. QED
  <2>. HIDE DEF e
  <2>. QED  BY <1>1, <1>2, <1>4, <1>6, <1>7, DoesTells

(* Both parts of the invariant speak of the log, which only grows or is    *)
(* cut back to where the transaction began.                                *)
LEMMA RevertTells ==
  ASSUME CallsInv, TellsInv, Revert
  PROVE  TellsInv'
<1>1. tx \in Open /\ tx.open /\ Underway  BY NextItem DEF Revert, CallsInv
<1>2. /\ log \in Seq(Logged) /\ Len(log) \in Nat /\ tx.mark \in 0..Len(log)
      /\ \A t \in Tokens : /\ Tells(t, tx.mark, tx.before[t], {})
                           /\ tx.before[t].supply <= tx.before[t].cap
  <2>1. log \in Seq(Logged)  BY DEF TellsInv, LogInv
  <2>. QED  BY <1>1, <2>1, LenProperties DEF TellsInv, LogInv
<1>3. /\ token' = tx.before /\ tx' = Idle /\ signed' = signed
      /\ log' = SubSeq(log, 1, tx.mark)
  BY DEF Revert
<1>4. /\ log' \in Seq(Logged) /\ Len(log') = tx.mark
      /\ \A i \in 1..tx.mark : log'[i] = log[i]
  <2>1. 1 \in 1..Len(log) + 1 /\ tx.mark \in 1 - 1..Len(log)  BY <1>2
  <2>. HIDE DEF Logged
  <2>. QED  BY <1>2, <1>3, <2>1, SubSeqProperties
<1>5. ASSUME NEW t, NEW n \in 0..tx.mark
      PROVE  Told(t, log', n) = Told(t, log, n)
  <2>1. n \in Nat /\ \A k \in 1..n : log'[k] = log[k]  BY <1>2, <1>4
  <2>. QED  BY <2>1, ToldPrefix
<1>6. ASSUME NEW t \in Tokens
      PROVE  /\ Tells(t, Len(log), Closed(token[t]), Announcing(t))'
             /\ token'[t].supply <= token'[t].cap
  <2>1. Announcing(t)' = {}  BY <1>3 DEF Announcing, Idle
  <2>2. Closed(token'[t]) = tx.before[t]
    <3>1. /\ tx.before[t] \in Stored /\ tx.before[t].initialized \in BOOLEAN
          /\ tx.before[t].code \in BOOLEAN
      BY <1>1 DEF Open, Stored
    <3>2. tx.before[t].initialized = tx.before[t].code  BY <1>1, <3>1 DEF Underway
    <3>. QED  BY <1>3, <3>1, <3>2 DEF Closed, Stored
  <2>3. Told(t, log', Len(log')) = Told(t, log, tx.mark)  BY <1>2, <1>4, <1>5
  <2>4. Told(t, log, tx.mark)
          = [stored |-> tx.before[t], announcing |-> {}, plausible |-> TRUE]
    BY <1>2 DEF Tells
  <2>. QED  BY <1>2, <1>3, <2>1, <2>2, <2>3, <2>4 DEF Tells
<1>7. LogInv'  BY <1>3, <1>4, <1>6 DEF LogInv, Idle
<1>8. PermitsOnce'
  <2>1. DOMAIN log' = 1..tx.mark /\ DOMAIN log = 1..Len(log)  BY <1>2, <1>4, LenProperties
  <2>. SUFFICES ASSUME NEW i \in DOMAIN log'
                PROVE  Justified(log'[i], Told(log'[i][2], log', i - 1).stored)
    BY <1>3 DEF PermitsOnce, Justified
  <2>2. /\ log'[i] = log[i] /\ i \in DOMAIN log /\ i - 1 \in 0..tx.mark
        /\ Told(log[i][2], log', i - 1) = Told(log[i][2], log, i - 1)
    BY <1>2, <1>4, <1>5, <2>1
  <2>3. Justified(log[i], Told(log[i][2], log, i - 1).stored)
    BY <2>2 DEF TellsInv, PermitsOnce, Justified
  <2>. QED  BY <1>3, <2>2, <2>3 DEF Justified
<1>. QED  BY <1>7, <1>8 DEF TellsInv

(* What leaves the log and the signatures alone leaves every permit        *)
(* justified; more signatures do too.                                      *)
LEMMA SameLog ==
  ASSUME TellsInv, log' = log, signed \subseteq signed'
  PROVE  PermitsOnce'
<1>. SUFFICES ASSUME NEW i \in DOMAIN log, IsPermit(log[i])
              PROVE  \E m \in log[i][5] :
                       /\ m \in signed' /\ m.token = log[i][2] /\ m.owner = log[i][3]
                       /\ m.value = log[i][4]
                       /\ m.name = Told(log[i][2], log, i - 1).stored.name
                       /\ m.nonce = Told(log[i][2], log, i - 1).stored.nonces[log[i][3]]
  BY DEF PermitsOnce, IsPermit
<1>. QED  BY DEF TellsInv, PermitsOnce

(* A finished transaction has closed its announcements. *)
LEMMA CommitTells ==
  ASSUME CallsInv, TellsInv, Commit
  PROVE  TellsInv'
<1>1. tx \in Open /\ tx.open /\ Underway /\ token \in [Tokens -> Stored]
  BY DEF Commit, CallsInv, CallsTypeOK, Idle
<1>2. /\ tx.agenda = <<>> /\ tx' = Idle /\ signed' = signed /\ log' = log
      /\ \A t \in Tokens : token'[t] = IF t \in tx.creating
                                     THEN [token[t] EXCEPT !.initialized = TRUE] ELSE token[t]
  BY DEF Commit
<1>3. ASSUME NEW t \in Tokens
      PROVE  /\ Tells(t, Len(log), Closed(token[t]), Announcing(t))'
             /\ token'[t].supply <= token'[t].cap
  <2>1. Ends(tx.agenda) = {}
    <3>1. DOMAIN tx.agenda = {}  BY <1>2
    <3>. QED  BY <3>1 DEF Ends
  <2>2. Announcing(t)' = {} /\ Announcing(t) = {}  BY <1>2, <2>1 DEF Announcing, Idle
  <2>3. Closed(token'[t]) = Closed(token[t]) /\ token'[t].supply = token[t].supply
        /\ token'[t].cap = token[t].cap
    <3>1. token[t] \in Stored  BY <1>1
    <3>2. CASE t \in tx.creating
      <4>1. token'[t] = [token[t] EXCEPT !.initialized = TRUE]  BY <1>2, <3>2
      <4>. QED  BY <3>1, <4>1 DEF Closed, Stored
    <3>3. CASE t \notin tx.creating  BY <1>2, <3>3
    <3>. QED  BY <3>2, <3>3
  <2>4. Tells(t, Len(log), Closed(token[t]), Announcing(t)) /\ token[t].supply <= token[t].cap
    BY DEF TellsInv, LogInv
  <2>. QED  BY <1>2, <2>2, <2>3, <2>4 DEF Tells
<1>4. LogInv'  BY <1>2, <1>3 DEF LogInv, Idle, TellsInv
<1>5. PermitsOnce'  BY <1>2, SameLog
<1>. QED  BY <1>4, <1>5 DEF TellsInv

(* Between transactions what is told is what is stored. *)
LEMMA Settled ==
  ASSUME CallsInv, TellsInv, ~tx.open, NEW t \in Tokens
  PROVE  /\ Closed(token[t]) = token[t] /\ token[t] \in Stored
         /\ Tells(t, Len(log), token[t], {}) /\ token[t].supply <= token[t].cap
<1>1. /\ token[t] \in Stored /\ token[t].initialized \in BOOLEAN /\ token[t].code \in BOOLEAN
  BY DEF CallsInv, CallsTypeOK, Stored
<1>2. token[t].initialized = token[t].code  BY <1>1 DEF CallsInv, TokensBornWhole
<1>3. Closed(token[t]) = token[t]  BY <1>1, <1>2 DEF Closed, Stored
<1>4. Tells(t, Len(log), Closed(token[t]), Announcing(t)) /\ token[t].supply <= token[t].cap
  BY DEF TellsInv, LogInv
<1>5. Announcing(t) = {}  BY DEF Announcing
<1>. QED  BY <1>1, <1>3, <1>4, <1>5

(* An agenda made of calls closes nothing. *)
LEMMA NoEnds ==
  ASSUME NEW agenda, \A i \in DOMAIN agenda : agenda[i].call.op # "end"
  PROVE  Ends(agenda) = {} /\ Bracketed(agenda)
BY DEF Ends, Bracketed

LEMMA CallTokenTells ==
  ASSUME CallsInv, TellsInv, NEW who \in Accounts, NEW t \in Tokens, NEW call \in Requests,
         CallToken(who, t, call)
  PROVE  TellsInv'
<1>. DEFINE agenda == MadeBy(who, <<call>>, FALSE)
<1>1. /\ ~tx.open /\ token' = token /\ signed' = signed /\ log' = log
      /\ tx' = [open |-> TRUE, who |-> who, token |-> t, creating |-> {}, before |-> token,
                mark |-> Len(log), agenda |-> agenda]
  BY DEF CallToken, Room, Begin
<1>2. /\ tx'.open /\ tx'.token = t /\ tx'.before = token /\ tx'.mark = Len(log)
      /\ tx'.agenda = agenda
  BY <1>1
<1>3. log \in Seq(Logged) /\ Len(log) \in Nat
  <2>1. log \in Seq(Logged)  BY DEF TellsInv, LogInv
  <2>. QED  BY <2>1, LenProperties
<1>4. Ends(agenda) = {} /\ Bracketed(agenda)
  <2>1. call.op # "end"  BY CallsAssumption, CallsAreNotParts
  <2>2. \A i \in DOMAIN agenda : agenda[i].call = call  BY DEF MadeBy
  <2>. HIDE DEF agenda
  <2>. QED  BY <2>1, <2>2, NoEnds
<1>. HIDE DEF agenda
<1>5. ASSUME NEW u \in Tokens
      PROVE  /\ Tells(u, Len(log), Closed(token[u]), Announcing(u))'
             /\ token'[u].supply <= token'[u].cap
             /\ Tells(u, tx.mark, tx.before[u], {})'
             /\ tx'.before[u].supply <= tx'.before[u].cap
  <2>1. Announcing(u)' = {}  BY <1>2, <1>4 DEF Announcing
  <2>2. /\ Closed(token[u]) = token[u] /\ Tells(u, Len(log), token[u], {})
        /\ token[u].supply <= token[u].cap
    BY <1>1, Settled
  <2>. QED  BY <1>1, <1>2, <2>1, <2>2 DEF Tells
<1>6. LogInv'
  <2>1. tx'.mark \in 0..Len(log') /\ Bracketed(tx'.agenda) /\ log' \in Seq(Logged)
    BY <1>1, <1>2, <1>3, <1>4
  <2>. QED  BY <1>5, <2>1 DEF LogInv
<1>7. PermitsOnce'  BY <1>1, SameLog
<1>. QED  BY <1>6, <1>7 DEF TellsInv

(* A creation tells of the token it plants, before its init calls.         *)
LEMMA CreateB20Tells ==
  ASSUME CallsInv, TellsInv, NEW t \in Tokens, NEW creation \in Creations,
         CreateB20(t, creation)
  PROVE  TellsInv'
<1>. DEFINE grant == [op |-> "grantRole", role |-> "ADMIN", to |-> creation.admin]
            first == IF creation.admin = Zero THEN <<>> ELSE <<grant>>
            calls == first \o creation.calls
            agenda == MadeBy(Factory, calls, FALSE)
            e == <<"B20Created", t, creation.name>>
<1>1. /\ ~tx.open /\ ~token[t].code /\ signed' = signed
      /\ token' = [token EXCEPT ![t] = Planted(creation.name)]
      /\ log' = Append(log, e)
      /\ tx' = [open |-> TRUE, who |-> Deployer[t], token |-> t, creating |-> {t},
                before |-> token, mark |-> Len(log), agenda |-> agenda]
  BY DEF CreateB20, Room, Begin
<1>2. /\ tx'.open /\ tx'.token = t /\ tx'.before = token /\ tx'.mark = Len(log)
      /\ tx'.agenda = agenda
  BY <1>1
<1>3. log \in Seq(Logged) /\ Len(log) \in Nat /\ token \in [Tokens -> Stored]
  <2>1. log \in Seq(Logged)  BY DEF TellsInv, LogInv
  <2>. QED  BY <2>1, LenProperties DEF CallsInv, CallsTypeOK
<1>4. creation.calls \in Seq(Calls) /\ creation.name \in Names  BY CallsAssumption
<1>5. Ends(agenda) = {} /\ Bracketed(agenda)
  <2>. DEFINE Plain == {c \in Calls \union {grant} : c.op # "end"}
  <2>1. creation.calls \in Seq(Plain)
    <3>1. Calls \subseteq Plain  BY CallsAreNotParts
    <3>. HIDE DEF Plain
    <3>. QED  BY <1>4, <3>1
  <2>2. first \in Seq(Plain)
    <3>1. grant \in Plain  OBVIOUS
    <3>2. <<grant>> \in Seq(Plain)
      <4>. HIDE DEF grant, Plain
      <4>. QED  BY <3>1
    <3>. QED  BY <3>2
  <2>3. calls \in Seq(Plain)
    <3>. HIDE DEF Plain, first
    <3>. QED  BY <2>1, <2>2, ConcatProperties
  <2>4. \A i \in DOMAIN calls : calls[i] \in Plain
    <3>. HIDE DEF Plain, calls
    <3>. QED  BY <2>3, ElementOfSeq
  <2>5. DOMAIN agenda = DOMAIN calls /\ \A i \in DOMAIN agenda : agenda[i].call = calls[i]
    BY DEF MadeBy
  <2>6. \A i \in DOMAIN agenda : agenda[i].call.op # "end"
    <3>. HIDE DEF agenda, calls
    <3>. QED  BY <2>4, <2>5
  <2>. HIDE DEF agenda
  <2>. QED  BY <2>6, NoEnds
<1>. HIDE DEF agenda
<1>6. e \in Logged  BY <1>4 DEF Logged
<1>7. log' = log \o <<e>>
  <2>. HIDE DEF e, Logged
  <2>. QED  BY <1>1, <1>3, <1>6, AppendIsConcat
<1>8. /\ log' \in Seq(Logged) /\ Len(log') = Len(log) + 1
      /\ log'[Len(log) + 1] = e /\ \A i \in 1..Len(log) : log'[i] = log[i]
      /\ \A u : \A n \in 0..Len(log) : Told(u, log', n) = Told(u, log, n)
      /\ \A u : Told(u, log', Len(log) + 1) = Index(u, Told(u, log, Len(log)), e)
  BY <1>3, <1>6, <1>7, LogGrows
<1>9. ASSUME NEW u \in Tokens
      PROVE  /\ Tells(u, tx.mark, tx.before[u], {})'
             /\ tx'.before[u].supply <= tx'.before[u].cap
  <2>1. Tells(u, Len(log), token[u], {}) /\ token[u].supply <= token[u].cap
    BY <1>1, Settled
  <2>2. Told(u, log', Len(log)) = Told(u, log, Len(log))  BY <1>3, <1>8
  <2>. QED  BY <1>2, <2>1, <2>2 DEF Tells
<1>10. ASSUME NEW u \in Tokens
       PROVE  /\ Tells(u, Len(log), Closed(token[u]), Announcing(u))'
              /\ token'[u].supply <= token'[u].cap
  <2>1. Announcing(u)' = {}  BY <1>2, <1>5 DEF Announcing
  <2>2. /\ Closed(token[u]) = token[u] /\ token[u] \in Stored
        /\ Told(u, log, Len(log))
             = [stored |-> token[u], announcing |-> {}, plausible |-> TRUE]
        /\ token[u].supply <= token[u].cap
    BY <1>1, Settled DEF Tells
  <2>3. Told(u, log', Len(log')) = Index(u, Told(u, log, Len(log)), e)  BY <1>8
  <2>4. CASE u # t
    <3>1. token'[u] = token[u]  BY <1>1, <1>3, <2>4
    <3>2. Index(u, Told(u, log, Len(log)), e) = Told(u, log, Len(log))
      BY <2>4 DEF Index
    <3>. QED  BY <2>1, <2>2, <2>3, <3>1, <3>2 DEF Tells
  <2>5. CASE u = t
    <3>. DEFINE told == [stored |-> token[t], announcing |-> {}, plausible |-> TRUE]
    <3>1. token'[t] = Planted(creation.name)  BY <1>1, <1>3
    <3>2. StoredBy(told.stored, e) = Closed(token'[t])
      <4>1. StoredBy(told.stored, e) = [Planted(creation.name) EXCEPT !.initialized = TRUE]
        BY DEF StoredBy
      <4>2. Planted(creation.name).code = TRUE  BY DEF Planted, Empty
      <4>. QED  BY <3>1, <4>1, <4>2 DEF Closed
    <3>3. AnnouncingBy(told.announcing, e) = {}  BY DEF AnnouncingBy
    <3>4. (told.plausible /\ Plausible(told, e)) = TRUE
      <4>1. Plausible(told, e)  BY <1>1 DEF Plausible
      <4>2. told.plausible = TRUE  OBVIOUS
      <4>. HIDE DEF told
      <4>. QED  BY <4>1, <4>2, Zenon
    <3>5. e[2] = t  OBVIOUS
    <3>6. Told(t, log, Len(log)) = told  BY <2>2, <2>5
    <3>. HIDE DEF told, e
    <3>7. Index(t, told, e) = [stored |-> StoredBy(told.stored, e),
                               announcing |-> AnnouncingBy(told.announcing, e),
                               plausible |-> told.plausible /\ Plausible(told, e)]
      BY <3>5, Zenon DEF Index
    <3>8. Told(t, log', Len(log'))
            = [stored |-> Closed(token'[t]), announcing |-> {}, plausible |-> TRUE]
      BY <2>3, <2>5, <3>2, <3>3, <3>4, <3>6, <3>7, Zenon
    <3>9. token'[t].supply <= token'[t].cap
      BY <3>1, CallsAssumption DEF Planted, Empty
    <3>. QED  BY <2>1, <2>5, <3>8, <3>9 DEF Tells
  <2>. QED  BY <2>4, <2>5
<1>11. LogInv'
  <2>1. tx'.mark \in 0..Len(log') /\ Bracketed(tx'.agenda)  BY <1>2, <1>3, <1>5, <1>8
  <2>. QED  BY <1>8, <1>9, <1>10, <2>1 DEF LogInv
<1>12. PermitsOnce'
  <2>1. DOMAIN log' = 1..Len(log) + 1 /\ DOMAIN log = 1..Len(log)  BY <1>3, <1>8, LenProperties
  <2>. SUFFICES ASSUME NEW i \in DOMAIN log'
                PROVE  Justified(log'[i], Told(log'[i][2], log', i - 1).stored)
    BY <1>1 DEF PermitsOnce, Justified
  <2>2. CASE i \in 1..Len(log)
    <3>1. /\ log'[i] = log[i] /\ i \in DOMAIN log /\ i - 1 \in 0..Len(log)
          /\ Told(log[i][2], log', i - 1) = Told(log[i][2], log, i - 1)
      BY <1>3, <1>8, <2>1, <2>2
    <3>2. Justified(log[i], Told(log[i][2], log, i - 1).stored)
      BY <3>1 DEF TellsInv, PermitsOnce, Justified
    <3>. QED  BY <1>1, <3>1, <3>2 DEF Justified
  <2>3. CASE i = Len(log) + 1  BY <1>8, <2>3 DEF Justified, IsPermit
  <2>. QED  BY <1>3, <2>1, <2>2, <2>3
<1>. QED  BY <1>11, <1>12 DEF TellsInv

(* What happens between transactions is not in the log. *)
LEMMA BetweenTells ==
  ASSUME CallsInv, TellsInv, UNCHANGED <<token, tx, log>>, signed \subseteq signed'
  PROVE  TellsInv'
<1>1. LogInv'  BY DEF TellsInv, LogInv, Tells, Announcing
<1>2. PermitsOnce'  BY SameLog
<1>. QED  BY <1>1, <1>2 DEF TellsInv

(* Every step keeps the log telling. *)
LEMMA StepTells == CallsInv /\ TellsInv /\ [Next]_vars => TellsInv'
<1>. SUFFICES ASSUME CallsInv, TellsInv, [Next]_vars
              PROVE  TellsInv'
  OBVIOUS
<1>1. CASE /\ \/ Announce \/ EndAnnouncement \/ BatchMint \/ Element \/ Permit \/ Approve
              \/ UpdateName \/ UpdateSupplyCap \/ PauseMint \/ GrantRole
           /\ UNCHANGED <<active, now, signed>>
  BY <1>1, AnnounceTells, EndAnnouncementTells, BatchMintTells, ElementTells, PermitTells,
     ApproveTells, UpdateNameTells, UpdateSupplyCapTells, PauseMintTells, GrantRoleTells
<1>2. CASE Revert  BY <1>2, RevertTells
<1>3. CASE Commit  BY <1>3, CommitTells
<1>4. CASE \E who \in Accounts, t \in Tokens, call \in Requests : CallToken(who, t, call)
  BY <1>4, CallTokenTells
<1>5. CASE \E t \in Tokens, creation \in Creations : CreateB20(t, creation)
  BY <1>5, CreateB20Tells
<1>6. CASE (\E message \in Submitted : Sign(message)) \/ Activate \/ Deactivate \/ Tick
  <2>1. UNCHANGED <<token, tx, log>> /\ signed \subseteq signed'
    BY <1>6 DEF Sign, Activate, Deactivate, Tick
  <2>. QED  BY <2>1, BetweenTells
<1>7. CASE UNCHANGED vars  BY <1>7, BetweenTells DEF vars
<1>. QED  BY <1>1, <1>2, <1>3, <1>4, <1>5, <1>6, <1>7 DEF Next, Step

(* The inductive invariant of the two theorems that follow: at every step  *)
(* the log tells what is stored now, an announcement that is still open    *)
(* included, and its part before the transaction what was stored then.     *)
THEOREM LogInvariant == Spec => [](CallsInv /\ TellsInv)
<1>1. Init => TellsInv
  <2>. SUFFICES ASSUME Init PROVE TellsInv
    OBVIOUS
  <2>1. /\ log = <<>> /\ Len(log) = 0 /\ log \in Seq(Logged) /\ DOMAIN log = {}
        /\ tx.open = FALSE
    BY DEF Init, Idle
  <2>2. ASSUME NEW t \in Tokens
        PROVE  /\ Tells(t, Len(log), Closed(token[t]), Announcing(t))
               /\ token[t].supply <= token[t].cap
    <3>1. token[t] = Empty /\ Closed(Empty) = Empty /\ Empty.supply = 0 /\ Empty.cap = 0
      <4>1. token[t] = Empty  BY DEF Init
      <4>2. Empty.supply = 0 /\ Empty.cap = 0 /\ Empty.initialized = Empty.code
        BY DEF Empty
      <4>3. Empty \in Stored
        <5>1. [a \in Senders |-> 0] \in [Senders -> Nat]  OBVIOUS
        <5>. QED  BY <5>1 DEF Empty, Stored
      <4>. QED  BY <4>1, <4>2, <4>3 DEF Closed, Stored
    <3>2. Announcing(t) = {}  BY <2>1 DEF Announcing
    <3>. QED  BY <2>1, <3>1, <3>2, ToldNothing DEF Tells, Untold
  <2>3. LogInv  BY <2>1, <2>2 DEF LogInv
  <2>4. PermitsOnce  BY <2>1 DEF PermitsOnce
  <2>. QED  BY <2>3, <2>4 DEF TellsInv
<1>2. CallsInv /\ TellsInv /\ [Next]_vars => TellsInv'  BY StepTells
<1>. QED  BY <1>1, <1>2, CallsInvariant, PTL DEF Spec

(* What an indexer adds up from the events is what is stored, between any  *)
(* two transactions, for any calls however nested (LogTellsState).         *)
THEOREM LogTellsStateHolds == Spec => []LogTellsState
<1>1. CallsInv /\ TellsInv => LogTellsState
  <2>. SUFFICES ASSUME CallsInv, TellsInv, ~tx.open, NEW t \in Tokens
                PROVE  /\ Told(t, log, Len(log))
                            = [stored |-> token[t], announcing |-> {}, plausible |-> TRUE]
                       /\ token[t].supply <= token[t].cap
    BY DEF LogTellsState
  <2>. QED  BY Settled DEF Tells
<1>. QED  BY <1>1, LogInvariant, PTL

(* Every permit in the log was signed for the token it changed, under the  *)
(* name and the nonce that the events before it tell (PermitsOnce).        *)
THEOREM PermitsOnceHolds == Spec => []PermitsOnce
<1>1. CallsInv /\ TellsInv => PermitsOnce  BY DEF TellsInv
<1>. QED  BY <1>1, LogInvariant, PTL
=============================================================================
