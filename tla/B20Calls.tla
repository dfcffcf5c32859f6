------------------------------- MODULE B20Calls -------------------------------
(***************************************************************************)
(* Transactions that make more than one call: a creation with its init     *)
(* calls (MockB20Factory.createB20), an announcement with its internal     *)
(* calls (MockB20Asset.announce), a batch of mints, and permits, which     *)
(* anybody may submit, inside any of these.  Every call is a step of its   *)
(* own; a failure anywhere fails the transaction, for no caller in this    *)
(* code swallows a revert.  The activation registry decides between        *)
(* transactions what may be created.                                       *)
(*                                                                         *)
(* The rest of a token is in B20: here its policy lanes are a fixed set of *)
(* admitted receivers, balances are left out, and allowances are those to  *)
(* one spender.                                                            *)
(***************************************************************************)
EXTENDS Integers, Sequences, FiniteSets, SequencesExt

CONSTANTS
  Accounts,   \* who may send transactions
  Factory, Zero,
  Tokens,     \* addresses createB20 can compute
  Deployer,   \* token -> the sender whose salt leads there
  Admitted,   \* receivers the MINT_RECEIVER lane admits
  Names, Ids, Values,
  MaxSupplyCap,
  Calls,      \* the calls of tokens there are
  Requests,   \* those that are transactions, the others are inside of one
  Creations,  \* the parameters of createB20: [params, name, admin, calls]
  MaxEvents, MaxNow \* the model stops here

Senders   == Accounts \union {Factory}
Receivers == Accounts \union Tokens \union {Zero}
Roles     == {"ADMIN", "OPERATOR", "MINT", "METADATA", "PAUSE"}
Messages  == [token : Tokens, name : Names, owner : Accounts, value : Values,
              nonce : Nat, deadline : Nat]

WellFormed(c) ==
  \/ c.op = "announce" /\ c.id \in Ids /\ c.calls \in Seq(Calls)
  \/ c.op = "batchMint" /\ c.pairs \in Seq(Receivers \X Nat)
  \/ c.op = "permit" /\ c.message \in Messages
  \/ c.op = "approve" /\ c.value \in Values
  \/ c.op = "updateName" /\ c.name \in Names
  \/ c.op = "updateSupplyCap" /\ c.cap \in Nat
  \/ c.op = "grantRole" /\ c.role \in Roles /\ c.to \in Accounts
  \/ c.op = "pause"

ASSUME CallsAssumption ==
  /\ Factory \notin Accounts /\ Zero \notin Accounts
  /\ Deployer \in [Tokens -> Accounts]
  /\ Values \subseteq Nat /\ MaxSupplyCap \in Nat
  /\ Requests \subseteq Calls /\ \A c \in Calls : WellFormed(c)
  /\ \A p \in Creations : /\ p.calls \in Seq(Calls) /\ p.name \in Names
                         /\ p.admin \in Accounts \union {Zero}

VARIABLES
  token,   \* address -> what is stored there
  active,  \* is the feature of the variant activated
  now, signed, log,
  tx       \* the transaction under way

vars == <<token, active, now, signed, log, tx>>

Empty == [code |-> FALSE, initialized |-> FALSE, name |-> "", cap |-> 0, supply |-> 0,
          paused |-> FALSE, used |-> {}, roles |-> {},
          nonces |-> [a \in Senders |-> 0], allowances |-> [a \in Senders |-> 0]]

\* _writeBaseStorage and _writeAssetStorage, on fresh storage.
Planted(name) == [Empty EXCEPT !.code = TRUE, !.name = name, !.cap = MaxSupplyCap]

Idle == [open |-> FALSE]

Init ==
  /\ token = [t \in Tokens |-> Empty]
  /\ active \in BOOLEAN
  /\ now = 0 /\ signed = {} /\ log = <<>> /\ tx = Idle

-----------------------------------------------------------------------------
(* A transaction: its sender and token, what to return to if it fails, the *)
(* token it creates, and the calls still to be made with their senders.    *)

Begin(who, t, creating, agenda) ==
  tx' = [open |-> TRUE, who |-> who, token |-> t, creating |-> creating,
         before |-> token, mark |-> Len(log), agenda |-> agenda]

MadeBy(sender, calls, internal) ==
  [i \in DOMAIN calls |-> [by |-> sender, call |-> calls[i], internal |-> internal]]

T    == token[tx.token]
Item == Head(tx.agenda)

\* The next call is made: a change of the token, its events, calls to insert.
Does(change, events, calls) ==
  /\ token' = [token EXCEPT ![tx.token] = change]
  /\ log' = log \o events
  /\ tx' = [tx EXCEPT !.agenda = calls \o Tail(@)]

IsPrivileged(sender) == sender = Factory /\ ~T.initialized
OnlyRole(role) == <<role, Item.by>> \in T.roles \/ IsPrivileged(Item.by)

\* _checkSelector: an announcement makes no announcement.
CheckSelector == ~(Item.internal /\ Item.call.op = "announce")

Making(op) ==
  tx.open /\ tx.agenda # <<>> /\ Item.call.op = op /\ CheckSelector

-----------------------------------------------------------------------------
(* The calls of a token.  A guard that fails leaves Revert.                 *)

AnnounceOK == OnlyRole("OPERATOR") /\ Item.call.id \notin T.used

\* delegatecall: the internal calls are the announcer's own.
Announce ==
  /\ Making("announce") /\ AnnounceOK
  /\ Does([T EXCEPT !.used = @ \union {Item.call.id}],
          << <<"Announcement", tx.token, Item.call.id>> >>,
          Append(MadeBy(Item.by, Item.call.calls, TRUE),
                 [by |-> Item.by, call |-> [op |-> "end", id |-> Item.call.id], internal |-> FALSE]))

EndAnnouncement ==
  /\ Making("end")
  /\ Does(T, << <<"EndAnnouncement", tx.token, Item.call.id>> >>, <<>>)

\* Mutant: the elements are minted without asking for the role.
BatchMintOK_anybody == ~T.paused /\ Item.call.pairs # <<>>

BatchMintOK == ~T.paused /\ OnlyRole("MINT") /\ Item.call.pairs # <<>>

BatchMint ==
  /\ Making("batchMint") /\ BatchMintOK
  /\ Does(T, <<>>, [i \in DOMAIN Item.call.pairs |->
                      [by |-> Item.by, internal |-> FALSE,
                       call |-> [op |-> "element", to |-> Item.call.pairs[i][1],
                                 amount |-> Item.call.pairs[i][2]]]])

ElementOK ==
  /\ Item.call.to \notin {tx.token, Zero}
  /\ Item.call.to \in Admitted
  /\ T.supply + Item.call.amount <= T.cap

\* One round of batchMint's loop: the receiver guard and _mint.
Element ==
  /\ Making("element") /\ ElementOK
  /\ Does([T EXCEPT !.supply = @ + Item.call.amount],
          << <<"Transfer", tx.token, Item.call.amount>> >>, <<>>)

\* Mutant: the digest is made without the nonce.
Verifies_anyNonce(message) ==
  /\ message \in signed
  /\ message.token = tx.token
  /\ message.name = T.name

\* The signature recovers to the owner: it was made over the digest of now,
\* with the live name and nonce and this token's address.
Verifies(message) ==
  /\ message \in signed
  /\ message.token = tx.token
  /\ message.name = T.name
  /\ message.nonce = T.nonces[message.owner]

PermitOK == now <= Item.call.message.deadline /\ Verifies(Item.call.message)

Permit ==
  /\ Making("permit") /\ PermitOK
  /\ LET m == Item.call.message
     IN  Does([T EXCEPT !.nonces[m.owner] = @ + 1, !.allowances[m.owner] = m.value],
              << <<"Approval", tx.token, m.owner, m.value, {m}>> >>, <<>>)

Approve ==
  /\ Making("approve")
  /\ Does([T EXCEPT !.allowances[Item.by] = Item.call.value],
          << <<"Approval", tx.token, Item.by, Item.call.value, {}>> >>, <<>>)

UpdateName ==
  /\ Making("updateName") /\ OnlyRole("METADATA")
  /\ Does([T EXCEPT !.name = Item.call.name],
          << <<"NameUpdated", tx.token, Item.call.name>> >>, <<>>)

SupplyCapOK == OnlyRole("ADMIN") /\ Item.call.cap \in T.supply..MaxSupplyCap

UpdateSupplyCap ==
  /\ Making("updateSupplyCap") /\ SupplyCapOK
  /\ Does([T EXCEPT !.cap = Item.call.cap],
          << <<"SupplyCapUpdated", tx.token, Item.call.cap>> >>, <<>>)

PauseMint ==
  /\ Making("pause") /\ OnlyRole("PAUSE")
  /\ Does([T EXCEPT !.paused = TRUE], << <<"Paused", tx.token>> >>, <<>>)

\* Granting what is held already emits nothing.
GrantRole ==
  /\ Making("grantRole") /\ OnlyRole("ADMIN")
  /\ LET grant == <<Item.call.role, Item.call.to>>
     IN  Does([T EXCEPT !.roles = @ \union {grant}],
              IF grant \in T.roles THEN <<>> ELSE << <<"RoleGranted", tx.token, grant>> >>, <<>>)

Made ==
  CASE Item.call.op = "announce"        -> AnnounceOK
    [] Item.call.op = "batchMint"       -> BatchMintOK
    [] Item.call.op = "element"         -> ElementOK
    [] Item.call.op = "permit"          -> PermitOK
    [] Item.call.op = "updateName"      -> OnlyRole("METADATA")
    [] Item.call.op = "updateSupplyCap" -> SupplyCapOK
    [] Item.call.op = "pause"           -> OnlyRole("PAUSE")
    [] Item.call.op = "grantRole"       -> OnlyRole("ADMIN")
    [] OTHER                            -> TRUE

\* Mutant: the events of what was undone remain.
Revert_keepsLog ==
  /\ tx.open /\ tx.agenda # <<>> /\ ~(CheckSelector /\ Made)
  /\ token' = tx.before
  /\ tx' = Idle
  /\ UNCHANGED <<active, now, signed, log>>

\* The call under way reverts, and with it everything since the transaction
\* began, the creation of the token and its code included.
Revert ==
  /\ tx.open /\ tx.agenda # <<>> /\ ~(CheckSelector /\ Made)
  /\ token' = tx.before
  /\ log' = SubSeq(log, 1, tx.mark)
  /\ tx' = Idle
  /\ UNCHANGED <<active, now, signed>>

\* The last call has returned; a creation closes the bootstrap window.
Commit ==
  /\ tx.open /\ tx.agenda = <<>>
  /\ token' = [t \in Tokens |-> IF t \in tx.creating
                                THEN [token[t] EXCEPT !.initialized = TRUE] ELSE token[t]]
  /\ tx' = Idle
  /\ UNCHANGED <<active, now, signed, log>>

Step ==
  \/ /\ \/ Announce \/ EndAnnouncement \/ BatchMint \/ Element \/ Permit \/ Approve
        \/ UpdateName \/ UpdateSupplyCap \/ PauseMint \/ GrantRole
     /\ UNCHANGED <<active, now, signed>>
  \/ Revert
  \/ Commit

-----------------------------------------------------------------------------
(* Between transactions.                                                   *)

Room == ~tx.open /\ Len(log) < MaxEvents

CallToken(who, t, call) ==
  /\ Room /\ token[t].code
  /\ Begin(who, t, {}, MadeBy(who, <<call>>, FALSE))
  /\ UNCHANGED <<token, active, now, signed, log>>

\* createB20, its guards, the planting and the event; the calls that follow
\* are the factory's.  What fails in a guard has changed nothing.
CreateB20(t, creation) ==
  /\ Room
  /\ active /\ creation.params = "valid" /\ ~token[t].code
  /\ token' = [token EXCEPT ![t] = Planted(creation.name)]
  /\ log' = Append(log, <<"B20Created", t, creation.name>>)
  /\ Begin(Deployer[t], t, {t},
       MadeBy(Factory,
              (IF creation.admin = Zero THEN <<>>
               ELSE << [op |-> "grantRole", role |-> "ADMIN", to |-> creation.admin] >>)
              \o creation.calls, FALSE))
  /\ UNCHANGED <<active, now, signed>>

Activate   == Room /\ ~active /\ active' = TRUE /\ UNCHANGED <<token, now, signed, log, tx>>
Deactivate == Room /\ active /\ active' = FALSE /\ UNCHANGED <<token, now, signed, log, tx>>

\* A wallet reads the token's domain, and signs; it may sign ahead.
Sign(message) ==
  /\ Room /\ message \notin signed
  /\ message.name = token[message.token].name
  /\ signed' = signed \union {message}
  /\ UNCHANGED <<token, active, now, log, tx>>

Tick == Room /\ now < MaxNow /\ now' = now + 1 /\ UNCHANGED <<token, active, signed, log, tx>>

\* The messages somebody may come to submit.
Submitted == {c.message : c \in {d \in Calls : d.op = "permit"}}

Next ==
  \/ Step
  \/ \E who \in Accounts, t \in Tokens, call \in Requests : CallToken(who, t, call)
  \/ \E t \in Tokens, creation \in Creations : CreateB20(t, creation)
  \/ \E message \in Submitted : Sign(message)
  \/ Activate \/ Deactivate \/ Tick

Spec == Init /\ [][Next]_vars

-----------------------------------------------------------------------------
(* Properties.                                                             *)

\* What an indexer makes of an event of a token: B20Created tells of a whole
\* token, with its bootstrap window closed.
IsPermit(e) == e[1] = "Approval" /\ e[5] # {}

StoredBy(s, e) ==
  CASE e[1] = "B20Created"       -> [Planted(e[3]) EXCEPT !.initialized = TRUE]
    [] e[1] = "NameUpdated"      -> [s EXCEPT !.name = e[3]]
    [] e[1] = "SupplyCapUpdated" -> [s EXCEPT !.cap = e[3]]
    [] e[1] = "Transfer"         -> [s EXCEPT !.supply = @ + e[3]]
    [] e[1] = "Paused"           -> [s EXCEPT !.paused = TRUE]
    [] e[1] = "Announcement"     -> [s EXCEPT !.used = @ \union {e[3]}]
    [] e[1] = "RoleGranted"      -> [s EXCEPT !.roles = @ \union {e[3]}]
    [] e[1] = "Approval"         ->
         [s EXCEPT !.allowances[e[3]] = e[4], !.nonces[e[3]] = IF IsPermit(e) THEN @ + 1 ELSE @]
    [] OTHER                     -> s

AnnouncingBy(open, e) ==
  CASE e[1] = "Announcement"    -> open \union {e[3]}
    [] e[1] = "EndAnnouncement" -> open \ {e[3]}
    [] OTHER                    -> open

\* A token is created once, before anything else happens to it; an announcement
\* is new, and is closed before another one opens; a grant is news.
Plausible(told, e) ==
  /\ told.stored.code <=> e[1] # "B20Created"
  /\ e[1] = "Announcement" => told.announcing = {} /\ e[3] \notin told.stored.used
  /\ e[1] = "EndAnnouncement" => told.announcing = {e[3]}
  /\ e[1] = "RoleGranted" => e[3] \notin told.stored.roles

Index(t, told, e) ==
  IF e[2] # t THEN told
  ELSE [stored     |-> StoredBy(told.stored, e),
        announcing |-> AnnouncingBy(told.announcing, e),
        plausible  |-> told.plausible /\ Plausible(told, e)]

\* What the first n of some events tell of a token.
Told(t, events, n) ==
  LET told[k \in 0..n] == IF k = 0 THEN [stored |-> Empty, announcing |-> {}, plausible |-> TRUE]
                          ELSE Index(t, told[k - 1], events[k])
  IN  told[n]

(***************************************************************************)
(* What an indexer adds up from the events is what is stored, for every    *)
(* token and after every transaction, however many calls it made and where *)
(* it failed: no call of a failed one leaves a trace, a token exists whole *)
(* and initialized or not at all, announcements close and are unique, and  *)
(* the cap holds for the sum of a batch.                                   *)
(***************************************************************************)
LogTellsState ==
  ~tx.open =>
    \A t \in Tokens :
      /\ Told(t, log, Len(log)) = [stored |-> token[t], announcing |-> {}, plausible |-> TRUE]
      /\ token[t].supply <= token[t].cap

(***************************************************************************)
(* A transaction has only the rights its sender had when it began, or      *)
(* could grant itself: the operator's announcement lends nothing to the    *)
(* calls inside it.  Allowances change by their owner's own transaction or *)
(* by messages the owner signed.  A new token needs an active feature (an  *)
(* existing one does not) and is at its deployer's address.                *)
(***************************************************************************)
May(t, role) == {<<role, tx.who>>, <<"ADMIN", tx.who>>} \cap tx.before[t].roles # {}

Agreed(t, after, a) ==
  \/ a = tx.who
  \/ \E m \in signed : /\ m.token = t /\ m.owner = a
                       /\ m.nonce >= tx.before[t].nonces[a] /\ m.nonce < after.nonces[a]
                       /\ m.value = after.allowances[a]

Rightful(t, after) ==
  LET before == tx.before[t]
  IN  /\ after.supply # before.supply => May(t, "MINT")
      /\ after.used # before.used => May(t, "OPERATOR")
      /\ after.name # before.name => May(t, "METADATA")
      /\ after.paused # before.paused => May(t, "PAUSE")
      /\ after.cap # before.cap \/ after.roles # before.roles => May(t, "ADMIN")
      /\ \A a \in Senders :
           after.allowances[a] # before.allowances[a] => Agreed(t, after, a)

OnlyByRight ==
  [][tx.open /\ ~tx'.open =>
       \A t \in Tokens :
         IF token'[t].code /\ ~tx.before[t].code
         THEN active /\ tx.who = Deployer[t]
         ELSE Rightful(t, token'[t])]_vars

(***************************************************************************)
(* Every permit that took effect was signed for this token, under the name *)
(* it had at that moment, and with the number of permits its owner had     *)
(* used by then: no message counts twice, none out of order, and none that *)
(* was signed before a renaming, unless the old name has come back.        *)
(***************************************************************************)
PermitsOnce ==
  \A i \in DOMAIN log :
    LET e    == log[i]
        told == Told(e[2], log, i - 1).stored
    IN  IsPermit(e) =>
          \E m \in e[5] :
            /\ m \in signed /\ m.token = e[2] /\ m.owner = e[3] /\ m.value = e[4]
            /\ m.name = told.name /\ m.nonce = told.nonces[e[3]]
=============================================================================
