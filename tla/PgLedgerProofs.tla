--------------------------- MODULE PgLedgerProofs ---------------------------
(* Proofs about PgLedger, for every set of clients, instances and lock      *)
(* keys and every number of calls, retries and faults.                      *)
EXTENDS PgLedger, SequenceTheorems, FiniteSetTheorems, WellFoundedInduction, TLAPS

-----------------------------------------------------------------------------
(* The inductive invariant.                                                *)

Busy(c) == pc[c] # "idle"

Steps == {"idle", "latest", "lock", "select", "upsert", "insert", "commit"}

TypeInv ==
    /\ wal \in Seq(Database) /\ Len(wal) > 0
    /\ replayed \in 1 .. Len(wal)
    /\ pc \in [Clients -> Steps]
    /\ call \in [Clients -> Call \cup {Idle}]
    /\ \A c \in Clients : Busy(c) => call[c] \in Call
    /\ \A c \in Clients : ~Busy(c) => call[c] = Idle
    /\ outcomes \in Seq(Answers \cup {"pending"})
    /\ storage.class \in {"PostgreSQLStorage", "PostgreSQLHardenedStorage"}

\* The hash that row n of an instance continues.
HashAt(rows, n) == IF n = 1 THEN genesis_hash ELSE rows[n - 1].proof.current_hash

Rows(c) == db.ledger[call[c].instance]

\* Whatever the caller read, its proof continues a chain that the ledger still
\* begins with.
Drafted(c) ==
    LET p == call[c].proof
    IN  /\ p \in Proof
        /\ p.sequence_id \in 1 .. Len(Rows(c)) + 1
        /\ p = BuildProof(call[c].payload, HashAt(Rows(c), p.sequence_id),
                          p.sequence_id, Key)

\* The proof of c continues the ledger as it is.
Current(c) == call[c].proof.sequence_id = Len(Rows(c)) + 1

CallInv(c) ==
    /\ call[c].id \in 1 .. Len(outcomes)
    /\ outcomes[call[c].id] = "pending"
    /\ Hardened => ~call[c].auto
    /\ pc[c] # "latest" => Drafted(c)
    /\ pc[c] = "commit" => ~call[c].auto /\ Current(c)

CallsInv ==
    /\ \A c \in Clients : Busy(c) => CallInv(c)
    /\ \A c, d \in Clients : c # d /\ Busy(c) /\ Busy(d) => call[c].id # call[d].id

\* A transaction that has changed the row of its instance is alone in that.
HoldsRow(c) == pc[c] \in {"insert", "commit"} /\ ~call[c].auto

RowLocks ==
    \A c, d \in Clients :
        c # d /\ HoldsRow(c) /\ HoldsRow(d) => call[c].instance # call[d].instance

\* The states that the primary committed have grown into the last one.
WalGrows ==
    \A k \in 1 .. Len(wal) : \A i \in Instances :
        /\ Len(wal[k].ledger[i]) <= Len(db.ledger[i])
        /\ \A n \in 1 .. Len(wal[k].ledger[i]) : wal[k].ledger[i][n] = db.ledger[i][n]

Author(i, n) == db.ledger[i][n].author

\* The calls that wrote the rows of the ledger.
AuthorInv ==
    /\ \A i \in Instances : \A n \in 1 .. Len(db.ledger[i]) :
          /\ Author(i, n) \in 1 .. Len(outcomes)
          /\ outcomes[Author(i, n)] \in {"ok", "lost"}
    /\ \A i, j \in Instances :
          \A n \in 1 .. Len(db.ledger[i]), m \in 1 .. Len(db.ledger[j]) :
             Author(i, n) = Author(j, m) => i = j /\ n = m
    /\ \A id \in 1 .. Len(outcomes) : outcomes[id] = "ok" =>
          \E i \in Instances : \E n \in 1 .. Len(db.ledger[i]) : Author(i, n) = id

IInv == /\ TypeInv
        /\ CallsInv /\ RowLocks /\ WalGrows /\ AuthorInv /\ StateFollowsLedger

-----------------------------------------------------------------------------
(* Types.                                                                  *)

\* A set of row numbers and 0 has a greatest member.
LEMMA MaxType ==
    ASSUME NEW len \in Nat, NEW ids, ids \subseteq 0 .. len, ids # {}
    PROVE  Max(ids) \in Nat
<1> DEFINE rest == {len - n : n \in ids}
<1>0. \A n \in ids : len - n \in Nat OBVIOUS
<1>1. rest \subseteq Nat /\ rest # {}
  <2>1. PICK n \in ids : TRUE OBVIOUS
  <2>2. len - n \in rest OBVIOUS
  <2> QED BY <1>0, <2>2
<1>2. PICK x \in rest : \A y \in rest : ~(<<y, x>> \in OpToRel(<, Nat))
  BY <1>1, NatLessThanWellFounded, WFMin
<1>3. PICK m \in ids : x = len - m BY <1>2
<1>4. \A n \in ids : m >= n
  <2> SUFFICES ASSUME NEW n \in ids, ~(m >= n) PROVE FALSE OBVIOUS
  <2>1. len - n \in rest OBVIOUS
  <2>2. len - n < x BY <1>3
  <2>3. <<len - n, x>> \in {ss \in Nat \X Nat : ss[1] < ss[2]} BY <2>2, <1>0, <1>1
  <2> QED BY <2>1, <2>3, <1>2 DEF OpToRel
<1> HIDE DEF rest
<1>5. Max(ids) \in ids BY <1>4 DEF Max
<1>6. ids \subseteq Nat OBVIOUS
<1> QED BY <1>5, <1>6

\* BuildProof builds proofs.
LEMMA BuildProofType ==
    ASSUME NEW payload \in Payload, NEW h \in Hash, NEW n \in Nat
    PROVE  BuildProof(payload, h, n, Key) \in Proof
<1> DEFINE link == [payload |-> payload, sequence_id |-> n]
<1>1. Append(h, link) \in Hash BY AppendProperties DEF Hash
<1> QED BY <1>1, PgLedgerAssumption DEF BuildProof, canonical_hash, sign_hash, Proof

\* What the rows of the ledger are.
LEMMA LedgerType ==
    ASSUME TypeInv
    PROVE  /\ Len(wal) \in Nat /\ Len(wal) \in 1 .. Len(wal) /\ db \in Database
           /\ \A k \in 1 .. Len(wal) : wal[k] \in Database
           /\ \A k \in 1 .. Len(wal) : \A i \in Instances :
                 /\ wal[k].ledger[i] \in Seq(Row) /\ Len(wal[k].ledger[i]) \in Nat
                 /\ DOMAIN wal[k].ledger[i] = 1 .. Len(wal[k].ledger[i])
           /\ \A i \in Instances :
                 /\ db.ledger[i] \in Seq(Row) /\ Len(db.ledger[i]) \in Nat
                 /\ DOMAIN db.ledger[i] = 1 .. Len(db.ledger[i])
                 /\ \A n \in 1 .. Len(db.ledger[i]) : db.ledger[i][n] \in Row
<1>1. Len(wal) \in Nat /\ Len(wal) \in 1 .. Len(wal) BY DEF TypeInv
<1>2. \A k \in 1 .. Len(wal) : wal[k] \in Database BY DEF TypeInv
<1>3. db \in Database BY <1>1, <1>2 DEF db
<1>4. \A d \in Database : \A i \in Instances : d.ledger[i] \in Seq(Row) BY DEF Database
<1>5. \A rows \in Seq(Row) : /\ Len(rows) \in Nat /\ DOMAIN rows = 1 .. Len(rows)
                             /\ \A n \in 1 .. Len(rows) : rows[n] \in Row
  OBVIOUS
<1>6. ASSUME NEW k \in 1 .. Len(wal), NEW i \in Instances
      PROVE  /\ wal[k].ledger[i] \in Seq(Row) /\ Len(wal[k].ledger[i]) \in Nat
             /\ DOMAIN wal[k].ledger[i] = 1 .. Len(wal[k].ledger[i])
  BY <1>2, <1>4, <1>5
<1>7. ASSUME NEW i \in Instances
      PROVE  /\ db.ledger[i] \in Seq(Row) /\ Len(db.ledger[i]) \in Nat
             /\ DOMAIN db.ledger[i] = 1 .. Len(db.ledger[i])
             /\ \A n \in 1 .. Len(db.ledger[i]) : db.ledger[i][n] \in Row
  BY <1>3, <1>4, <1>5
<1> HIDE DEF db
<1> QED BY <1>1, <1>2, <1>3, <1>6, <1>7

\* What a busy client has.
LEMMA CallType ==
    ASSUME TypeInv, NEW c \in Clients, Busy(c)
    PROVE  /\ call[c] \in Call /\ call[c].id \in Nat /\ call[c].instance \in Instances
           /\ call[c].payload \in Payload /\ call[c].payload.decision \in Decisions
           /\ Rows(c) \in Seq(Row) /\ Len(Rows(c)) \in Nat
           /\ DOMAIN Rows(c) = 1 .. Len(Rows(c))
<1>1. call[c] \in Call BY DEF TypeInv
<1>2. /\ call[c].id \in Nat /\ call[c].instance \in Instances
      /\ call[c].payload \in Payload
  BY <1>1, PgLedgerAssumption DEF Call
<1>3. call[c].payload.decision \in Decisions BY <1>2 DEF Payload
<1>4. Rows(c) \in Seq(Row) /\ Len(Rows(c)) \in Nat /\ DOMAIN Rows(c) = 1 .. Len(Rows(c))
  BY <1>2, LedgerType DEF Rows
<1> QED BY <1>1, <1>2, <1>3, <1>4

\* Only the client that takes a step changes where it is and its call.
OthersKeep(c) == \A d \in Clients \ {c} : pc'[d] = pc[d] /\ call'[d] = call[d]

ClientTypes == pc' \in [Clients -> Steps] /\ call' \in [Clients -> Call \cup {Idle}]

\* An answer ends a call.
LEMMA AnswerIs ==
    ASSUME TypeInv, NEW c \in Clients, NEW a, Answer(c, a)
    PROVE  /\ OthersKeep(c) /\ ClientTypes /\ pc'[c] = "idle" /\ call'[c] = Idle
           /\ outcomes' = [outcomes EXCEPT ![call[c].id] = a]
BY DEF Answer, TypeInv, OthersKeep, ClientTypes, Steps

\* The types after a step of client c.
LEMMA TypeParts ==
    ASSUME TypeInv, NEW c \in Clients, OthersKeep(c), ClientTypes, storage' = storage,
           replayed' = replayed,
           wal' = wal \/ \E d \in Database : wal' = Append(wal, d),
           outcomes' \in Seq(Answers \cup {"pending"}),
           IF pc'[c] = "idle" THEN call'[c] = Idle ELSE call'[c] \in Call
    PROVE  TypeInv'
<1>1. wal' \in Seq(Database) /\ Len(wal') > 0 /\ replayed' \in 1 .. Len(wal')
  <2>1. wal \in Seq(Database) /\ Len(wal) \in Nat /\ Len(wal) > 0
        /\ replayed \in 1 .. Len(wal)
    BY DEF TypeInv
  <2>2. CASE wal' = wal BY <2>1, <2>2
  <2>3. ASSUME NEW d \in Database, wal' = Append(wal, d)
        PROVE  wal' \in Seq(Database) /\ Len(wal') > 0 /\ replayed' \in 1 .. Len(wal')
    <3>1. wal' \in Seq(Database) /\ Len(wal') = Len(wal) + 1
      BY <2>1, <2>3, AppendProperties
    <3> QED BY <2>1, <3>1
  <2> QED BY <2>2, <2>3
<1>2. ASSUME NEW d \in Clients
      PROVE  (Busy(d)' => call'[d] \in Call) /\ (~Busy(d)' => call'[d] = Idle)
  <2>1. CASE d = c BY <2>1 DEF Busy
  <2>2. CASE d # c BY <2>2 DEF OthersKeep, TypeInv, Busy
  <2> QED BY <2>1, <2>2
<1>3. storage'.class \in {"PostgreSQLStorage", "PostgreSQLHardenedStorage"} BY DEF TypeInv
<1> QED BY <1>1, <1>2, <1>3 DEF TypeInv, ClientTypes

\* Rows and states written to the database.
LEMMA WriteTypes ==
    ASSUME TypeInv, NEW c \in Clients, Busy(c), NEW d \in Database
    PROVE  /\ WithState(d, c) \in Database
           /\ WithState(d, c).ledger = d.ledger
           /\ call[c].proof \in Proof => WithRow(d, c) \in Database
           /\ WithRow(d, c).state = d.state
           /\ WithState(d, c).state = [d.state EXCEPT ![call[c].instance] =
                                          call[c].payload.decision]
           /\ WithRow(d, c).ledger = [d.ledger EXCEPT ![call[c].instance] =
                  Append(@, [proof |-> call[c].proof, author |-> call[c].id])]
<1>1. /\ call[c].id \in Nat /\ call[c].instance \in Instances
      /\ call[c].payload.decision \in Decisions
  BY CallType
<1>2. /\ d.ledger \in [Instances -> Seq(Row)]
      /\ d.state \in [Instances -> Decisions \cup {NoDecision}]
      /\ d = [ledger |-> d.ledger, state |-> d.state]
  BY DEF Database
<1>3. WithState(d, c) = [ledger |-> d.ledger,
                         state |-> [d.state EXCEPT ![call[c].instance] =
                                       call[c].payload.decision]]
  BY DEF WithState
<1>4. WithState(d, c) \in Database BY <1>1, <1>2, <1>3 DEF Database
<1> DEFINE row == [proof |-> call[c].proof, author |-> call[c].id]
           more == Append(d.ledger[call[c].instance], row)
<1>5. WithRow(d, c) = [ledger |-> [d.ledger EXCEPT ![call[c].instance] = more],
                       state |-> d.state]
  BY DEF WithRow
<1>6. ASSUME call[c].proof \in Proof PROVE WithRow(d, c) \in Database
  <2>1. row \in Row BY <1>1, <1>6 DEF Row
  <2>2. d.ledger[call[c].instance] \in Seq(Row) BY <1>1, <1>2
  <2> HIDE DEF row
  <2>3. more \in Seq(Row) BY <2>1, <2>2, AppendProperties
  <2> HIDE DEF more
  <2> QED BY <2>3, <1>1, <1>2, <1>5 DEF Database
<1> QED BY <1>1, <1>2, <1>3, <1>4, <1>5, <1>6

-----------------------------------------------------------------------------
(* What a step does to the calls of the other clients.                     *)

Extends(more, rows) ==
    Len(rows) <= Len(more) /\ \A n \in 1 .. Len(rows) : more[n] = rows[n]

\* What extends an extension extends what that one extends.
LEMMA ExtendsOnward ==
    ASSUME NEW most, NEW more, NEW rows, Extends(most, more), Extends(more, rows),
           Len(most) \in Nat, Len(more) \in Nat, Len(rows) \in Nat
    PROVE  Extends(most, rows)
BY DEF Extends

\* A commit of the primary.
LEMMA WalStep ==
    ASSUME TypeInv, WalGrows, NEW d \in Database, wal' = Append(wal, d),
           \A i \in Instances : Extends(d.ledger[i], db.ledger[i])
    PROVE  WalGrows' /\ db' = d
<1>1. wal \in Seq(Database) /\ Len(wal) \in Nat BY DEF TypeInv
<1>2. /\ Len(wal') = Len(wal) + 1 /\ wal'[Len(wal) + 1] = d
      /\ \A k \in 1 .. Len(wal) : wal'[k] = wal[k]
  BY <1>1, AppendProperties
<1>3. db' = d BY <1>2 DEF db
<1>4. ASSUME NEW k \in 1 .. Len(wal'), NEW i \in Instances
      PROVE  Extends(db'.ledger[i], wal'[k].ledger[i])
  <2>0. d.ledger[i] \in Seq(Row) /\ Len(d.ledger[i]) \in Nat
    <3>1. d.ledger[i] \in Seq(Row) BY DEF Database
    <3> QED BY <3>1
  <2>1. CASE k = Len(wal) + 1
    <3>1. wal'[k] = d BY <2>1, <1>2
    <3> QED BY <3>1, <2>0, <1>3 DEF Extends
  <2>2. CASE k # Len(wal) + 1
    <3>1. k \in 1 .. Len(wal) BY <2>2, <1>1, <1>2
    <3>2. wal'[k] = wal[k] BY <3>1, <1>2
    <3>3. /\ Len(wal[k].ledger[i]) <= Len(db.ledger[i])
          /\ \A n \in 1 .. Len(wal[k].ledger[i]) : wal[k].ledger[i][n] = db.ledger[i][n]
      BY <3>1 DEF WalGrows
    <3>4. Len(wal[k].ledger[i]) \in Nat /\ Len(db.ledger[i]) \in Nat BY <3>1, LedgerType
    <3>5. Extends(d.ledger[i], db.ledger[i]) OBVIOUS
    <3>6. Extends(db.ledger[i], wal[k].ledger[i]) BY <3>3 DEF Extends
    <3>7. Extends(d.ledger[i], wal[k].ledger[i])
      BY <3>4, <3>5, <3>6, <2>0, ExtendsOnward
    <3> QED BY <3>2, <3>7, <1>3
  <2> QED BY <2>1, <2>2
<1>5. WalGrows' BY <1>4 DEF WalGrows, Extends
<1> QED BY <1>3, <1>5

\* A proof that continues a beginning of the ledger still does when it has grown.
LEMMA DraftedKeeps ==
    ASSUME TypeInv, NEW c \in Clients, Busy(c), Drafted(c), call'[c] = call[c],
           Extends(Rows(c)', Rows(c)), Len(Rows(c)') \in Nat
    PROVE  Drafted(c)'
<1> DEFINE p == call[c].proof
           n == p.sequence_id
<1>1. /\ p \in Proof /\ n \in 1 .. Len(Rows(c)) + 1
      /\ p = BuildProof(call[c].payload, HashAt(Rows(c), n), n, Key)
  BY DEF Drafted
<1>2. Len(Rows(c)) \in Nat /\ Len(Rows(c)) <= Len(Rows(c)') BY CallType DEF Extends
<1>3. n \in 1 .. Len(Rows(c)') + 1 BY <1>1, <1>2
<1>4. HashAt(Rows(c)', n) = HashAt(Rows(c), n)
  <2>1. CASE n = 1 BY <2>1 DEF HashAt
  <2>2. CASE n # 1
    <3>1. n - 1 \in 1 .. Len(Rows(c)) BY <2>2, <1>1, <1>2
    <3>2. Rows(c)'[n - 1] = Rows(c)[n - 1] BY <3>1 DEF Extends
    <3> HIDE DEF n
    <3> QED BY <3>2, <2>2 DEF HashAt
  <2> QED BY <2>1, <2>2
<1> QED BY <1>1, <1>3, <1>4 DEF Drafted, HashAt

\* The calls of the other clients go on as they were.
LEMMA OthersInv ==
    ASSUME TypeInv, CallsInv, NEW c \in Clients, OthersKeep(c), storage' = storage,
           \A i \in Instances : /\ Extends(db'.ledger[i], db.ledger[i])
                                /\ Len(db'.ledger[i]) \in Nat,
           Len(outcomes) <= Len(outcomes'), Len(outcomes) \in Nat, Len(outcomes') \in Nat,
           \A d \in Clients \ {c} : Busy(d) => outcomes'[call[d].id] = outcomes[call[d].id],
           \A d \in Clients \ {c} : pc[d] = "commit" =>
               Len(db'.ledger[call[d].instance]) = Len(db.ledger[call[d].instance])
    PROVE  \A d \in Clients \ {c} : Busy(d)' => CallInv(d)'
<1> SUFFICES ASSUME NEW d \in Clients \ {c}, Busy(d)' PROVE CallInv(d)' OBVIOUS
<1>1. pc'[d] = pc[d] /\ call'[d] = call[d] /\ Busy(d) BY DEF OthersKeep, Busy
<1>2. CallInv(d) /\ call[d].instance \in Instances BY <1>1, CallType DEF CallsInv
<1>3. call'[d].id \in 1 .. Len(outcomes') /\ outcomes'[call'[d].id] = "pending"
  BY <1>1, <1>2 DEF CallInv
<1>4. Hardened' => ~call'[d].auto BY <1>1, <1>2 DEF CallInv, Hardened
<1>5. Rows(d)' = db'.ledger[call[d].instance] BY <1>1 DEF Rows
<1>6. Extends(Rows(d)', Rows(d)) /\ Len(Rows(d)') \in Nat BY <1>2, <1>5 DEF Rows
<1>7. pc'[d] # "latest" => Drafted(d)' BY <1>1, <1>2, <1>6, DraftedKeeps DEF CallInv
<1>8. pc'[d] = "commit" => ~call'[d].auto /\ Current(d)'
  BY <1>1, <1>2, <1>5 DEF CallInv, Current, Rows
<1> QED BY <1>3, <1>4, <1>7, <1>8 DEF CallInv

-----------------------------------------------------------------------------
(* Steps that write no row.                                                *)

\* What client c goes on with after a step, if it goes on.
GoesOn(c) ==
    Busy(c)' =>
        /\ Busy(c) /\ call'[c].id = call[c].id /\ CallInv(c)'
        /\ HoldsRow(c)' =>
              \A d \in Clients \ {c} : HoldsRow(d) => call[d].instance # call'[c].instance

\* What becomes of the answers: nothing, or the call has written no row.
NothingWritten(c) ==
    \/ outcomes' = outcomes
    \/ /\ Busy(c) /\ ~Busy(c)'
       /\ \E a \in {"raised", "lost"} : outcomes' = [outcomes EXCEPT ![call[c].id] = a]

\* A step that writes no row keeps the invariant.
LEMMA QuietStep ==
    ASSUME IInv, NEW c \in Clients, OthersKeep(c), storage' = storage,
           db'.ledger = db.ledger, Hardened => db'.state = db.state,
           GoesOn(c), NothingWritten(c)
    PROVE  CallsInv' /\ RowLocks' /\ AuthorInv' /\ StateFollowsLedger'
<1>1. TypeInv /\ CallsInv /\ RowLocks /\ AuthorInv /\ StateFollowsLedger BY DEF IInv
<1>2. outcomes \in Seq(Answers \cup {"pending"}) /\ Len(outcomes) \in Nat
      /\ DOMAIN outcomes = 1 .. Len(outcomes)
  BY <1>1 DEF TypeInv
<1>3. /\ Len(outcomes') = Len(outcomes)
      /\ \A id \in 1 .. Len(outcomes) :
            \/ outcomes'[id] = outcomes[id]
            \/ /\ Busy(c) /\ ~Busy(c)' /\ id = call[c].id
               /\ outcomes'[id] \in {"raised", "lost"}
  <2>1. CASE outcomes' = outcomes BY <2>1
  <2>2. ASSUME NEW a \in {"raised", "lost"}, Busy(c), ~Busy(c)',
               outcomes' = [outcomes EXCEPT ![call[c].id] = a]
        PROVE  /\ Len(outcomes') = Len(outcomes)
               /\ \A id \in 1 .. Len(outcomes) :
                     \/ outcomes'[id] = outcomes[id]
                     \/ /\ Busy(c) /\ ~Busy(c)' /\ id = call[c].id
                        /\ outcomes'[id] \in {"raised", "lost"}
    BY <2>2, <1>2
  <2> QED BY <2>1, <2>2 DEF NothingWritten
<1>4. \A i \in Instances : /\ Extends(db'.ledger[i], db.ledger[i])
                           /\ Len(db'.ledger[i]) \in Nat
  BY <1>1, LedgerType DEF Extends
<1>5. ASSUME NEW d \in Clients \ {c}, Busy(d)
      PROVE  outcomes'[call[d].id] = outcomes[call[d].id]
  <2>1. call[d].id \in 1 .. Len(outcomes) BY <1>1, <1>5 DEF CallsInv, CallInv
  <2>2. Busy(c) => call[d].id # call[c].id BY <1>1, <1>5 DEF CallsInv
  <2> QED BY <2>1, <2>2, <1>3
<1>6. \A d \in Clients \ {c} : Busy(d)' => CallInv(d)'
  BY <1>1, <1>2, <1>3, <1>4, <1>5, OthersInv
<1>7. \A d \in Clients \ {c} : (Busy(d)' <=> Busy(d)) /\ (HoldsRow(d)' <=> HoldsRow(d))
                               /\ call'[d] = call[d]
  BY DEF OthersKeep, Busy, HoldsRow
<1>8. CallsInv'
  <2>1. \A d \in Clients : Busy(d)' => CallInv(d)' BY <1>6 DEF GoesOn
  <2>2. ASSUME NEW d \in Clients, NEW e \in Clients, d # e, Busy(d)', Busy(e)'
        PROVE  call'[d].id # call'[e].id
    <3>1. ASSUME NEW x \in {d, e} PROVE Busy(x) /\ call'[x].id = call[x].id
      BY <2>2, <1>7 DEF GoesOn
    <3> QED BY <2>2, <3>1, <1>1 DEF CallsInv
  <2> QED BY <2>1, <2>2 DEF CallsInv
<1>9. RowLocks'
  <2> SUFFICES ASSUME NEW d \in Clients, NEW e \in Clients, d # e, HoldsRow(d)', HoldsRow(e)'
               PROVE  call'[d].instance # call'[e].instance
    BY DEF RowLocks
  <2>1. HoldsRow(c)' => Busy(c)' BY DEF HoldsRow, Busy
  <2>2. CASE d = c BY <2>1, <2>2, <1>7 DEF GoesOn
  <2>3. CASE e = c BY <2>1, <2>3, <1>7 DEF GoesOn
  <2>4. CASE d # c /\ e # c BY <2>4, <1>1, <1>7 DEF RowLocks
  <2> QED BY <2>2, <2>3, <2>4
<1>10. AuthorInv'
  <2>1. \A i \in Instances : \A n : Author(i, n)' = Author(i, n) BY DEF Author
  <2>2. ASSUME Busy(c) PROVE outcomes[call[c].id] = "pending"
    BY <2>2, <1>1 DEF CallsInv, CallInv
  <2>3. \A id \in 1 .. Len(outcomes) :
          /\ outcomes[id] \in {"ok", "lost"} => outcomes'[id] = outcomes[id]
          /\ outcomes'[id] = "ok" => outcomes[id] = "ok"
    BY <2>2, <1>3
  <2>4. ASSUME NEW i \in Instances, NEW n \in 1 .. Len(db'.ledger[i])
        PROVE  Author(i, n)' \in 1 .. Len(outcomes') /\ outcomes'[Author(i, n)'] \in {"ok", "lost"}
    BY <2>1, <2>3, <1>1, <1>3 DEF AuthorInv
  <2>5. ASSUME NEW i \in Instances, NEW j \in Instances, NEW n \in 1 .. Len(db'.ledger[i]),
               NEW m \in 1 .. Len(db'.ledger[j]), Author(i, n)' = Author(j, m)'
        PROVE  i = j /\ n = m
    BY <2>1, <2>5, <1>1 DEF AuthorInv
  <2>6. ASSUME NEW id \in 1 .. Len(outcomes'), outcomes'[id] = "ok"
        PROVE  \E i \in Instances : \E n \in 1 .. Len(db'.ledger[i]) : Author(i, n)' = id
    <3>1. outcomes[id] = "ok" /\ id \in 1 .. Len(outcomes) BY <2>3, <2>6, <1>3
    <3>2. PICK i \in Instances : \E n \in 1 .. Len(db.ledger[i]) : Author(i, n) = id
      BY <3>1, <1>1 DEF AuthorInv
    <3> QED BY <3>2, <2>1
  <2> QED BY <2>4, <2>5, <2>6 DEF AuthorInv
<1>11. StateFollowsLedger'
  <2>1. Hardened' = Hardened BY DEF Hardened
  <2>2. \A i \in Instances : LastDecision(i)' = LastDecision(i) BY DEF LastDecision
  <2> QED BY <2>1, <2>2, <1>1 DEF StateFollowsLedger
<1> QED BY <1>8, <1>9, <1>10, <1>11

-----------------------------------------------------------------------------
(* Steps that write a row.                                                 *)

\* Client c commits its row, in a database whose state the hardened storage has
\* changed with it, and is answered.
Recorded(c, d) ==
    /\ d \in Database /\ wal' = Append(wal, d)
    /\ d.ledger = [db.ledger EXCEPT ![call[c].instance] =
                     Append(@, [proof |-> call[c].proof, author |-> call[c].id])]
    /\ Hardened => d.state = [db.state EXCEPT ![call[c].instance] =
                                 call[c].payload.decision]

\* No other transaction is about to commit a row of the same instance.
AloneAtCommit(c) ==
    \A d \in Clients \ {c} : pc[d] = "commit" => call[d].instance # call[c].instance

\* What the ledger is after a row.
LEMMA RowIs ==
    ASSUME IInv, NEW c \in Clients, Busy(c), NEW d, Recorded(c, d), Drafted(c)
    PROVE  /\ db' = d /\ WalGrows'
           /\ Len(Rows(c)) \in Nat
           /\ Len(db'.ledger[call[c].instance]) = Len(Rows(c)) + 1
           /\ db'.ledger[call[c].instance][Len(Rows(c)) + 1] =
                 [proof |-> call[c].proof, author |-> call[c].id]
           /\ \A n \in 1 .. Len(Rows(c)) : db'.ledger[call[c].instance][n] = Rows(c)[n]
           /\ \A i \in Instances \ {call[c].instance} : db'.ledger[i] = db.ledger[i]
           /\ \A i \in Instances : /\ Extends(db'.ledger[i], db.ledger[i])
                                   /\ Len(db'.ledger[i]) \in Nat
<1> DEFINE j == call[c].instance
           row == [proof |-> call[c].proof, author |-> call[c].id]
<1>1. TypeInv /\ WalGrows BY DEF IInv
<1>2. j \in Instances /\ Rows(c) \in Seq(Row) /\ Len(Rows(c)) \in Nat /\ call[c].id \in Nat
  BY <1>1, CallType
<1>3. row \in Row BY <1>2 DEF Drafted, Row
<1>4. db \in Database /\ \A i \in Instances : Len(db.ledger[i]) \in Nat BY <1>1, LedgerType
<1>5. db.ledger \in [Instances -> Seq(Row)] BY <1>4 DEF Database
<1>6. d.ledger[j] = Append(Rows(c), row) /\ \A i \in Instances \ {j} : d.ledger[i] = db.ledger[i]
  BY <1>2, <1>5 DEF Recorded, Rows
<1> HIDE DEF row
<1>7. /\ Len(d.ledger[j]) = Len(Rows(c)) + 1 /\ d.ledger[j][Len(Rows(c)) + 1] = row
      /\ \A n \in 1 .. Len(Rows(c)) : d.ledger[j][n] = Rows(c)[n]
  BY <1>2, <1>3, <1>6, AppendProperties
<1>8. ASSUME NEW i \in Instances
      PROVE  Extends(d.ledger[i], db.ledger[i]) /\ Len(d.ledger[i]) \in Nat
  <2>1. CASE i = j
    <3>1. db.ledger[i] = Rows(c) BY <2>1 DEF Rows
    <3>2. Len(Rows(c)) <= Len(Rows(c)) + 1 /\ Len(Rows(c)) + 1 \in Nat BY <1>2
    <3> HIDE DEF j
    <3> QED BY <3>1, <3>2, <2>1, <1>7 DEF Extends
  <2>2. CASE i # j
    <3>1. d.ledger[i] = db.ledger[i] BY <2>2, <1>6
    <3>2. Len(db.ledger[i]) <= Len(db.ledger[i]) /\ Len(db.ledger[i]) \in Nat BY <1>4
    <3> HIDE DEF j
    <3> QED BY <3>1, <3>2 DEF Extends
  <2> QED BY <2>1, <2>2
<1>9. db' = d /\ WalGrows' BY <1>1, <1>8, WalStep DEF Recorded
<1> QED BY <1>2, <1>6, <1>7, <1>8, <1>9 DEF row

\* The ledgers, authors and answers of a step that writes a row.
LEMMA RowAuthors ==
    ASSUME IInv, NEW c \in Clients, Busy(c), NEW d, Recorded(c, d), Drafted(c),
           NEW a \in {"ok", "lost"}, outcomes' = [outcomes EXCEPT ![call[c].id] = a]
    PROVE  AuthorInv'
<1> DEFINE j == call[c].instance
           len == Len(Rows(c))
           id == call[c].id
<1>1. /\ len \in Nat /\ Len(db'.ledger[j]) = len + 1 /\ len = Len(db.ledger[j])
      /\ db'.ledger[j][len + 1].author = id
      /\ \A n \in 1 .. len : db'.ledger[j][n] = db.ledger[j][n]
      /\ \A i \in Instances \ {j} : db'.ledger[i] = db.ledger[i]
  <2>1. db'.ledger[j][len + 1] = [proof |-> call[c].proof, author |-> id] BY RowIs
  <2>2. db'.ledger[j][len + 1].author = id BY <2>1
  <2>3. Rows(c) = db.ledger[j] BY DEF Rows
  <2>4. /\ len \in Nat /\ Len(db'.ledger[j]) = len + 1
        /\ \A n \in 1 .. len : db'.ledger[j][n] = Rows(c)[n]
        /\ \A i \in Instances \ {j} : db'.ledger[i] = db.ledger[i]
    BY RowIs
  <2> QED BY <2>2, <2>3, <2>4
<1>2. TypeInv /\ AuthorInv /\ CallsInv BY DEF IInv
<1>3. j \in Instances BY <1>2, CallType
<1>4. outcomes \in Seq(Answers \cup {"pending"}) /\ Len(outcomes) \in Nat
      /\ DOMAIN outcomes = 1 .. Len(outcomes)
  BY <1>2 DEF TypeInv
<1>5. id \in 1 .. Len(outcomes) /\ outcomes[id] = "pending" BY <1>2 DEF CallsInv, CallInv
<1>6. /\ Len(outcomes') = Len(outcomes) /\ outcomes'[id] = a
      /\ \A x \in 1 .. Len(outcomes) : x # id => outcomes'[x] = outcomes[x]
  BY <1>4, <1>5
<1> HIDE DEF j, len, id
\* A row after the step is the new one, or one that was there before.
<1>7. ASSUME NEW i \in Instances, NEW n \in 1 .. Len(db'.ledger[i])
      PROVE  \/ i = j /\ n = len + 1 /\ Author(i, n)' = id
             \/ /\ n \in 1 .. Len(db.ledger[i]) /\ Author(i, n)' = Author(i, n)
                /\ Author(i, n) \in 1 .. Len(outcomes)
                /\ outcomes[Author(i, n)] \in {"ok", "lost"}
                /\ Author(i, n) # id
  <2>1. CASE i = j /\ n = len + 1 BY <2>1, <1>1 DEF Author
  <2>2. CASE ~(i = j /\ n = len + 1)
    <3>1. n \in 1 .. Len(db.ledger[i]) /\ db'.ledger[i][n] = db.ledger[i][n]
      <4>1. CASE i = j BY <4>1, <2>2, <1>1
      <4>2. CASE i # j BY <4>2, <1>1
      <4> QED BY <4>1, <4>2
    <3>2. Author(i, n)' = Author(i, n) BY <3>1 DEF Author
    <3>3. Author(i, n) \in 1 .. Len(outcomes) /\ outcomes[Author(i, n)] \in {"ok", "lost"}
      BY <3>1, <1>2 DEF AuthorInv
    <3>4. Author(i, n) # id BY <3>3, <1>5
    <3> QED BY <3>1, <3>2, <3>3, <3>4
  <2> QED BY <2>1, <2>2
<1>8. ASSUME NEW i \in Instances, NEW n \in 1 .. Len(db'.ledger[i])
      PROVE  Author(i, n)' \in 1 .. Len(outcomes') /\ outcomes'[Author(i, n)'] \in {"ok", "lost"}
  BY <1>5, <1>6, <1>7
<1>9. ASSUME NEW i \in Instances, NEW k \in Instances, NEW n \in 1 .. Len(db'.ledger[i]),
             NEW m \in 1 .. Len(db'.ledger[k]), Author(i, n)' = Author(k, m)'
      PROVE  i = k /\ n = m
  <2>1. CASE Author(i, n)' = id BY <2>1, <1>7, <1>9
  <2>2. CASE Author(i, n)' # id
    <3>1. /\ n \in 1 .. Len(db.ledger[i]) /\ m \in 1 .. Len(db.ledger[k])
          /\ Author(i, n) = Author(k, m)
      BY <2>2, <1>7, <1>9
    <3> QED BY <3>1, <1>2 DEF AuthorInv
  <2> QED BY <2>1, <2>2
<1>10. ASSUME NEW x \in 1 .. Len(outcomes'), outcomes'[x] = "ok"
       PROVE  \E i \in Instances : \E n \in 1 .. Len(db'.ledger[i]) : Author(i, n)' = x
  <2>1. CASE x = id
    <3>0. len \in Nat /\ Len(db'.ledger[j]) = len + 1 /\ db'.ledger[j][len + 1].author = id
      BY <1>1
    <3>1. len + 1 \in 1 .. Len(db'.ledger[j]) BY <3>0
    <3>2. PICK i \in Instances : i = j BY <1>3
    <3>3. db'.ledger[i][len + 1].author = id /\ len + 1 \in 1 .. Len(db'.ledger[i])
      BY <3>0, <3>1, <3>2
    <3>4. \E n \in 1 .. Len(db'.ledger[i]) : db'.ledger[i][n].author = id BY <3>3
    <3> QED BY <3>4, <2>1 DEF Author
  <2>2. CASE x # id
    <3>1. outcomes[x] = "ok" /\ x \in 1 .. Len(outcomes) BY <2>2, <1>6, <1>10
    <3>2. PICK i \in Instances : \E n \in 1 .. Len(db.ledger[i]) : Author(i, n) = x
      BY <3>1, <1>2 DEF AuthorInv
    <3>3. PICK n \in 1 .. Len(db.ledger[i]) : Author(i, n) = x BY <3>2
    <3>4. n \in 1 .. Len(db'.ledger[i]) /\ db'.ledger[i][n] = db.ledger[i][n]
      <4>1. CASE i = j BY <4>1, <1>1
      <4>2. CASE i # j BY <4>2, <1>1
      <4> QED BY <4>1, <4>2
    <3>5. Author(i, n)' = x BY <3>3, <3>4 DEF Author
    <3> QED BY <3>4, <3>5
  <2> QED BY <2>1, <2>2
<1> QED BY <1>8, <1>9, <1>10 DEF AuthorInv

\* A step that writes a row keeps the invariant.
LEMMA RowStep ==
    ASSUME IInv, NEW c \in Clients, Busy(c), OthersKeep(c), storage' = storage,
           pc'[c] = "idle", NEW d, Recorded(c, d), Drafted(c), AloneAtCommit(c),
           NEW a \in {"ok", "lost"}, outcomes' = [outcomes EXCEPT ![call[c].id] = a]
    PROVE  CallsInv' /\ RowLocks' /\ WalGrows' /\ AuthorInv' /\ StateFollowsLedger'
<1> DEFINE j == call[c].instance
           len == Len(Rows(c))
<1>1. /\ db' = d /\ WalGrows' /\ len \in Nat /\ Len(db'.ledger[j]) = len + 1
      /\ db'.ledger[j][len + 1].proof = call[c].proof
      /\ \A i \in Instances \ {j} : db'.ledger[i] = db.ledger[i]
      /\ \A i \in Instances : /\ Extends(db'.ledger[i], db.ledger[i])
                              /\ Len(db'.ledger[i]) \in Nat
  <2>1. db'.ledger[j][len + 1] = [proof |-> call[c].proof, author |-> call[c].id]
    BY RowIs
  <2>2. db'.ledger[j][len + 1].proof = call[c].proof BY <2>1
  <2>3. /\ db' = d /\ WalGrows' /\ len \in Nat /\ Len(db'.ledger[j]) = len + 1
        /\ \A i \in Instances \ {j} : db'.ledger[i] = db.ledger[i]
        /\ \A i \in Instances : /\ Extends(db'.ledger[i], db.ledger[i])
                                /\ Len(db'.ledger[i]) \in Nat
    BY RowIs
  <2> QED BY <2>2, <2>3
<1>2. TypeInv /\ CallsInv /\ RowLocks /\ AuthorInv /\ StateFollowsLedger BY DEF IInv
<1>3. j \in Instances BY <1>2, CallType
<1>4. outcomes \in Seq(Answers \cup {"pending"}) /\ Len(outcomes) \in Nat
      /\ DOMAIN outcomes = 1 .. Len(outcomes)
  BY <1>2 DEF TypeInv
<1>5. Len(outcomes') = Len(outcomes)
      /\ \A x \in 1 .. Len(outcomes) : x # call[c].id => outcomes'[x] = outcomes[x]
  BY <1>4
<1>6. ASSUME NEW e \in Clients \ {c}, Busy(e)
      PROVE  outcomes'[call[e].id] = outcomes[call[e].id]
  <2>1. call[e].id \in 1 .. Len(outcomes) BY <1>2, <1>6 DEF CallsInv, CallInv
  <2>2. call[e].id # call[c].id BY <1>2, <1>6 DEF CallsInv
  <2> QED BY <2>1, <2>2, <1>5
<1>7. ASSUME NEW e \in Clients \ {c}, pc[e] = "commit"
      PROVE  Len(db'.ledger[call[e].instance]) = Len(db.ledger[call[e].instance])
  <2>1. call[e].instance \in Instances BY <1>2, <1>7, CallType DEF Busy
  <2>2. call[e].instance # j BY <1>7 DEF AloneAtCommit
  <2> QED BY <2>1, <2>2, <1>1
<1>8. \A e \in Clients \ {c} : Busy(e)' => CallInv(e)'
  BY <1>1, <1>2, <1>4, <1>5, <1>6, <1>7, OthersInv
<1>9. \A e \in Clients \ {c} : (Busy(e)' <=> Busy(e)) /\ (HoldsRow(e)' <=> HoldsRow(e))
                               /\ call'[e] = call[e]
  BY DEF OthersKeep, Busy, HoldsRow
<1>10. ~Busy(c)' /\ ~HoldsRow(c)' BY DEF Busy, HoldsRow
<1>11. CallsInv' BY <1>2, <1>8, <1>9, <1>10 DEF CallsInv
<1>12. RowLocks' BY <1>2, <1>9, <1>10 DEF RowLocks
<1>13. AuthorInv' BY RowAuthors
<1>14. StateFollowsLedger'
  <2> SUFFICES ASSUME Hardened, NEW i \in Instances PROVE db'.state[i] = LastDecision(i)'
    BY DEF StateFollowsLedger, Hardened
  <2>1. db'.state = [db.state EXCEPT ![j] = call[c].payload.decision]
    BY <1>1 DEF Recorded
  <2>2. db.state \in [Instances -> Decisions \cup {NoDecision}]
    BY <1>2, LedgerType DEF Database
  <2>3. CASE i = j
    <3>1. db'.state[i] = call[c].payload.decision BY <2>1, <2>2, <2>3
    <3>2. call[c].proof.payload = call[c].payload BY DEF Drafted, BuildProof
    <3>3. db'.ledger[i] # <<>> BY <2>3, <1>1
    <3>4. db'.ledger[i][Len(db'.ledger[i])].proof = call[c].proof BY <2>3, <1>1
    <3>5. LastDecision(i)' = call[c].proof.payload.decision BY <3>3, <3>4 DEF LastDecision
    <3> QED BY <3>1, <3>2, <3>5
  <2>4. CASE i # j
    <3>1. db'.state[i] = db.state[i] BY <2>1, <2>2, <2>4
    <3>2. db'.ledger[i] = db.ledger[i] BY <2>4, <1>1
    <3>3. LastDecision(i)' = LastDecision(i) BY <3>2 DEF LastDecision
    <3> QED BY <3>1, <3>3, <1>2 DEF StateFollowsLedger
  <2> QED BY <2>3, <2>4
<1> QED BY <1>1, <1>11, <1>12, <1>13, <1>14

-----------------------------------------------------------------------------
(* The steps, one by one.                                                  *)

\* Where the database is after a step that commits nothing.
LEMMA WalStays ==
    ASSUME WalGrows, wal' = wal
    PROVE  WalGrows' /\ db' = db
BY DEF WalGrows, db

\* A step that commits nothing keeps the invariant.
LEMMA QuietKeeps ==
    ASSUME IInv, NEW c \in Clients, OthersKeep(c), ClientTypes, wal' = wal, Unchanged,
           GoesOn(c), NothingWritten(c),
           IF pc'[c] = "idle" THEN call'[c] = Idle ELSE call'[c] \in Call
    PROVE  IInv'
<1>1. TypeInv /\ WalGrows BY DEF IInv
<1>2. storage' = storage /\ replayed' = replayed BY DEF Unchanged
<1>3. WalGrows' /\ db' = db BY <1>1, WalStays
<1>4. outcomes' \in Seq(Answers \cup {"pending"})
  <2>1. outcomes \in Seq(Answers \cup {"pending"}) BY <1>1 DEF TypeInv
  <2>2. {"raised", "lost"} \subseteq Answers \cup {"pending"} BY DEF Answers
  <2> QED BY <2>1, <2>2 DEF NothingWritten
<1>5. TypeInv' BY <1>1, <1>2, <1>4, TypeParts
<1>6. CallsInv' /\ RowLocks' /\ AuthorInv' /\ StateFollowsLedger'
  BY <1>2, <1>3, QuietStep
<1> QED BY <1>3, <1>5, <1>6 DEF IInv

\* A call that is answered without a row.
LEMMA AnswerStep ==
    ASSUME IInv, NEW c \in Clients, Busy(c), NEW a \in {"raised", "lost"}, Answer(c, a),
           wal' = wal, Unchanged
    PROVE  IInv'
<1>1. TypeInv BY DEF IInv
<1>2. /\ OthersKeep(c) /\ ClientTypes /\ pc'[c] = "idle" /\ call'[c] = Idle
      /\ outcomes' = [outcomes EXCEPT ![call[c].id] = a]
  BY <1>1, AnswerIs
<1>3. ~Busy(c)' BY <1>2 DEF Busy
<1>4. GoesOn(c) /\ NothingWritten(c) BY <1>2, <1>3 DEF GoesOn, NothingWritten
<1> QED BY <1>2, <1>4, QuietKeeps

\* A call that raises.
LEMMA RaiseStep ==
    ASSUME IInv, NEW c \in Clients, Busy(c), Raise(c), Unchanged
    PROVE  IInv'
BY AnswerStep DEF Raise

\* The same proof for the same rows.
LEMMA SameDraft ==
    ASSUME NEW c \in Clients, db'.ledger = db.ledger, call'[c].proof = call[c].proof,
           call'[c].payload = call[c].payload, call'[c].instance = call[c].instance
    PROVE  (Drafted(c)' <=> Drafted(c)) /\ (Current(c)' <=> Current(c))
<1>1. Rows(c)' = Rows(c) BY DEF Rows
<1> QED BY <1>1 DEF Drafted, Current

\* A busy client goes to its next step, with the same rows in the ledger.
LEMMA MoveIs ==
    ASSUME TypeInv, NEW c \in Clients, Busy(c), NEW step \in Steps, Goto(c, step),
           NEW new \in Call, call' = [call EXCEPT ![c] = new]
    PROVE  /\ OthersKeep(c) /\ ClientTypes /\ pc'[c] = step /\ call'[c] = new
           /\ NothingWritten(c)
<1>1. pc' = [pc EXCEPT ![c] = step] /\ outcomes' = outcomes BY DEF Goto
<1> QED BY <1>1 DEF TypeInv, OthersKeep, ClientTypes, NothingWritten

\* A call begins.
LEMMA BeginStep ==
    ASSUME IInv, NEW c \in Clients, Begin(c)
    PROVE  IInv'
<1>1. TypeInv /\ CallsInv /\ RowLocks /\ WalGrows /\ AuthorInv /\ StateFollowsLedger
  BY DEF IInv
<1>2. outcomes \in Seq(Answers \cup {"pending"}) /\ Len(outcomes) \in Nat
      /\ DOMAIN outcomes = 1 .. Len(outcomes)
  BY <1>1 DEF TypeInv
<1> DEFINE id == Len(outcomes) + 1
<1>3. PICK i \in Instances, payload \in Requests :
        call' = [call EXCEPT ![c] =
                   [id |-> id, instance |-> i, payload |-> payload, proof |-> NoProof,
                    attempt |-> 0, auto |-> FALSE, locked |-> 0]]
  BY DEF Begin
<1> DEFINE new == [id |-> id, instance |-> i, payload |-> payload, proof |-> NoProof,
                   attempt |-> 0, auto |-> FALSE, locked |-> 0]
<1>4. payload \in Payload
  <2>1. PICK g \in Governance, dec \in Decisions, m \in DeterminismInputs :
          payload = [decision |-> dec, governance |-> g, determinism |-> DeterminismOf(m)]
    BY DEF Requests
  <2>2. DeterminismOf(m) \in Determinism
    BY DeterminismInputsAssumption DEF DeterminismOf, Determinism
  <2> QED BY <2>1, <2>2 DEF Payload
<1>5. id \in 1 .. MaxCalls BY <1>2, PgLedgerAssumption DEF Begin
<1>6. new \in Call BY <1>4, <1>5, PgLedgerAssumption DEF Call
<1>7. new.id = id /\ new.auto = FALSE OBVIOUS
<1>8. /\ pc[c] = "idle" /\ pc' = [pc EXCEPT ![c] = "latest"]
      /\ outcomes' = Append(outcomes, "pending")
      /\ UNCHANGED <<wal, replayed, storage>>
  BY DEF Begin, Unchanged
<1>9. /\ Len(outcomes') = Len(outcomes) + 1 /\ outcomes'[id] = "pending"
      /\ \A x \in 1 .. Len(outcomes) : outcomes'[x] = outcomes[x]
      /\ outcomes' \in Seq(Answers \cup {"pending"})
  BY <1>2, <1>8, AppendProperties
<1> HIDE DEF new
<1>10. OthersKeep(c) /\ ClientTypes /\ pc'[c] = "latest" /\ call'[c] = new
  BY <1>1, <1>3, <1>6, <1>8 DEF TypeInv, OthersKeep, ClientTypes, Steps, new
<1>11. WalGrows' /\ db' = db BY <1>1, <1>8, WalStays
<1>12. TypeInv' BY <1>1, <1>6, <1>8, <1>9, <1>10, TypeParts
<1> HIDE DEF id
<1>13. CallInv(c)'
  <2>1. call'[c].id \in 1 .. Len(outcomes') BY <1>2, <1>7, <1>9, <1>10 DEF id
  <2>2. outcomes'[call'[c].id] = "pending" BY <1>7, <1>9, <1>10
  <2> QED BY <2>1, <2>2, <1>7, <1>10 DEF CallInv
<1>14. \A i2 \in Instances : /\ Extends(db'.ledger[i2], db.ledger[i2])
                             /\ Len(db'.ledger[i2]) \in Nat
  BY <1>1, <1>11, LedgerType DEF Extends
<1>15. ASSUME NEW d \in Clients, Busy(d)
       PROVE  call[d].id \in 1 .. Len(outcomes) /\ outcomes'[call[d].id] = outcomes[call[d].id]
  BY <1>1, <1>9, <1>15 DEF CallsInv, CallInv
<1>16. \A d \in Clients \ {c} : Busy(d)' => CallInv(d)'
  <2>1. Len(outcomes) <= Len(outcomes') /\ Len(outcomes') \in Nat BY <1>2, <1>9
  <2> QED BY <2>1, <1>1, <1>2, <1>8, <1>10, <1>11, <1>14, <1>15, OthersInv
<1>17. \A d \in Clients \ {c} : (Busy(d)' <=> Busy(d)) /\ (HoldsRow(d)' <=> HoldsRow(d))
                               /\ call'[d] = call[d]
  BY <1>10 DEF OthersKeep, Busy, HoldsRow
<1>18. CallsInv'
  <2>1. \A d \in Clients : Busy(d)' => CallInv(d)' BY <1>13, <1>16
  <2>2. ASSUME NEW d \in Clients \ {c}, Busy(d)' PROVE call'[d].id # call'[c].id
    <3>1. call'[d].id \in 1 .. Len(outcomes) BY <2>2, <1>15, <1>17
    <3>2. call'[c].id = Len(outcomes) + 1 BY <1>7, <1>10 DEF id
    <3> QED BY <3>1, <3>2, <1>2
  <2>3. ASSUME NEW d \in Clients, NEW e \in Clients, d # e, Busy(d)', Busy(e)'
        PROVE  call'[d].id # call'[e].id
    <3>1. CASE d = c BY <3>1, <2>2, <2>3
    <3>2. CASE e = c BY <3>2, <2>2, <2>3
    <3>3. CASE d # c /\ e # c BY <3>3, <2>3, <1>1, <1>17 DEF CallsInv
    <3> QED BY <3>1, <3>2, <3>3
  <2> QED BY <2>1, <2>3 DEF CallsInv
<1>19. RowLocks'
  <2>1. ~HoldsRow(c)' BY <1>10 DEF HoldsRow
  <2> QED BY <2>1, <1>1, <1>17 DEF RowLocks
<1>20. AuthorInv'
  <2>1. \A i2 \in Instances : \A n : Author(i2, n)' = Author(i2, n) BY <1>11 DEF Author
  <2>2. ASSUME NEW i2 \in Instances, NEW n \in 1 .. Len(db'.ledger[i2])
        PROVE  /\ Author(i2, n)' \in 1 .. Len(outcomes')
               /\ outcomes'[Author(i2, n)'] \in {"ok", "lost"}
    <3>1. Author(i2, n) \in 1 .. Len(outcomes) /\ outcomes[Author(i2, n)] \in {"ok", "lost"}
      BY <1>1, <1>11 DEF AuthorInv
    <3> QED BY <3>1, <2>1, <1>2, <1>9
  <2>3. ASSUME NEW i2 \in Instances, NEW j \in Instances, NEW n \in 1 .. Len(db'.ledger[i2]),
               NEW m \in 1 .. Len(db'.ledger[j]), Author(i2, n)' = Author(j, m)'
        PROVE  i2 = j /\ n = m
    BY <2>1, <2>3, <1>1, <1>11 DEF AuthorInv
  <2>4. ASSUME NEW x \in 1 .. Len(outcomes'), outcomes'[x] = "ok"
        PROVE  \E i2 \in Instances : \E n \in 1 .. Len(db'.ledger[i2]) : Author(i2, n)' = x
    <3>1. x # Len(outcomes) + 1 BY <2>4, <1>9 DEF id
    <3>2. x \in 1 .. Len(outcomes) BY <3>1, <1>2, <1>9
    <3>3. outcomes[x] = "ok" BY <3>2, <2>4, <1>9
    <3>4. PICK i2 \in Instances : \E n \in 1 .. Len(db.ledger[i2]) : Author(i2, n) = x
      BY <3>2, <3>3, <1>1 DEF AuthorInv
    <3> QED BY <3>4, <2>1, <1>11
  <2> QED BY <2>2, <2>3, <2>4 DEF AuthorInv
<1>21. StateFollowsLedger' BY <1>1, <1>8, <1>11 DEF StateFollowsLedger, LastDecision, Hardened
<1> QED BY <1>11, <1>12, <1>18, <1>19, <1>20, <1>21 DEF IInv

\* The proofs of rows, and the hash that continues them.
LEMMA ProofsAre ==
    ASSUME NEW rows \in Seq(Row)
    PROVE  /\ Proofs(rows) \in Seq(Proof) /\ Len(Proofs(rows)) = Len(rows)
           /\ LastHash(Proofs(rows)) = HashAt(rows, Len(rows) + 1)
           /\ LastHash(Proofs(rows)) \in Hash
           /\ Len(rows) \in Nat
<1>1. Len(rows) \in Nat /\ DOMAIN rows = 1 .. Len(rows) OBVIOUS
<1>2. \A n \in 1 .. Len(rows) : rows[n].proof \in Proof
  <2> SUFFICES ASSUME NEW n \in 1 .. Len(rows) PROVE rows[n].proof \in Proof OBVIOUS
  <2>1. rows[n] \in Row OBVIOUS
  <2> QED BY <2>1 DEF Row
<1>3. Proofs(rows) \in Seq(Proof) /\ Len(Proofs(rows)) = Len(rows)
      /\ \A n \in 1 .. Len(rows) : Proofs(rows)[n] = rows[n].proof
  BY <1>1, <1>2 DEF Proofs
<1>4. CASE Len(rows) = 0
  <2>1. Proofs(rows) = <<>> BY <1>3, <1>4
  <2> QED BY <2>1, <1>3, <1>4 DEF LastHash, HashAt, genesis_hash, Hash
<1>5. CASE Len(rows) # 0
  <2>1. Proofs(rows) # <<>> BY <1>3, <1>5
  <2>2. Len(rows) \in 1 .. Len(rows) /\ Len(rows) + 1 # 1 /\ (Len(rows) + 1) - 1 = Len(rows)
    BY <1>1, <1>5
  <2>3. LastHash(Proofs(rows)) = rows[Len(rows)].proof.current_hash
    BY <2>1, <2>2, <1>3 DEF LastHash
  <2>4. HashAt(rows, Len(rows) + 1) = rows[Len(rows)].proof.current_hash
    BY <2>2 DEF HashAt
  <2>5. rows[Len(rows)].proof.current_hash \in Hash BY <2>2, <1>2 DEF Proof
  <2> QED BY <2>3, <2>4, <2>5, <1>1, <1>3
<1> QED BY <1>1, <1>3, <1>4, <1>5

\* The caller builds its proof on what the primary or the replica returned.
LEMMA LatestStep ==
    ASSUME IInv, NEW c \in Clients, get_latest_ledger_entry(c)
    PROVE  IInv'
<1>1. TypeInv /\ CallsInv /\ WalGrows BY DEF IInv
<1>2. pc[c] = "latest" /\ Busy(c) /\ Unchanged /\ wal' = wal /\ Goto(c, "lock")
  BY DEF get_latest_ledger_entry, Busy
<1>3. PICK k \in ReadPositions :
        call' = [call EXCEPT ![c].proof =
                   BuildProof(call[c].payload, LastHash(Proofs(wal[k].ledger[call[c].instance])),
                              Len(Proofs(wal[k].ledger[call[c].instance])) + 1, Key)]
  BY DEF get_latest_ledger_entry
<1> DEFINE i == call[c].instance
           rows == wal[k].ledger[i]
           p == BuildProof(call[c].payload, LastHash(Proofs(rows)), Len(Proofs(rows)) + 1, Key)
           new == [call[c] EXCEPT !.proof = p]
<1>4. k \in 1 .. Len(wal) BY <1>1, LedgerType DEF ReadPositions, TypeInv
<1>5. /\ call[c] \in Call /\ i \in Instances /\ call[c].payload \in Payload
      /\ Len(Rows(c)) \in Nat
  BY <1>1, <1>2, CallType
<1>6. rows \in Seq(Row) BY <1>1, <1>4, <1>5, LedgerType
<1>7. /\ Len(Proofs(rows)) = Len(rows) /\ Len(rows) \in Nat
      /\ LastHash(Proofs(rows)) = HashAt(rows, Len(rows) + 1)
      /\ LastHash(Proofs(rows)) \in Hash
  BY <1>6, ProofsAre
<1>8. /\ Len(rows) <= Len(Rows(c))
      /\ \A n \in 1 .. Len(rows) : rows[n] = Rows(c)[n]
  BY <1>1, <1>4, <1>5 DEF WalGrows, Rows
<1>9. HashAt(rows, Len(rows) + 1) = HashAt(Rows(c), Len(rows) + 1)
  <2>1. CASE Len(rows) = 0 BY <2>1 DEF HashAt
  <2>2. CASE Len(rows) # 0
    <3>1. (Len(rows) + 1) - 1 \in 1 .. Len(rows) BY <2>2, <1>7
    <3>2. rows[(Len(rows) + 1) - 1] = Rows(c)[(Len(rows) + 1) - 1] BY <3>1, <1>8
    <3>3. Len(rows) + 1 # 1 BY <2>2, <1>7
    <3> HIDE DEF rows
    <3> QED BY <3>2, <3>3 DEF HashAt
  <2> QED BY <2>1, <2>2
<1>10. p = BuildProof(call[c].payload, HashAt(Rows(c), Len(rows) + 1), Len(rows) + 1, Key)
  BY <1>7, <1>9
<1>11. p \in Proof /\ p.sequence_id = Len(rows) + 1
  <2>1. Len(rows) + 1 \in Nat BY <1>7
  <2>2. p \in Proof BY <2>1, <1>5, <1>7, BuildProofType
  <2> QED BY <2>2, <1>7 DEF BuildProof
<1>12. Len(rows) + 1 \in 1 .. Len(Rows(c)) + 1 BY <1>5, <1>7, <1>8
<1>13. call' = [call EXCEPT ![c] = new] BY <1>3
<1> HIDE DEF p, rows
<1>14. /\ new \in Call /\ new.proof = p /\ new.id = call[c].id /\ new.payload = call[c].payload
       /\ new.instance = i /\ new.auto = call[c].auto
  BY <1>5, <1>11 DEF Call
<1> HIDE DEF new
<1>15. /\ OthersKeep(c) /\ ClientTypes /\ pc'[c] = "lock" /\ call'[c] = new
       /\ NothingWritten(c)
  BY <1>1, <1>2, <1>13, <1>14, MoveIs DEF Steps
<1>16. db' = db /\ outcomes' = outcomes /\ storage' = storage
  BY <1>1, <1>2, WalStays DEF Goto, Unchanged
<1>17. Drafted(c)'
  <2>1. Rows(c)' = Rows(c) BY <1>14, <1>15, <1>16 DEF Rows
  <2> QED BY <2>1, <1>10, <1>11, <1>12, <1>14, <1>15 DEF Drafted
<1>18. CallInv(c) BY <1>1, <1>2 DEF CallsInv
<1>19. CallInv(c)'
  BY <1>14, <1>15, <1>16, <1>17, <1>18 DEF CallInv, Hardened
<1>20. GoesOn(c) BY <1>2, <1>14, <1>15, <1>19 DEF GoesOn, HoldsRow
<1> QED BY <1>2, <1>14, <1>15, <1>20, QuietKeeps

\* The fields of a call that a step does not set.
SameCall(new, old) ==
    /\ new.id = old.id /\ new.instance = old.instance
    /\ new.payload = old.payload /\ new.proof = old.proof

\* A client that has built its proof goes to another step before its commit.
LEMMA MoveStep ==
    ASSUME IInv, NEW c \in Clients, Busy(c), pc[c] # "latest",
           NEW step \in {"lock", "select", "upsert"}, Goto(c, step), Unchanged, wal' = wal,
           NEW new \in Call, call' = [call EXCEPT ![c] = new], SameCall(new, call[c]),
           Hardened => ~new.auto
    PROVE  IInv'
<1>1. TypeInv /\ CallsInv /\ WalGrows BY DEF IInv
<1>2. /\ OthersKeep(c) /\ ClientTypes /\ pc'[c] = step /\ call'[c] = new
      /\ NothingWritten(c)
  BY <1>1, MoveIs DEF Steps
<1>3. db' = db /\ outcomes' = outcomes /\ storage' = storage
  BY <1>1, WalStays DEF Goto, Unchanged
<1>4. CallInv(c) BY <1>1 DEF CallsInv
<1>5. Drafted(c)' BY <1>2, <1>3, <1>4, SameDraft DEF CallInv, SameCall
<1>6. CallInv(c)' BY <1>2, <1>3, <1>4, <1>5 DEF CallInv, Hardened, SameCall
<1>7. GoesOn(c) BY <1>2, <1>6 DEF GoesOn, HoldsRow, SameCall
<1> QED BY <1>2, <1>7, QuietKeeps

\* pg_try_advisory_xact_lock.
LEMMA LockStep ==
    ASSUME IInv, NEW c \in Clients, try_advisory_lock(c)
    PROVE  IInv'
<1>1. TypeInv BY DEF IInv
<1>2. pc[c] = "lock" /\ Busy(c) /\ Unchanged BY DEF try_advisory_lock, Busy
<1>3. CASE Raise(c) BY <1>2, <1>3, RaiseStep
<1>4. CASE ~Raise(c)
  <2>1. PICK auto \in ConnectionModes :
          /\ Goto(c, "select") /\ call' = [call EXCEPT ![c].auto = auto] /\ wal' = wal
    BY <1>4 DEF try_advisory_lock
  <2> DEFINE new == [call[c] EXCEPT !.auto = auto]
  <2>2. auto \in BOOLEAN /\ (Hardened => ~auto) BY DEF ConnectionModes
  <2>3. call[c] \in Call BY <1>1, <1>2, CallType
  <2>4. new \in Call /\ SameCall(new, call[c]) /\ new.auto = auto
    BY <2>2, <2>3 DEF Call, SameCall
  <2>5. call' = [call EXCEPT ![c] = new] BY <2>1
  <2> HIDE DEF new
  <2> QED BY <1>2, <2>1, <2>2, <2>4, <2>5, MoveStep
<1> QED BY <1>3, <1>4

\* The SELECT of the last row, and the check of the proof against it.
LEMMA SelectStep ==
    ASSUME IInv, NEW c \in Clients, select_last(c)
    PROVE  IInv'
<1>1. TypeInv /\ CallsInv BY DEF IInv
<1>2. pc[c] = "select" /\ Busy(c) /\ Unchanged BY DEF select_last, Busy
<1>3. CASE Raise(c) BY <1>2, <1>3, RaiseStep
<1>4. CASE ~Raise(c)
  <2> DEFINE n == IF Hardened THEN LastRow(c) ELSE 0
             new == [call[c] EXCEPT !.locked = n]
  <2>1. Goto(c, "upsert") /\ call' = [call EXCEPT ![c] = new] /\ wal' = wal
    BY <1>4 DEF select_last
  <2>2. LastRow(c) \in Nat
    <3>1. /\ Len(db.ledger[call[c].instance]) \in Nat
          /\ DOMAIN db.ledger[call[c].instance] = 1 .. Len(db.ledger[call[c].instance])
      BY <1>1, <1>2, CallType DEF Rows
    <3> DEFINE ids == (IF Hardened THEN DOMAIN db.ledger[call[c].instance] \ RowsLocked(c)
                       ELSE DOMAIN db.ledger[call[c].instance]) \cup {0}
    <3>2. ids \subseteq 0 .. Len(db.ledger[call[c].instance]) /\ ids # {} BY <3>1
    <3>3. LastRow(c) = Max(ids) BY DEF LastRow
    <3> HIDE DEF ids
    <3> QED BY <3>1, <3>2, <3>3, MaxType
  <2>3. n \in Nat BY <2>2
  <2>4. call[c] \in Call BY <1>1, <1>2, CallType
  <2> HIDE DEF n
  <2>5. new \in Call /\ SameCall(new, call[c]) /\ new.auto = call[c].auto
    BY <2>3, <2>4 DEF Call, SameCall
  <2>6. Hardened => ~call[c].auto BY <1>1, <1>2 DEF CallsInv, CallInv
  <2> HIDE DEF new
  <2> QED BY <1>2, <2>1, <2>5, <2>6, MoveStep
<1> QED BY <1>3, <1>4

\* The upsert of the instances row, which waits for the transactions that hold it.
LEMMA UpsertStep ==
    ASSUME IInv, NEW c \in Clients, upsert_instance(c)
    PROVE  IInv'
<1>1. TypeInv /\ CallsInv /\ WalGrows BY DEF IInv
<1>2. /\ pc[c] = "upsert" /\ Busy(c) /\ Unchanged /\ Goto(c, "insert") /\ call' = call
      /\ WaitsFor(c) = {}
  BY DEF upsert_instance, Busy
<1>3. /\ OthersKeep(c) /\ ClientTypes /\ pc'[c] = "insert" /\ outcomes' = outcomes
      /\ storage' = storage /\ replayed' = replayed
  BY <1>1, <1>2 DEF Goto, OthersKeep, ClientTypes, TypeInv, Steps, Unchanged
<1>4. CallInv(c) /\ call[c] \in Call BY <1>1, <1>2, CallType DEF CallsInv
<1>5. db \in Database BY <1>1, LedgerType
<1>6. WithState(db, c) \in Database /\ WithState(db, c).ledger = db.ledger
  BY <1>1, <1>2, <1>5, WriteTypes
<1>7. /\ wal' = wal \/ \E d \in Database : wal' = Append(wal, d)
      /\ WalGrows' /\ db'.ledger = db.ledger /\ (Hardened => db'.state = db.state)
  <2>1. CASE call[c].auto
    <3>1. wal' = Append(wal, WithState(db, c)) BY <2>1 DEF upsert_instance
    <3>2. \A i \in Instances : Extends(db.ledger[i], db.ledger[i])
      BY <1>1, LedgerType DEF Extends
    <3>3. ~Hardened BY <2>1, <1>4 DEF CallInv
    <3>4. WalGrows' /\ db' = WithState(db, c) BY <3>1, <3>2, <1>1, <1>6, WalStep
    <3> QED BY <3>1, <3>3, <3>4, <1>6
  <2>2. CASE ~call[c].auto
    <3>1. wal' = wal BY <2>2 DEF upsert_instance
    <3> QED BY <3>1, <1>1, WalStays
  <2> QED BY <2>1, <2>2
<1>8. TypeInv'
  <2>1. outcomes' \in Seq(Answers \cup {"pending"}) BY <1>1, <1>3 DEF TypeInv
  <2> QED BY <2>1, <1>1, <1>2, <1>3, <1>4, <1>7, TypeParts
<1>9. CallInv(c)'
  <2>1. Drafted(c)' BY <1>2, <1>4, <1>7, SameDraft DEF CallInv
  <2> QED BY <2>1, <1>2, <1>3, <1>4 DEF CallInv, Hardened
<1>10. ASSUME NEW d \in Clients \ {c}, HoldsRow(d)
       PROVE  call[d].instance # call[c].instance
  <2>1. d \notin InstanceRowHolders(c) BY <1>2 DEF WaitsFor
  <2>2. HoldsLocks(d) /\ pc[d] \in {"insert", "commit"}
    BY <1>10 DEF HoldsLocks, HoldsRow, InTransaction
  <2> QED BY <2>1, <2>2 DEF InstanceRowHolders
<1>11. GoesOn(c) /\ NothingWritten(c)
  BY <1>2, <1>3, <1>9, <1>10 DEF GoesOn, NothingWritten
<1>12. CallsInv' /\ RowLocks' /\ AuthorInv' /\ StateFollowsLedger'
  BY <1>3, <1>7, <1>11, QuietStep
<1> QED BY <1>7, <1>8, <1>12 DEF IInv

\* A row that is committed, by itself or with the state of its instance.
LEMMA RecordStep ==
    ASSUME IInv, NEW c \in Clients, pc[c] \in {"insert", "commit"}, Unchanged,
           AloneAtCommit(c), NEW a \in {"ok", "lost"}, Answer(c, a),
           \/ wal' = Append(wal, WithRow(db, c)) /\ ~Hardened
           \/ wal' = Append(wal, WithRow(WithState(db, c), c))
    PROVE  IInv' /\ \E d : Recorded(c, d)
<1>1. TypeInv /\ CallsInv BY DEF IInv
<1>2. Busy(c) BY DEF Busy
<1>3. CallInv(c) BY <1>1, <1>2 DEF CallsInv
<1>4. Drafted(c) BY <1>3 DEF CallInv
<1>5. call[c].proof \in Proof BY <1>4 DEF Drafted
<1>6. /\ OthersKeep(c) /\ ClientTypes /\ pc'[c] = "idle" /\ call'[c] = Idle
      /\ outcomes' = [outcomes EXCEPT ![call[c].id] = a]
  BY <1>1, AnswerIs
<1>7. storage' = storage /\ replayed' = replayed BY DEF Unchanged
<1>8. PICK d : Recorded(c, d)
  <2>1. db \in Database BY <1>1, LedgerType
  <2>2. CASE wal' = Append(wal, WithRow(db, c)) /\ ~Hardened
    <3>1. Recorded(c, WithRow(db, c))
      BY <2>1, <2>2, <1>1, <1>2, <1>5, WriteTypes DEF Recorded
    <3> QED BY <3>1
  <2>3. CASE wal' = Append(wal, WithRow(WithState(db, c), c))
    <3>1. /\ WithState(db, c) \in Database /\ WithState(db, c).ledger = db.ledger
          /\ WithState(db, c).state = [db.state EXCEPT ![call[c].instance] =
                                          call[c].payload.decision]
      BY <2>1, <1>1, <1>2, WriteTypes
    <3>2. /\ WithRow(WithState(db, c), c) \in Database
          /\ WithRow(WithState(db, c), c).state = WithState(db, c).state
          /\ WithRow(WithState(db, c), c).ledger =
                 [WithState(db, c).ledger EXCEPT ![call[c].instance] =
                    Append(@, [proof |-> call[c].proof, author |-> call[c].id])]
      BY <3>1, <1>1, <1>2, <1>5, WriteTypes
    <3>3. Recorded(c, WithRow(WithState(db, c), c)) BY <2>3, <3>1, <3>2 DEF Recorded
    <3> QED BY <3>3
  <2> QED BY <2>2, <2>3
<1>9. CallsInv' /\ RowLocks' /\ WalGrows' /\ AuthorInv' /\ StateFollowsLedger'
  BY <1>2, <1>4, <1>6, <1>7, <1>8, RowStep
<1>10. TypeInv'
  <2>0. a \in Answers \cup {"pending"} BY DEF Answers
  <2>3. outcomes \in Seq(Answers \cup {"pending"}) BY <1>1 DEF TypeInv
  <2>4. outcomes' = [outcomes EXCEPT ![call[c].id] = a] BY <1>6
  <2>5. call[c].id \in 1 .. Len(outcomes) BY <1>3 DEF CallInv
  <2>1. outcomes' \in Seq(Answers \cup {"pending"})
    BY <2>0, <2>3, <2>4, <2>5, ExceptSeq
  <2>2. \E x \in Database : wal' = Append(wal, x) BY <1>8 DEF Recorded
  <2> QED BY <2>1, <2>2, <1>1, <1>6, <1>7, TypeParts
<1> QED BY <1>8, <1>9, <1>10 DEF IInv

\* The next row of the ledger is free, and no open transaction has taken it.
LEMMA FreeRow ==
    ASSUME IInv, NEW c \in Clients, pc[c] = "insert", ~SequenceTaken(c)
    PROVE  Current(c) /\ (WaitsFor(c) = {} => AloneAtCommit(c))
<1>1. TypeInv /\ CallsInv BY DEF IInv
<1>2. Busy(c) BY DEF Busy
<1>3. Drafted(c) BY <1>1, <1>2 DEF CallsInv, CallInv
<1>4. Len(Rows(c)) \in Nat /\ DOMAIN Rows(c) = 1 .. Len(Rows(c)) BY <1>1, <1>2, CallType
<1>5. call[c].proof.sequence_id \notin 1 .. Len(Rows(c)) BY <1>4 DEF SequenceTaken, Rows
<1>6. call[c].proof.sequence_id = Len(Rows(c)) + 1 BY <1>3, <1>4, <1>5 DEF Drafted
<1>7. ASSUME WaitsFor(c) = {}, NEW d \in Clients \ {c}, pc[d] = "commit",
             call[d].instance = call[c].instance
      PROVE  FALSE
  <2>1. ~call[d].auto /\ Current(d) BY <1>1, <1>7 DEF CallsInv, CallInv, Busy
  <2>2. call[d].proof.sequence_id = call[c].proof.sequence_id
    BY <2>1, <1>6, <1>7 DEF Current, Rows
  <2>3. d \in UniqueKeyHolders(c)
    BY <2>1, <2>2, <1>7 DEF UniqueKeyHolders, InstanceRowHolders, HoldsLocks, InTransaction
  <2>4. WaitsFor(c) = UniqueKeyHolders(c) BY DEF WaitsFor
  <2> QED BY <2>3, <2>4, <1>7
<1> QED BY <1>6, <1>7 DEF Current, AloneAtCommit

\* At a commit the client is alone with the row of its instance.
LEMMA AloneWithRow ==
    ASSUME IInv, NEW c \in Clients, pc[c] = "commit"
    PROVE  AloneAtCommit(c)
<1>1. CallsInv /\ RowLocks BY DEF IInv
<1>2. \A d \in Clients : pc[d] = "commit" => HoldsRow(d)
  BY <1>1 DEF CallsInv, CallInv, HoldsRow, Busy
<1> QED BY <1>1, <1>2 DEF AloneAtCommit, RowLocks

\* The INSERT of the row, which waits for one with the same key.
LEMMA InsertStep ==
    ASSUME IInv, NEW c \in Clients, insert_row(c)
    PROVE  IInv'
<1>1. TypeInv /\ CallsInv /\ RowLocks /\ WalGrows BY DEF IInv
<1>2. pc[c] = "insert" /\ Busy(c) /\ Unchanged /\ WaitsFor(c) = {}
  BY DEF insert_row, Busy
<1>3. CallInv(c) BY <1>1, <1>2 DEF CallsInv
<1>4. CASE SequenceTaken(c) BY <1>2, <1>4, RaiseStep DEF insert_row
<1>5. CASE ~SequenceTaken(c) /\ call[c].auto
  <2>1. wal' = Append(wal, WithRow(db, c)) /\ Answer(c, "ok") BY <1>5 DEF insert_row
  <2>2. ~Hardened BY <1>3, <1>5 DEF CallInv
  <2>3. AloneAtCommit(c) BY <1>2, <1>5, FreeRow
  <2> QED BY <2>1, <2>2, <2>3, <1>2, RecordStep
<1>6. CASE ~SequenceTaken(c) /\ ~call[c].auto
  <2>1. Goto(c, "commit") /\ wal' = wal /\ call' = call BY <1>6 DEF insert_row
  <2>2. /\ OthersKeep(c) /\ ClientTypes /\ pc'[c] = "commit" /\ outcomes' = outcomes
        /\ storage' = storage
    BY <2>1, <1>1, <1>2 DEF Goto, OthersKeep, ClientTypes, TypeInv, Steps, Unchanged
  <2>3. db' = db BY <2>1, <1>1, WalStays
  <2>4. Drafted(c)' /\ Current(c)'
    BY <2>1, <2>3, <1>2, <1>3, <1>6, SameDraft, FreeRow DEF CallInv
  <2>5. CallInv(c)' BY <2>1, <2>2, <2>4, <1>3, <1>6 DEF CallInv, Hardened
  <2>6. \A d \in Clients \ {c} : HoldsRow(d) => call[d].instance # call'[c].instance
    BY <2>1, <1>1, <1>2, <1>6 DEF RowLocks, HoldsRow
  <2>7. GoesOn(c) /\ NothingWritten(c)
    BY <2>1, <2>2, <2>5, <2>6, <1>2 DEF GoesOn, NothingWritten
  <2>8. call'[c] \in Call BY <2>1, <1>1, <1>2, CallType
  <2> QED BY <2>1, <2>2, <2>7, <2>8, <1>2, QuietKeeps
<1> QED BY <1>4, <1>5, <1>6

\* The COMMIT.
LEMMA CommitStep ==
    ASSUME IInv, NEW c \in Clients, commit(c)
    PROVE  IInv'
<1>1. pc[c] = "commit" /\ Unchanged /\ Answer(c, "ok")
      /\ wal' = Append(wal, WithRow(WithState(db, c), c))
  BY DEF commit
<1> QED BY <1>1, AloneWithRow, RecordStep

\* A server error: the transaction is gone, and tried again or given up.
LEMMA TransientStep ==
    ASSUME IInv, NEW c \in Clients, transient_error(c)
    PROVE  IInv'
<1>1. TypeInv /\ CallsInv BY DEF IInv
<1>2. Busy(c) /\ pc[c] # "latest" /\ Unchanged /\ wal' = wal
  BY DEF transient_error, _with_retry, InTransaction, Busy
<1>3. CASE Hardened /\ call[c].attempt + 1 < RetryMax
  <2> DEFINE new == [call[c] EXCEPT !.attempt = call[c].attempt + 1, !.locked = 0]
  <2>1. call' = [call EXCEPT ![c] = new] /\ Goto(c, "lock")
    <3>1. call' = [call EXCEPT ![c].attempt = @ + 1, ![c].locked = 0] /\ Goto(c, "lock")
      BY <1>3 DEF transient_error, _with_retry, Goto
    <3>2. [call EXCEPT ![c].attempt = @ + 1, ![c].locked = 0] = [call EXCEPT ![c] = new]
      BY <1>1 DEF TypeInv
    <3> QED BY <3>1, <3>2
  <2>2. call[c] \in Call BY <1>1, <1>2, CallType
  <2>3. call[c].attempt + 1 \in 0 .. RetryMax
    BY <2>2, <1>3, PgLedgerAssumption DEF Call
  <2>4. new \in Call /\ SameCall(new, call[c]) /\ new.auto = call[c].auto
    BY <2>2, <2>3 DEF Call, SameCall
  <2>5. Hardened => ~call[c].auto BY <1>1, <1>2 DEF CallsInv, CallInv
  <2> HIDE DEF new
  <2> QED BY <2>1, <2>4, <2>5, <1>2, MoveStep
<1>4. CASE ~(Hardened /\ call[c].attempt + 1 < RetryMax)
  <2>1. Answer(c, "raised") BY <1>4 DEF transient_error, _with_retry
  <2> QED BY <2>1, <1>2, AnswerStep
<1> QED BY <1>3, <1>4

\* A lost connection, with or without the commit under way.
LEMMA LostStep ==
    ASSUME IInv, NEW c \in Clients, connection_lost(c)
    PROVE  IInv'
<1>1. CallsInv BY DEF IInv
<1>2. Busy(c) /\ Unchanged /\ Answer(c, "lost") BY DEF connection_lost, Busy
<1>3. CASE wal' = wal BY <1>2, <1>3, AnswerStep
<1>4. CASE pc[c] = "commit" /\ wal' = Append(wal, WithRow(WithState(db, c), c))
  BY <1>2, <1>4, AloneWithRow, RecordStep
<1>5. CASE /\ pc[c] = "insert" /\ call[c].auto
           /\ WaitsFor(c) = {} /\ ~SequenceTaken(c)
           /\ wal' = Append(wal, WithRow(db, c))
  <2>1. ~Hardened BY <1>1, <1>2, <1>5 DEF CallsInv, CallInv
  <2>2. AloneAtCommit(c) BY <1>5, FreeRow
  <2> QED BY <2>1, <2>2, <1>2, <1>5, RecordStep
<1> QED BY <1>3, <1>4, <1>5 DEF connection_lost

\* The replica replays a commit.
LEMMA ReplicateStep ==
    ASSUME IInv, Replicate
    PROVE  IInv'
<1>1. TypeInv /\ CallsInv /\ RowLocks /\ WalGrows /\ AuthorInv /\ StateFollowsLedger
  BY DEF IInv
<1>2. UNCHANGED <<wal, storage, pc, call, outcomes>> BY DEF Replicate
<1>3. db' = db /\ WalGrows' BY <1>1, <1>2, WalStays
<1>4. TypeInv'
  <2>1. replayed' \in 1 .. Len(wal') BY <1>1, <1>2 DEF Replicate, TypeInv
  <2> QED BY <2>1, <1>1, <1>2 DEF TypeInv, Busy
<1>5. CallsInv'
  BY <1>1, <1>2, <1>3 DEF CallsInv, CallInv, Busy, Drafted, Current, Rows, Hardened
<1>6. RowLocks' BY <1>1, <1>2 DEF RowLocks, HoldsRow
<1>7. AuthorInv' BY <1>1, <1>2, <1>3 DEF AuthorInv, Author
<1>8. StateFollowsLedger' BY <1>1, <1>2, <1>3 DEF StateFollowsLedger, LastDecision, Hardened
<1> QED BY <1>3, <1>4, <1>5, <1>6, <1>7, <1>8 DEF IInv

-----------------------------------------------------------------------------
(* What follows.                                                           *)

\* Nothing is stored at first.
LEMMA InitStep == Init => IInv
<1> SUFFICES ASSUME Init PROVE IInv OBVIOUS
<1> DEFINE empty == [ledger |-> [i \in Instances |-> <<>>],
                     state |-> [i \in Instances |-> NoDecision]]
<1>1. wal = <<empty>> /\ Len(wal) = 1 /\ db = empty BY DEF Init, db
<1>2. empty \in Database BY DEF Database
<1>3. \A i \in Instances : /\ db.ledger[i] = <<>> /\ Len(db.ledger[i]) = 0
                           /\ db.state[i] = NoDecision
  BY <1>1
<1>4. \A c \in Clients : ~Busy(c) /\ ~HoldsRow(c) BY DEF Init, Busy, HoldsRow
<1> HIDE DEF empty
<1>5. TypeInv
  <2>1. wal \in Seq(Database) BY <1>1, <1>2
  <2>2. replayed \in 1 .. Len(wal) BY <1>1 DEF Init
  <2>3. outcomes \in Seq(Answers \cup {"pending"}) BY DEF Init
  <2>4. pc \in [Clients -> Steps] /\ call \in [Clients -> Call \cup {Idle}]
    BY DEF Init, Steps
  <2>5. \A c \in Clients : call[c] = Idle BY DEF Init
  <2>6. storage.class \in {"PostgreSQLStorage", "PostgreSQLHardenedStorage"} BY DEF Init
  <2> QED BY <2>1, <2>2, <2>3, <2>4, <2>5, <2>6, <1>1, <1>4 DEF TypeInv
<1>6. CallsInv /\ RowLocks BY <1>4 DEF CallsInv, RowLocks
<1>7. WalGrows
  <2>1. \A k \in 1 .. Len(wal) : wal[k] = db BY <1>1 DEF db
  <2> QED BY <2>1, <1>3 DEF WalGrows
<1>8. AuthorInv
  <2>1. Len(outcomes) = 0 BY DEF Init
  <2> QED BY <2>1, <1>3 DEF AuthorInv
<1>9. StateFollowsLedger BY <1>3 DEF StateFollowsLedger, LastDecision
<1> QED BY <1>5, <1>6, <1>7, <1>8, <1>9 DEF IInv

\* Every step keeps the invariant.
LEMMA NextStep == IInv /\ [Next]_vars => IInv'
<1> SUFFICES ASSUME IInv, [Next]_vars PROVE IInv' OBVIOUS
<1>1. CASE UNCHANGED vars
  <2>1. UNCHANGED <<wal, replayed, storage, pc, call, outcomes>> BY <1>1 DEF vars
  <2>2. db' = db /\ WalGrows' BY <2>1, WalStays DEF IInv
  <2>3. TypeInv' BY <2>1 DEF IInv, TypeInv, Busy
  <2>4. CallsInv'
    BY <2>1, <2>2 DEF IInv, CallsInv, CallInv, Busy, Drafted, Current, Rows, Hardened
  <2>5. RowLocks' BY <2>1 DEF IInv, RowLocks, HoldsRow
  <2>6. AuthorInv' BY <2>1, <2>2 DEF IInv, AuthorInv, Author
  <2>7. StateFollowsLedger'
    BY <2>1, <2>2 DEF IInv, StateFollowsLedger, LastDecision, Hardened
  <2> QED BY <2>2, <2>3, <2>4, <2>5, <2>6, <2>7 DEF IInv
<1>2. ASSUME NEW c \in Clients, pool_exhausted(c) PROVE IInv'
  BY <1>2, RaiseStep DEF pool_exhausted, Busy
<1>3. CASE Next
  BY <1>2, <1>3, BeginStep, LatestStep, LockStep, SelectStep, UpsertStep, InsertStep,
     CommitStep, TransientStep, LostStep, ReplicateStep DEF Next
<1> QED BY <1>1, <1>3

\* The invariant is an invariant.
THEOREM Invariant == Spec => []IInv
BY InitStep, NextStep, PTL DEF Spec

\* The row and the state of an instance stand or fall together in the hardened
\* storage, and no append waits for one that waits itself.
THEOREM StoragesAreConsistent == Spec => []PgInv
<1>1. IInv => PgInv
  <2> SUFFICES ASSUME IInv PROVE PgInv OBVIOUS
  <2>1. TypeInv /\ RowLocks /\ StateFollowsLedger BY DEF IInv
  <2>2. TypeOK
    <3>1. ASSUME NEW c \in Clients
          PROVE  /\ pc[c] \in {"idle", "latest", "lock", "select",
                               "upsert", "insert", "commit"}
                 /\ call[c] \in Call \cup {Idle}
                 /\ pc[c] = "idle" <=> call[c] = Idle
      <4>1. pc[c] \in Steps /\ call[c] \in Call \cup {Idle} BY <2>1 DEF TypeInv
      <4>2. ASSUME pc[c] # "idle" PROVE call[c] # Idle
        <5>1. call[c] \in Call /\ call[c].id \in 1 .. MaxCalls
          BY <4>2, <2>1 DEF TypeInv, Busy, Call
        <5>2. Idle.id = 0 BY DEF Idle
        <5> QED BY <5>1, <5>2, PgLedgerAssumption
      <4>3. pc[c] = "idle" => call[c] = Idle BY <2>1 DEF TypeInv, Busy
      <4> QED BY <4>1, <4>2, <4>3 DEF Steps
    <3>2. \A n \in DOMAIN outcomes : outcomes[n] \in Answers \cup {"pending"}
      BY <2>1 DEF TypeInv
    <3>3. wal \in Seq(Database) /\ replayed \in 1 .. Len(wal) BY <2>1 DEF TypeInv
    <3> QED BY <3>1, <3>2, <3>3 DEF TypeOK
  <2>3. ASSUME NEW c \in Clients, NEW d \in Clients, d \in WaitsFor(c)
        PROVE  WaitsFor(d) = {}
    <3>1. d \in InstanceRowHolders(c)
      BY <2>3 DEF WaitsFor, UniqueKeyHolders
    <3>2. HoldsRow(d) BY <3>1 DEF InstanceRowHolders, HoldsLocks, HoldsRow
    <3>3. CASE pc[d] # "insert" BY <3>2, <3>3 DEF HoldsRow, WaitsFor
    <3>4. CASE pc[d] = "insert"
      <4> SUFFICES ASSUME NEW e \in UniqueKeyHolders(d) PROVE FALSE
        BY <3>4 DEF WaitsFor
      <4>1. /\ e \in Clients /\ e # d /\ HoldsRow(e)
            /\ call[e].instance = call[d].instance
        BY DEF UniqueKeyHolders, InstanceRowHolders, HoldsLocks, HoldsRow
      <4> QED BY <4>1, <3>2, <2>1 DEF RowLocks
    <3> QED BY <3>3, <3>4
  <2>4. WaitsAreShort BY <2>3 DEF WaitsAreShort, WaitsFor, UniqueKeyHolders, InstanceRowHolders
  <2> QED BY <2>1, <2>2, <2>4 DEF PgInv
<1> QED BY <1>1, Invariant, PTL

\* append_ledger_entry tells the truth: a call that returned has written one row,
\* retries included, one that raised none, and one that was cut off at most one.
THEOREM AnswersTellTheTruth == Spec => []AnswersAreTrue
<1>1. IInv => AnswersAreTrue
  <2> SUFFICES ASSUME IInv, NEW id \in DOMAIN outcomes
               PROVE  LET written == Cardinality(Authored(id))
                      IN  CASE outcomes[id] = "ok" -> written = 1
                            [] outcomes[id] = "lost" -> written <= 1
                            [] OTHER -> written = 0
    BY DEF AnswersAreTrue
  <2>1. TypeInv /\ AuthorInv BY DEF IInv
  <2>2. id \in 1 .. Len(outcomes) BY <2>1 DEF TypeInv
  <2>3. \A i \in Instances : DOMAIN db.ledger[i] = 1 .. Len(db.ledger[i])
    BY <2>1, LedgerType
  <2>4. \A p : p \in Authored(id) <=>
          \E i \in Instances : \E n \in 1 .. Len(db.ledger[i]) :
             p = <<i, n>> /\ Author(i, n) = id
    BY <2>3 DEF Authored, Author
  <2>5. ASSUME NEW p \in Authored(id) PROVE Authored(id) = {p}
    <3>1. PICK i \in Instances : \E n \in 1 .. Len(db.ledger[i]) :
             p = <<i, n>> /\ Author(i, n) = id
      BY <2>4, <2>5
    <3>2. PICK n \in 1 .. Len(db.ledger[i]) : p = <<i, n>> /\ Author(i, n) = id
      BY <3>1
    <3>3. ASSUME NEW q \in Authored(id) PROVE q = p
      <4>1. PICK j \in Instances : \E m \in 1 .. Len(db.ledger[j]) :
               q = <<j, m>> /\ Author(j, m) = id
        BY <2>4, <3>3
      <4>2. PICK m \in 1 .. Len(db.ledger[j]) : q = <<j, m>> /\ Author(j, m) = id
        BY <4>1
      <4>3. i = j /\ n = m BY <3>2, <4>2, <2>1 DEF AuthorInv
      <4> QED BY <3>2, <4>2, <4>3
    <3> QED BY <2>5, <3>3
  <2>6. ASSUME NEW p \in Authored(id) PROVE Cardinality(Authored(id)) = 1
    BY <2>5, <2>6, FS_Singleton
  <2>7. ASSUME Authored(id) = {} PROVE Cardinality(Authored(id)) = 0
    BY <2>7, FS_EmptySet
  <2>8. ASSUME NEW p \in Authored(id) PROVE outcomes[id] \in {"ok", "lost"}
    BY <2>1, <2>4, <2>8 DEF AuthorInv
  <2>9. ASSUME outcomes[id] = "ok" PROVE Authored(id) # {}
    <3>1. PICK i \in Instances : \E n \in 1 .. Len(db.ledger[i]) : Author(i, n) = id
      BY <2>1, <2>2, <2>9 DEF AuthorInv
    <3>2. PICK n \in 1 .. Len(db.ledger[i]) : Author(i, n) = id BY <3>1
    <3>3. <<i, n>> \in Authored(id) BY <3>2, <2>4
    <3> QED BY <3>3
  <2>10. CASE outcomes[id] = "ok" BY <2>6, <2>9, <2>10
  <2>11. CASE outcomes[id] = "lost"
    <3>1. Cardinality(Authored(id)) = 1 \/ Cardinality(Authored(id)) = 0 BY <2>6, <2>7
    <3> QED BY <3>1, <2>11
  <2>12. CASE outcomes[id] \notin {"ok", "lost"} BY <2>7, <2>8, <2>12
  <2> QED BY <2>10, <2>11, <2>12
<1> QED BY <1>1, Invariant, PTL

\* HashChain and PgLedger have the same proof format.
LEMMA ChainFormat ==
    /\ Chain!Payload = Payload
    /\ \A chain : Chain!LastHash(chain) = LastHash(chain)
    /\ \A payload, h, n, key :
          Chain!BuildProof(payload, h, n, key) = BuildProof(payload, h, n, key)
<1>1. Chain!Payload = Payload
  BY DEF Chain!Payload, Payload, Chain!Governance, Governance,
         Chain!Determinism, Determinism, Chain!DeterminismModes, DeterminismModes,
         Chain!STRICT, STRICT, Chain!SEEDED, SEEDED, Chain!RECORDED, RECORDED
<1>2. \A chain : Chain!LastHash(chain) = LastHash(chain)
  BY DEF Chain!LastHash, LastHash, Chain!genesis_hash, genesis_hash
<1>3. \A payload, h, n, key :
          Chain!BuildProof(payload, h, n, key) = BuildProof(payload, h, n, key)
  BY DEF Chain!BuildProof, BuildProof, Chain!canonical_hash, canonical_hash,
         Chain!sign_hash, sign_hash
<1> QED BY <1>1, <1>2, <1>3

\* The proofs of one row more.
LEMMA ProofsAppend ==
    ASSUME NEW rows \in Seq(Row), NEW row \in Row
    PROVE  Proofs(Append(rows, row)) = Append(Proofs(rows), row.proof)
<1>1. Len(rows) \in Nat /\ DOMAIN rows = 1 .. Len(rows) OBVIOUS
<1>2. Proofs(rows) \in Seq(Proof) /\ Len(Proofs(rows)) = Len(rows) BY ProofsAre
<1>3. row.proof \in Proof BY DEF Row
<1>4. /\ DOMAIN Append(rows, row) = 1 .. Len(rows) + 1
      /\ Append(rows, row)[Len(rows) + 1] = row
      /\ \A n \in 1 .. Len(rows) : Append(rows, row)[n] = rows[n]
  BY <1>1, AppendProperties
<1>5. /\ Append(Proofs(rows), row.proof) \in Seq(Proof)
      /\ DOMAIN Append(Proofs(rows), row.proof) = 1 .. Len(rows) + 1
      /\ Append(Proofs(rows), row.proof)[Len(rows) + 1] = row.proof
      /\ \A n \in 1 .. Len(rows) : Append(Proofs(rows), row.proof)[n] = Proofs(rows)[n]
  BY <1>1, <1>2, <1>3, AppendProperties
<1>6. \A n \in 1 .. Len(rows) : Proofs(rows)[n] = rows[n].proof BY <1>1 DEF Proofs
<1>7. \A n \in 1 .. Len(rows) + 1 : n \in 1 .. Len(rows) \/ n = Len(rows) + 1 BY <1>1
<1>8. ASSUME NEW n \in 1 .. Len(rows) + 1
      PROVE  Append(rows, row)[n].proof = Append(Proofs(rows), row.proof)[n]
  BY <1>4, <1>5, <1>6, <1>7
<1>9. Proofs(Append(rows, row)) = [n \in 1 .. Len(rows) + 1 |-> Append(rows, row)[n].proof]
  BY <1>4 DEF Proofs
<1>10. Append(Proofs(rows), row.proof) =
         [n \in 1 .. Len(rows) + 1 |-> Append(Proofs(rows), row.proof)[n]]
  BY <1>5
<1> QED BY <1>8, <1>9, <1>10

\* The only steps that change the ledger write one row that continues it.
LEMMA OnlyRecords ==
    ASSUME IInv, [Next]_vars
    PROVE  \/ db'.ledger = db.ledger
           \/ \E c \in Clients : /\ Busy(c) /\ Drafted(c) /\ Current(c)
                                 /\ \E d : Recorded(c, d)
<1> DEFINE Goal == \/ db'.ledger = db.ledger
                   \/ \E c \in Clients : /\ Busy(c) /\ Drafted(c) /\ Current(c)
                                         /\ \E d : Recorded(c, d)
<1> SUFFICES Goal OBVIOUS
<1>1. TypeInv /\ CallsInv /\ WalGrows BY DEF IInv
<1>2. ASSUME wal' = wal PROVE Goal BY <1>2 DEF db
<1>3. ASSUME NEW c \in Clients, Busy(c), wal' = Append(wal, WithState(db, c)) PROVE Goal
  <2>1. WithState(db, c) \in Database /\ WithState(db, c).ledger = db.ledger
    BY <1>1, <1>3, WriteTypes, LedgerType
  <2>2. \A i \in Instances : Extends(WithState(db, c).ledger[i], db.ledger[i])
    BY <2>1, <1>1, LedgerType DEF Extends
  <2>3. db' = WithState(db, c) BY <2>1, <2>2, <1>1, <1>3, WalStep
  <2> QED BY <2>1, <2>3
<1>4. ASSUME NEW c \in Clients, pc[c] = "commit", Unchanged, NEW a \in {"ok", "lost"},
             Answer(c, a), wal' = Append(wal, WithRow(WithState(db, c), c))
      PROVE  Goal
  <2>1. Busy(c) /\ Drafted(c) /\ Current(c) BY <1>1, <1>4 DEF CallsInv, CallInv, Busy
  <2>2. \E d : Recorded(c, d) BY <1>4, AloneWithRow, RecordStep
  <2> QED BY <2>1, <2>2
<1>5. ASSUME NEW c \in Clients, pc[c] = "insert", Unchanged, NEW a \in {"ok", "lost"},
             WaitsFor(c) = {}, ~SequenceTaken(c), call[c].auto,
             Answer(c, a), wal' = Append(wal, WithRow(db, c))
      PROVE  Goal
  <2>1. Busy(c) /\ Drafted(c) /\ ~Hardened BY <1>1, <1>5 DEF CallsInv, CallInv, Busy
  <2>2. Current(c) /\ AloneAtCommit(c) BY <1>5, FreeRow
  <2>3. \E d : Recorded(c, d) BY <2>1, <2>2, <1>5, RecordStep
  <2> QED BY <2>1, <2>2, <2>3
<1> HIDE DEF Goal
<1>6. CASE UNCHANGED vars BY <1>2, <1>6 DEF vars
<1>7. CASE Replicate BY <1>2, <1>7 DEF Replicate
<1>8. ASSUME NEW c \in Clients, upsert_instance(c) PROVE Goal
  BY <1>2, <1>3, <1>8 DEF upsert_instance, Busy
<1>9. ASSUME NEW c \in Clients, insert_row(c) PROVE Goal
  BY <1>2, <1>5, <1>9 DEF insert_row, Raise
<1>10. ASSUME NEW c \in Clients, commit(c) PROVE Goal
  BY <1>4, <1>10 DEF commit
<1>11. ASSUME NEW c \in Clients, connection_lost(c) PROVE Goal
  BY <1>2, <1>4, <1>5, <1>11 DEF connection_lost
<1>12. ASSUME NEW c \in Clients,
              \/ Begin(c) \/ get_latest_ledger_entry(c) \/ try_advisory_lock(c)
              \/ select_last(c) \/ pool_exhausted(c) \/ transient_error(c)
       PROVE  wal' = wal
  BY <1>12 DEF Begin, get_latest_ledger_entry, try_advisory_lock, select_last,
               pool_exhausted, transient_error, _with_retry, Raise
<1> QED BY <1>2, <1>6, <1>7, <1>8, <1>9, <1>10, <1>11, <1>12 DEF Next

\* Both PostgreSQL storages implement HashChain, whatever the lock keys, however
\* stale the replica and whichever transaction fails.
THEOREM Refinement == Spec => ImplementsHashChain
<1> DEFINE chains == [i \in Instances |-> Proofs(db.ledger[i])]
<1>1. Init => Chain!Init
  <2> SUFFICES ASSUME Init PROVE chains = [i \in Instances |-> <<>>]
    BY DEF Chain!Init
  <2>1. \A i \in Instances : db.ledger[i] = <<>> BY DEF Init, db
  <2>2. Proofs(<<>>) = <<>> BY DEF Proofs
  <2> QED BY <2>1, <2>2
<1>2. ASSUME IInv, [Next]_vars
      PROVE  [Chain!Next]_chains
  <2>1. CASE db'.ledger = db.ledger BY <2>1
  <2>2. ASSUME NEW c \in Clients, Busy(c), Drafted(c), Current(c), NEW d, Recorded(c, d)
        PROVE  Chain!Next
    <3> DEFINE j == call[c].instance
               row == [proof |-> call[c].proof, author |-> call[c].id]
               payload == call[c].payload
    <3>1. TypeInv BY <1>2 DEF IInv
    <3>2. /\ j \in Instances /\ payload \in Payload /\ Rows(c) \in Seq(Row)
          /\ call[c].id \in Nat
      BY <2>2, <3>1, CallType
    <3>3. row \in Row BY <2>2, <3>2 DEF Drafted, Row
    <3>4. db' = d BY <1>2, <2>2, RowIs
    <3>5. db.ledger \in [Instances -> Seq(Row)] BY <3>1, LedgerType DEF Database
    <3>6. /\ db'.ledger[j] = Append(Rows(c), row)
          /\ \A i \in Instances \ {j} : db'.ledger[i] = db.ledger[i]
      BY <2>2, <3>2, <3>4, <3>5 DEF Recorded, Rows
    <3>7. Len(Proofs(Rows(c))) = Len(Rows(c))
          /\ LastHash(Proofs(Rows(c))) = HashAt(Rows(c), Len(Rows(c)) + 1)
      BY <3>2, ProofsAre
    <3>8. row.proof = BuildProof(payload, LastHash(Proofs(Rows(c))),
                                 Len(Proofs(Rows(c))) + 1, Key)
      BY <2>2, <3>7 DEF Drafted, Current
    <3>9. Proofs(db'.ledger[j]) = Append(Proofs(Rows(c)), row.proof)
      BY <3>2, <3>3, <3>6, ProofsAppend
    <3>10. chains[j] = Proofs(Rows(c)) BY <3>2 DEF Rows
    <3> HIDE DEF row
    <3>11. chains' = [chains EXCEPT ![j] = Append(@, row.proof)]
      BY <3>2, <3>6, <3>9, <3>10
    <3>12. chains' = [chains EXCEPT ![j] =
                        Append(@, BuildProof(payload, LastHash(@), Len(@) + 1, Key))]
      BY <3>2, <3>8, <3>10, <3>11
    <3>13. Chain!Record(j, payload) BY <3>12, ChainFormat DEF Chain!Record
    <3> QED BY <3>2, <3>13, ChainFormat DEF Chain!Next
  <2> QED BY <1>2, <2>1, <2>2, OnlyRecords
<1> QED BY <1>1, <1>2, Invariant, PTL DEF Spec, ImplementsHashChain, Chain!Spec
=============================================================================
