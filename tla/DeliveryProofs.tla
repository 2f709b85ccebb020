--------------------------- MODULE DeliveryProofs ---------------------------
(***************************************************************************)
(* What holds of the delivery of every set of clients, whatever is lost,   *)
(* repeated, reordered, refused or cut short by a crash of either side.    *)
(*                                                                         *)
(* The argument has two halves.  A request is good for ever: the history   *)
(* image says what the claims of its client were before and after it, so   *)
(* two requests of one kind with one sequence are the same request (Moves  *)
(* and MovesOnce).  And requests are in order: one that is under way, or   *)
(* left behind, is at most the next one the receiver needs (InOrder),      *)
(* because the row it needs is still in the outbox and next_due offers no  *)
(* younger one.                                                            *)
(***************************************************************************)
EXTENDS Delivery, SenderProofs

-----------------------------------------------------------------------------
(***************************************************************************)
(* The inductive invariant.                                                *)
(***************************************************************************)

\* The history of a client ends with the claims its table presents.
HistoryFollows ==
    /\ image \in [Client -> Seq(SUBSET Claim)]
    /\ \A c \in Client :
          Len(image[c]) = seq[c] /\ ImageAt(c, seq[c]) = ActiveClaims(rows[c])

\* An identity that a client ever reported stands for one claim, for ever: a
\* later row of the table that has its ban id is the row of the same address.
IdentityIsForever ==
    \A c \in Client : \A n \in 0 .. seq[c] : \A x \in ImageAt(c, n) :
        /\ x.ban \in drawn[c]
        /\ x.terms = Forever
        /\ \A k \in Key :
              rows[c][k] # NoRow /\ rows[c][k].ban = x.ban => k = <<x.jail, x.ip>>
        /\ \A m \in 0 .. seq[c] : \A y \in ImageAt(c, m) :
              Identity(x) = Identity(y) => x = y

\* The claim that an event adds or removes.
Subject(e) == [jail |-> e.jail, ban |-> e.ban, ip |-> e.ip, terms |-> e.terms]

\* Request q is the one that takes client c from the state before its sequence
\* to the state after it.
Moves(c, q) ==
    /\ q \in Request
    /\ q.body.seq \in 1 .. seq[c]
    /\ q.body.id = q.body.seq
    /\ q.kind = "event" /\ q.body.op = "ban" =>
          /\ Subject(q.body) \notin ImageAt(c, q.body.seq - 1)
          /\ ImageAt(c, q.body.seq) = ImageAt(c, q.body.seq - 1) \cup {Subject(q.body)}
    /\ q.kind = "event" /\ q.body.op = "unban" =>
          /\ Subject(q.body) \in ImageAt(c, q.body.seq - 1)
          /\ ImageAt(c, q.body.seq) = ImageAt(c, q.body.seq - 1) \ {Subject(q.body)}
    /\ q.kind = "snapshot" => q.body.claims = ImageAt(c, q.body.seq)

OutboxMoves ==
    \A c \in Client : \A r \in outbox[c] : r.body.seq = r.seq /\ Moves(c, RequestOf(r))

\* A request that the receiver may still handle is at most the next one.
InOrder(c, q) == Moves(c, q) /\ q.body.seq <= lastSeq[c] + 1

RequestsInOrder ==
    \A c \in Client :
        /\ worker[c] # Idle => InOrder(c, worker[c].request)
        /\ \A q \in late[c] : InOrder(c, q)

\* An answer that lets the worker drop its row speaks of a change that is in
\* the receiver's tables.
AnswerIsCovered ==
    \A c \in Client :
        worker[c] # Idle /\ worker[c].stage = "answered" /\ worker[c].result \in AcceptedResults
            => worker[c].request.body.seq <= lastSeq[c]

\* The history tables hold requests of their clients, none ahead of last_seq.
HistoryMoves(kind, h) ==
    /\ Moves(h.client, [kind |-> kind, body |-> h.payload])
    /\ h.seq = h.payload.seq
    /\ h.id = h.payload.id
    /\ h.seq <= lastSeq[h.client]
HistoryInOrder ==
    /\ \A h \in events : HistoryMoves("event", h)
    /\ \A h \in snapshots : HistoryMoves("snapshot", h)

\* The open transaction applies the next event of its client.
TransactionRequest == [kind |-> "event", body |-> txn.batch[1]]
TransactionApplies ==
    txn # None =>
        /\ Len(txn.batch) = 1
        /\ txn.done \in {0, 1}
        /\ Moves(txn.client, TransactionRequest)
        /\ txn.batch[1].seq = lastSeq[txn.client] + 1
        /\ txn.claims = IF txn.done = 0 THEN claims
                        ELSE WriteClaim(claims, txn.client, txn.batch[1])
        /\ txn.events = IF txn.done = 0 THEN events
                        ELSE events \cup {HistoryRow(txn.client, txn.batch[1], txn.at)}

\* A worker that still waits for the open transaction waits for its event.
TransactionOwned ==
    txn # None =>
        /\ open # Idle
        /\ open.client = txn.client
        /\ open.live =>
              /\ worker[txn.client] # Idle
              /\ worker[txn.client].stage = "handled"
              /\ worker[txn.client].request = TransactionRequest

NeverAhead == \A c \in Client : lastSeq[c] <= seq[c]

NetworkTypeOK ==
    /\ allowed \in Configurations
    /\ worker \in [Client -> Waiting \cup {Idle}]
    /\ late \in [Client -> SUBSET Request]
    /\ open \in Owner \cup {Idle}

\* The senders, the receiver's store, and what is between them.
SourceIInv == SenderIInv /\ HistoryFollows /\ IdentityIsForever /\ OutboxMoves
ReceiverIInv ==
    /\ StoreTypeOK
    /\ NeverAhead
    /\ NothingIsDropped
    /\ HistoryInOrder
    /\ TransactionApplies
    /\ ReceiverHoldsAPrefix
    /\ NoConflict
NetworkIInv == NetworkTypeOK /\ RequestsInOrder /\ AnswerIsCovered /\ TransactionOwned
DeliveryIInv == SourceIInv /\ ReceiverIInv /\ NetworkIInv

-----------------------------------------------------------------------------
(***************************************************************************)
(* The history only grows, so what a request was, it stays.                *)
(***************************************************************************)

Grows ==
    /\ image' \in [Client -> Seq(SUBSET Claim)]
    /\ \A c \in Client :
          /\ seq[c] <= seq'[c]
          /\ \A n \in 0 .. seq[c] : ImageAt(c, n)' = ImageAt(c, n)

LEMMA SeqIsNat ==
    ASSUME SenderTypeOK, NEW c \in Client
    PROVE  seq[c] \in Nat /\ seq[c] <= MaxSeq
  BY SequenceFacts DEF SenderTypeOK

LEMMA RequestFacts ==
    ASSUME NEW q \in Request
    PROVE  /\ q.kind \in {"event", "snapshot"}
           /\ q.body.seq \in Seqs /\ q.body.seq \in Nat /\ q.body.seq >= 1
           /\ q = [kind |-> q.kind, body |-> q.body]
           /\ q.kind = "event" => q.body \in Event /\ q.body.op \in {"ban", "unban"}
           /\ q.kind = "snapshot" => q.body \in Snapshot
  BY SequenceFacts DEF Request, Event, Snapshot

LEMMA SubjectIsClaim ==
    ASSUME NEW e \in Event
    PROVE  Subject(e) \in Claim /\ Identity(Subject(e)) = Identity(e)
           /\ \A c : RowOf(c, Subject(e)) = RowOf(c, e)
  BY DEF Event, Subject, Claim, Identity, RowOf

LEMMA GrowsWhenUnchanged ==
    ASSUME SenderTypeOK, HistoryFollows, UNCHANGED <<seq, image>>
    PROVE  Grows
  BY SeqIsNat DEF Grows, HistoryFollows, ImageAt

LEMMA MovesStays ==
    ASSUME SenderTypeOK, Grows, SenderTypeOK', NEW c \in Client, NEW q, Moves(c, q)
    PROVE  Moves(c, q)'
<1>1. /\ q.body.seq \in 1 .. seq[c]
      /\ seq[c] \in Nat /\ seq'[c] \in Nat /\ seq[c] <= seq'[c]
  BY SeqIsNat DEF Moves, Grows, SenderTypeOK
<1>2. q.body.seq \in 0 .. seq[c] /\ q.body.seq - 1 \in 0 .. seq[c] /\ q.body.seq \in 1 .. seq'[c]
  BY <1>1
<1>3. /\ ImageAt(c, q.body.seq)' = ImageAt(c, q.body.seq)
      /\ ImageAt(c, q.body.seq - 1)' = ImageAt(c, q.body.seq - 1)
  BY <1>2 DEF Grows
<1> QED
  BY <1>2, <1>3 DEF Moves

\* Two requests of one kind with one sequence are one request: the receiver
\* never finds an id reused.
LEMMA MovesOnce ==
    ASSUME NEW c \in Client, NEW p, NEW q, Moves(c, p), Moves(c, q),
           p.kind = q.kind, p.body.seq = q.body.seq
    PROVE  p.body = q.body
<1>1. p \in Request /\ q \in Request /\ p.body.id = q.body.id
  BY DEF Moves
<1>2. CASE p.kind = "snapshot"
  <2>1. p.body \in Snapshot /\ q.body \in Snapshot
    BY <1>1, <1>2, RequestFacts
  <2>2. p.body.claims = q.body.claims
    BY <1>2 DEF Moves
  <2> QED
    BY <1>1, <2>1, <2>2 DEF Snapshot
<1>3. CASE p.kind = "event"
  <2>1. /\ p.body \in Event /\ p.body.op \in {"ban", "unban"}
        /\ q.body \in Event /\ q.body.op \in {"ban", "unban"}
    BY <1>1, <1>3, RequestFacts
  <2> DEFINE a == Subject(p.body)
             b == Subject(q.body)
             before == ImageAt(c, p.body.seq - 1)
             after == ImageAt(c, p.body.seq)
  <2>2. /\ p.body.op = "ban" => a \notin before /\ after = before \cup {a}
        /\ q.body.op = "ban" => b \notin before /\ after = before \cup {b}
        /\ p.body.op = "unban" => a \in before /\ after = before \ {a}
        /\ q.body.op = "unban" => b \in before /\ after = before \ {b}
    BY <1>3 DEF Moves
  <2> HIDE DEF a, b, before, after
  <2>3. p.body.op = q.body.op /\ a = b
    BY <2>1, <2>2
  <2> QED
    BY <1>1, <2>1, <2>3 DEF a, b, Subject, Event
<1> QED
  BY <1>1, <1>2, <1>3, RequestFacts

-----------------------------------------------------------------------------
(***************************************************************************)
(* A command that allocates a sequence.                                    *)
(***************************************************************************)

\* The ids in the table of c were there before, for the same key, or had never
\* been drawn; nothing is drawn for another client.
OnlyNewIds(c) ==
    /\ \A k \in Key : rows'[c][k] # NoRow =>
          \/ rows[c][k] # NoRow /\ rows'[c][k].ban = rows[c][k].ban
          \/ rows'[c][k].ban \notin drawn[c]
    /\ \A d \in Client : drawn[d] \subseteq drawn'[d]
    /\ \A d \in Client : d # c => rows'[d] = rows[d]

\* ImageAt of the next state, at a position named in this one.
NextImageAt(c, n) == IF n = 0 THEN {} ELSE image'[c][n]

LEMMA ActiveClaimsFacts ==
    ASSUME NEW table \in [Key -> ClaimRow \cup {NoRow}]
    PROVE  /\ ActiveClaims(table) \in SUBSET Claim
           /\ \A x \in ActiveClaims(table) :
                 /\ <<x.jail, x.ip>> \in Key
                 /\ IsActive(table, <<x.jail, x.ip>>)
                 /\ x.ban = table[<<x.jail, x.ip>>].ban
                 /\ x.terms = Forever
           /\ \A k \in Key : IsActive(table, k) =>
                 ClaimOf(k, table[k].ban) \in ActiveClaims(table)
<1>1. \A k \in Key : k[1] \in Jail /\ k[2] \in IP /\ k = <<k[1], k[2]>>
  BY DEF Key
<1>2. \A k \in Key : IsActive(table, k) => table[k].ban \in BanId
  BY DEF IsActive, ClaimRow
<1>3. ActiveClaims(table) \in SUBSET Claim
  BY <1>1, <1>2, SequenceFacts DEF ActiveClaims, ActiveKeys, ClaimOf, Claim
<1>4. ASSUME NEW x \in ActiveClaims(table)
      PROVE  /\ <<x.jail, x.ip>> \in Key
             /\ IsActive(table, <<x.jail, x.ip>>)
             /\ x.ban = table[<<x.jail, x.ip>>].ban
             /\ x.terms = Forever
  <2>1. PICK k \in Key : IsActive(table, k) /\ x = ClaimOf(k, table[k].ban)
    BY DEF ActiveClaims, ActiveKeys
  <2>2. k = <<x.jail, x.ip>> /\ x.ban = table[k].ban /\ x.terms = Forever
    BY <1>1, <2>1 DEF ClaimOf
  <2> QED
    BY <2>1, <2>2
<1> QED
  BY <1>3, <1>4 DEF ActiveClaims, ActiveKeys

LEMMA ActiveClaimsEqual ==
    ASSUME NEW table \in [Key -> ClaimRow \cup {NoRow}], NEW S,
           \A k \in Key : IsActive(table, k) => ClaimOf(k, table[k].ban) \in S,
           \A x \in S : \E k \in Key : IsActive(table, k) /\ x = ClaimOf(k, table[k].ban)
    PROVE  ActiveClaims(table) = S
  BY DEF ActiveClaims, ActiveKeys

LEMMA HistoryStep ==
    ASSUME SenderIInv, SenderIInv', HistoryFollows, IdentityIsForever,
           NEW c \in Client, OnlyNewIds(c),
           seq' = [seq EXCEPT ![c] = @ + 1], RecordImage(c)
    PROVE  /\ Grows
           /\ HistoryFollows'
           /\ IdentityIsForever'
           /\ NextImageAt(c, seq[c] + 1) = ActiveClaims(rows'[c])
           /\ NextImageAt(c, seq[c]) = ActiveClaims(rows[c])
<1> DEFINE after == ActiveClaims(rows'[c])
<1>0. SenderTypeOK /\ SenderTypeOK' /\ IdsAreUnique' /\ IdsAreDrawn'
  BY DEF SenderIInv
<1>1. /\ seq \in [Client -> Nat] /\ seq' \in [Client -> Nat]
      /\ \A d \in Client : rows[d] \in [Key -> ClaimRow \cup {NoRow}]
      /\ \A d \in Client : rows'[d] \in [Key -> ClaimRow \cup {NoRow}]
  BY <1>0, SequenceFacts DEF SenderTypeOK
<1>2. seq'[c] = seq[c] + 1 /\ \A d \in Client : d # c => seq'[d] = seq[d]
  BY <1>0 DEF SenderTypeOK
<1>3. image' = [image EXCEPT ![c] = Append(image[c], after)]
  BY <1>1, <1>2 DEF RecordImage
<1>4. after \in SUBSET Claim
  BY <1>1, ActiveClaimsFacts
<1> HIDE DEF after
<1>5. /\ image \in [Client -> Seq(SUBSET Claim)]
      /\ \A d \in Client : Len(image[d]) = seq[d]
  BY DEF HistoryFollows
<1>6. image' \in [Client -> Seq(SUBSET Claim)]
  BY <1>3, <1>4, <1>5
<1>7. /\ image'[c] = Append(image[c], after)
      /\ \A d \in Client : d # c => image'[d] = image[d]
  BY <1>3, <1>5
<1>8. \A d \in Client : Len(image'[d]) = seq'[d]
  BY <1>2, <1>4, <1>5, <1>7
<1>9. /\ \A n \in 1 .. seq[c] : image'[c][n] = image[c][n]
      /\ image'[c][seq[c] + 1] = after
  BY <1>1, <1>4, <1>5, <1>7
<1>10. NextImageAt(c, seq[c] + 1) = after
  <2>1. seq[c] \in Nat
    BY <1>1
  <2>2. seq[c] + 1 # 0
    BY <2>1
  <2> QED
    BY <1>9, <2>2 DEF NextImageAt
<1>11. \A d \in Client : \A n \in 0 .. seq[d] : NextImageAt(d, n) = ImageAt(d, n)
  <2>1. \A n \in 0 .. seq[c] : n = 0 \/ n \in 1 .. seq[c]
    <3>1. seq[c] \in Nat
      BY <1>1
    <3> QED
      BY <3>1
  <2>2. \A n \in 0 .. seq[c] : NextImageAt(c, n) = ImageAt(c, n)
    BY <1>9, <2>1 DEF ImageAt, NextImageAt
  <2>3. \A d \in Client : d # c => \A n : NextImageAt(d, n) = ImageAt(d, n)
    BY <1>7 DEF ImageAt, NextImageAt
  <2> QED
    BY <2>2, <2>3
<1>12. Grows
  BY <1>1, <1>2, <1>6, <1>11 DEF Grows, ImageAt, NextImageAt
<1>13. NextImageAt(c, seq[c]) = ActiveClaims(rows[c])
  BY <1>1, <1>11 DEF HistoryFollows
<1>14. HistoryFollows'
  <2>1. \A d \in Client : d # c => NextImageAt(d, seq[d]) = ActiveClaims(rows'[d])
    BY <1>1, <1>11 DEF HistoryFollows, OnlyNewIds
  <2>2. \A d \in Client : NextImageAt(d, seq'[d]) = ActiveClaims(rows'[d])
    BY <1>2, <1>10, <2>1 DEF after
  <2> QED
    BY <1>6, <1>8, <2>2 DEF HistoryFollows, ImageAt, NextImageAt
<1>15. \A x \in after :
          /\ <<x.jail, x.ip>> \in Key
          /\ rows'[c][<<x.jail, x.ip>>] # NoRow
          /\ x.ban = rows'[c][<<x.jail, x.ip>>].ban
          /\ x.terms = Forever
          /\ x = [jail |-> x.jail, ban |-> x.ban, ip |-> x.ip, terms |-> x.terms]
  <2>1. \A x \in after :
          /\ <<x.jail, x.ip>> \in Key
          /\ IsActive(rows'[c], <<x.jail, x.ip>>)
          /\ x.ban = rows'[c][<<x.jail, x.ip>>].ban
          /\ x.terms = Forever
    BY <1>1, ActiveClaimsFacts DEF after
  <2>2. \A x \in after : x = [jail |-> x.jail, ban |-> x.ban, ip |-> x.ip, terms |-> x.terms]
    BY <1>4 DEF Claim
  <2> QED
    BY <2>1, <2>2 DEF IsActive
\* A claim of the past and one of the new state.
<1>16. ASSUME NEW n \in 0 .. seq[c], NEW x \in ImageAt(c, n)
       PROVE  /\ x.ban \in drawn'[c] /\ x.terms = Forever
              /\ \A k \in Key :
                    rows'[c][k] # NoRow /\ rows'[c][k].ban = x.ban => k = <<x.jail, x.ip>>
              /\ \A y \in after : Identity(x) = Identity(y) => x = y
  <2>1. /\ x.ban \in drawn[c] /\ x.terms = Forever
        /\ \A k \in Key :
              rows[c][k] # NoRow /\ rows[c][k].ban = x.ban => k = <<x.jail, x.ip>>
    BY DEF IdentityIsForever
  <2>2. \A k \in Key :
           rows'[c][k] # NoRow /\ rows'[c][k].ban = x.ban => k = <<x.jail, x.ip>>
    BY <2>1 DEF OnlyNewIds
  <2>3. x = [jail |-> x.jail, ban |-> x.ban, ip |-> x.ip, terms |-> x.terms]
    <3>1. x \in Claim
      BY <1>1, <1>5 DEF ImageAt
    <3> QED
      BY <3>1 DEF Claim
  <2>4. ASSUME NEW y \in after, Identity(x) = Identity(y)
        PROVE  x = y
    <3>1. x.jail = y.jail /\ x.ban = y.ban
      BY <2>4 DEF Identity
    <3>2. <<y.jail, y.ip>> = <<x.jail, x.ip>>
      BY <1>15, <2>2, <2>4, <3>1
    <3> QED
      BY <1>15, <2>1, <2>3, <3>1, <3>2
  <2> QED
    BY <2>1, <2>2, <2>4 DEF OnlyNewIds
<1>17. ASSUME NEW x \in after
       PROVE  /\ x.ban \in drawn'[c] /\ x.terms = Forever
              /\ \A k \in Key :
                    rows'[c][k] # NoRow /\ rows'[c][k].ban = x.ban => k = <<x.jail, x.ip>>
              /\ \A y \in after : Identity(x) = Identity(y) => x = y
  <2>1. \A k \in Key :
           rows'[c][k] # NoRow /\ rows'[c][k].ban = x.ban => k = <<x.jail, x.ip>>
    BY <1>0, <1>15 DEF IdsAreUnique
  <2>2. \A y \in after : x.ban = y.ban => x = y
    BY <1>15, <2>1
  <2> QED
    BY <1>0, <1>15, <2>1, <2>2 DEF IdsAreDrawn, Identity
<1>18. \A x, y : (Identity(x) = Identity(y) => x = y) => (Identity(y) = Identity(x) => y = x)
  OBVIOUS
<1>19. IdentityIsForever'
  <2>1. SUFFICES ASSUME NEW d \in Client, NEW n \in 0 .. seq'[d], NEW x \in NextImageAt(d, n)
                 PROVE  /\ x.ban \in drawn'[d]
                        /\ x.terms = Forever
                        /\ \A k \in Key :
                              rows'[d][k] # NoRow /\ rows'[d][k].ban = x.ban
                                 => k = <<x.jail, x.ip>>
                        /\ \A m \in 0 .. seq'[d] : \A y \in NextImageAt(d, m) :
                              Identity(x) = Identity(y) => x = y
    BY DEF IdentityIsForever, ImageAt, NextImageAt
  <2>2. CASE d # c
    <3>1. seq'[d] = seq[d] /\ rows'[d] = rows[d] /\ drawn[d] \subseteq drawn'[d]
      BY <1>2, <2>2 DEF OnlyNewIds
    <3>2. x \in ImageAt(d, n) /\ \A m \in 0 .. seq[d] : NextImageAt(d, m) = ImageAt(d, m)
      BY <1>11, <2>1, <3>1
    <3>3. n \in 0 .. seq[d]
      BY <3>1
    <3> QED
      BY <3>1, <3>2, <3>3 DEF IdentityIsForever
  <2>3. CASE d = c
    <3>1. \A m \in 0 .. seq'[c] : m \in 0 .. seq[c] \/ m = seq[c] + 1
      BY <1>1, <1>2
    <3>2. \A m \in 0 .. seq'[c] : NextImageAt(c, m) = IF m = seq[c] + 1 THEN after ELSE ImageAt(c, m)
      BY <1>1, <1>10, <1>11, <3>1
    <3>3. CASE n = seq[c] + 1
      <4>1. x \in after
        BY <2>1, <2>3, <3>2, <3>3
      <4>2. ASSUME NEW m \in 0 .. seq'[c], NEW y \in NextImageAt(c, m), Identity(x) = Identity(y)
            PROVE  x = y
        <5>1. CASE m = seq[c] + 1
          BY <1>17, <3>2, <4>1, <4>2, <5>1
        <5>2. CASE m \in 0 .. seq[c]
          BY <1>1, <1>16, <3>2, <4>1, <4>2, <5>2
        <5> QED
          BY <3>1, <5>1, <5>2
      <4> QED
        BY <1>17, <2>3, <4>1, <4>2
    <3>4. CASE n \in 0 .. seq[c]
      <4>1. x \in ImageAt(c, n)
        BY <1>11, <2>1, <2>3, <3>4
      <4>2. ASSUME NEW m \in 0 .. seq'[c], NEW y \in NextImageAt(c, m), Identity(x) = Identity(y)
            PROVE  x = y
        <5>1. CASE m = seq[c] + 1
          BY <1>16, <3>2, <3>4, <4>1, <4>2, <5>1
        <5>2. CASE m \in 0 .. seq[c]
          <6>1. y \in ImageAt(c, m)
            BY <1>11, <4>2, <5>2
          <6> QED
            BY <3>4, <4>1, <4>2, <5>2, <6>1 DEF IdentityIsForever
        <5> QED
          BY <3>1, <5>1, <5>2
      <4> QED
        BY <1>16, <2>3, <3>4, <4>1, <4>2
    <3> QED
      BY <2>1, <2>3, <3>1, <3>3, <3>4
  <2> QED
    BY <2>2, <2>3
<1> QED
  BY <1>10, <1>12, <1>13, <1>14, <1>19 DEF after

\* The outbox after AppendRow: a row that moves the client from the state
\* before to the state after, and the rows that were there and still wait.
LEMMA OutboxStep ==
    ASSUME SenderIInv, SenderIInv', OutboxMoves, NothingIsDropped, Grows,
           NEW c \in Client, NEW kind, NEW body,
           AppendRow(c, kind, body), lastSeq' = lastSeq, lastSeq \in [Client -> Nat],
           Moves(c, [kind |-> kind, body |-> body])', body.seq = seq[c] + 1
    PROVE  OutboxMoves' /\ NothingIsDropped'
<1> DEFINE row == NewRow(seq[c] + 1, kind, body)
<1>0. SenderTypeOK /\ SenderTypeOK'
  BY DEF SenderIInv
<1>1. /\ outbox \in [Client -> SUBSET OutboxRow] /\ seq \in [Client -> Nat]
      /\ \A d \in Client : lastSeq[d] \in Nat
  BY <1>0, SequenceFacts DEF SenderTypeOK
<1>2. /\ outbox'[c] = Undelivered(c) \cup {row}
      /\ \A d \in Client : d # c => outbox'[d] = outbox[d]
      /\ seq'[c] = seq[c] + 1
      /\ \A d \in Client : d # c => seq'[d] = seq[d]
  BY <1>0, <1>1 DEF AppendRow, NewRow, SenderTypeOK
<1>3. /\ row.seq = seq[c] + 1 /\ row.body = body /\ row.delivered = FALSE
      /\ RequestOf(row) = [kind |-> kind, body |-> body]
  BY DEF NewRow, RequestOf
<1> HIDE DEF row
<1>4. Undelivered(c) \subseteq outbox[c]
  BY DEF Undelivered
<1>5. \A d \in Client : \A r \in outbox[d] : r.body.seq = r.seq /\ Moves(d, RequestOf(r))'
  <2>1. SUFFICES ASSUME NEW d \in Client, NEW r \in outbox[d]
                 PROVE  r.body.seq = r.seq /\ Moves(d, RequestOf(r))'
    OBVIOUS
  <2>2. r.body.seq = r.seq /\ Moves(d, RequestOf(r))
    BY DEF OutboxMoves
  <2> DEFINE q == RequestOf(r)
  <2>3. Moves(d, q)
    BY <2>2
  <2> HIDE DEF q
  <2>4. Moves(d, q)'
    BY <1>0, <2>3, MovesStays
  <2> QED
    BY <2>2, <2>4 DEF q
<1>6. OutboxMoves'
  <2>1. SUFFICES ASSUME NEW d \in Client, NEW r \in outbox'[d]
                 PROVE  r.body.seq = r.seq /\ Moves(d, RequestOf(r))'
    BY DEF OutboxMoves, RequestOf
  <2>2. CASE r \in outbox[d]
    BY <1>5, <2>2
  <2>3. CASE d = c /\ r = row
    BY <1>3, <2>3
  <2> QED
    BY <1>2, <1>4, <2>1, <2>2, <2>3
<1>7. NothingIsDropped'
  <2>1. SUFFICES ASSUME NEW d \in Client, NEW n \in (lastSeq[d] + 1) .. seq'[d]
                 PROVE  \E r \in outbox'[d] : ~r.delivered /\ r.seq = n
    BY DEF NothingIsDropped, Undelivered
  <2>2. CASE d = c /\ n = seq[c] + 1
    BY <1>2, <1>3, <2>2
  <2>3. CASE n \in (lastSeq[d] + 1) .. seq[d]
    <3>1. PICK r \in outbox[d] : ~r.delivered /\ r.seq = n
      BY <2>3 DEF NothingIsDropped, Undelivered
    <3> QED
      BY <1>2, <3>1 DEF Undelivered
  <2>4. n \in (lastSeq[d] + 1) .. seq[d] \/ (d = c /\ n = seq[c] + 1)
    <3>1. seq[d] \in Nat /\ lastSeq[d] \in Nat
      BY <1>1
    <3> QED
      BY <1>2, <3>1
  <2> QED
    BY <2>2, <2>3, <2>4
<1> QED
  BY <1>6, <1>7

\* A sequence with a request that takes the old claims to the new ones.
LEMMA PublishStep ==
    ASSUME SourceIInv, NothingIsDropped, lastSeq' = lastSeq, lastSeq \in [Client -> Nat],
           SenderIInv', NEW c \in Client, OnlyNewIds(c), RecordImage(c),
           NEW kind, NEW body, AppendRow(c, kind, body),
           [kind |-> kind, body |-> body] \in Request,
           body.seq = seq[c] + 1, body.id = seq[c] + 1,
           kind = "event" /\ body.op = "ban" =>
              /\ Subject(body) \notin ActiveClaims(rows[c])
              /\ ActiveClaims(rows'[c]) = ActiveClaims(rows[c]) \cup {Subject(body)},
           kind = "event" /\ body.op = "unban" =>
              /\ Subject(body) \in ActiveClaims(rows[c])
              /\ ActiveClaims(rows'[c]) = ActiveClaims(rows[c]) \ {Subject(body)},
           kind = "snapshot" => body.claims = ActiveClaims(rows'[c])
    PROVE  SourceIInv' /\ NothingIsDropped' /\ Grows
<1>0. SenderIInv /\ HistoryFollows /\ IdentityIsForever /\ OutboxMoves /\ SenderTypeOK
  BY DEF SourceIInv, SenderIInv
<1>1. PICK n : n = seq[c] + 1
  OBVIOUS
<1>2. PICK q : q = [kind |-> kind, body |-> body]
  OBVIOUS
<1>3. q \in Request /\ q.kind = kind /\ q.body = body
  BY <1>2
<1>4. seq' = [seq EXCEPT ![c] = @ + 1]
  BY DEF AppendRow
<1>5. /\ Grows /\ HistoryFollows' /\ IdentityIsForever'
      /\ NextImageAt(c, seq[c] + 1) = ActiveClaims(rows'[c])
      /\ NextImageAt(c, seq[c]) = ActiveClaims(rows[c])
  BY <1>0, <1>4, HistoryStep
<1>6. n \in 1 .. seq'[c] /\ n - 1 = seq[c]
  <2>1. seq'[c] = seq[c] + 1
    BY <1>0, <1>4 DEF SenderTypeOK
  <2>2. seq[c] \in Nat
    BY <1>0, SeqIsNat
  <2> QED
    BY <1>1, <2>1, <2>2
<1>7. Moves(c, q)'
  <2>1. ImageAt(c, q.body.seq)' = NextImageAt(c, seq[c] + 1)
    BY <1>3 DEF ImageAt, NextImageAt
  <2>2. q.body.seq - 1 = n - 1 /\ n - 1 = seq[c]
    BY <1>1, <1>3, <1>6
  <2>3. ImageAt(c, q.body.seq - 1)' = NextImageAt(c, seq[c])
    BY <2>2 DEF ImageAt, NextImageAt
  <2> QED
    BY <1>1, <1>3, <1>5, <1>6, <2>1, <2>3 DEF Moves
<1>8. OutboxMoves' /\ NothingIsDropped'
  BY <1>0, <1>2, <1>5, <1>7, OutboxStep
<1> QED
  BY <1>5, <1>8 DEF SourceIInv

LEMMA BanPublishes ==
    ASSUME SourceIInv, NothingIsDropped, lastSeq' = lastSeq, lastSeq \in [Client -> Nat],
           NEW c \in Client, NEW k \in Key, EnqueueBan(c, k), RecordImage(c)
    PROVE  SourceIInv' /\ NothingIsDropped' /\ Grows
<1>0. SenderIInv /\ HistoryFollows /\ IdentityIsForever /\ OutboxMoves
      /\ SenderTypeOK /\ IdsAreDrawn
  BY DEF SourceIInv, SenderIInv
<1>1. PICK b \in BanId \ drawn[c] :
          /\ rows' = [rows EXCEPT ![c][k] = [ban |-> b, active |-> TRUE]]
          /\ drawn' = [drawn EXCEPT ![c] = @ \cup {b}]
          /\ AppendRow(c, "event", EventOf(seq[c] + 1, "ban", k, b))
  BY DEF EnqueueBan
<1>2. /\ SenderIInv'
      /\ seq' = [seq EXCEPT ![c] = @ + 1]
      /\ \A d \in Client, m \in Key : ~(d = c /\ m = k) => rows'[d][m] = rows[d][m]
      /\ IsActive(rows'[c], k)
  BY <1>0, EnqueueBanStep
<1>3. /\ \A d \in Client : rows[d] \in [Key -> ClaimRow \cup {NoRow}]
      /\ \A d \in Client : rows'[d] \in [Key -> ClaimRow \cup {NoRow}]
      /\ rows \in [Client -> [Key -> ClaimRow \cup {NoRow}]]
      /\ drawn \in [Client -> SUBSET BanId]
      /\ seq[c] \in Nat /\ seq[c] < MaxSeq /\ seq[c] + 1 \in Seqs
  BY <1>0, <1>2, SequenceFacts DEF SenderTypeOK, SenderIInv, EnqueueBan
<1>4. rows'[c][k].ban = b
  <2>1. rows' = [rows EXCEPT ![c] = [rows[c] EXCEPT ![k] = [ban |-> b, active |-> TRUE]]]
    BY <1>1
  <2>2. rows'[c][k] = [ban |-> b, active |-> TRUE]
    BY <1>3, <2>1
  <2> QED
    BY <2>2
<1>5. OnlyNewIds(c)
  <2>1. \A d \in Client : drawn[d] \subseteq drawn'[d]
    BY <1>1, <1>3
  <2>2. \A d \in Client : d # c => rows'[d] = rows[d]
    BY <1>1, <1>3
  <2> QED
    BY <1>2, <1>4, <2>1, <2>2 DEF OnlyNewIds
<1>7. PICK e : e = EventOf(seq[c] + 1, "ban", k, b)
  OBVIOUS
<1>8. ClaimOf(k, b) \notin ActiveClaims(rows[c])
  <2>1. SUFFICES ASSUME ClaimOf(k, b) \in ActiveClaims(rows[c])
                 PROVE  FALSE
    OBVIOUS
  <2>2. IsActive(rows[c], k) /\ b = rows[c][k].ban
    <3>1. <<ClaimOf(k, b).jail, ClaimOf(k, b).ip>> = k /\ ClaimOf(k, b).ban = b
      BY DEF ClaimOf, Key
    <3> QED
      BY <1>3, <2>1, <3>1, ActiveClaimsFacts
  <2> QED
    BY <1>0, <1>1, <2>2 DEF IdsAreDrawn, IsActive
<1>9. ActiveClaims(rows'[c]) = ActiveClaims(rows[c]) \cup {ClaimOf(k, b)}
  <2>1. ~IsActive(rows[c], k)
    BY DEF EnqueueBan, IsNoOp, IsActive
  <2>2. \A m \in Key : IsActive(rows'[c], m) =>
           ClaimOf(m, rows'[c][m].ban) \in ActiveClaims(rows[c]) \cup {ClaimOf(k, b)}
    BY <1>2, <1>3, <1>4, ActiveClaimsFacts DEF IsActive
  <2>3. \A x \in ActiveClaims(rows[c]) \cup {ClaimOf(k, b)} :
           \E m \in Key : IsActive(rows'[c], m) /\ x = ClaimOf(m, rows'[c][m].ban)
    BY <1>2, <1>4, <2>1 DEF ActiveClaims, ActiveKeys, IsActive
  <2> DEFINE S == ActiveClaims(rows[c]) \cup {ClaimOf(k, b)}
             table == rows'[c]
  <2>4. table \in [Key -> ClaimRow \cup {NoRow}]
    BY <1>3
  <2>5. /\ \A m \in Key : IsActive(table, m) => ClaimOf(m, table[m].ban) \in S
        /\ \A x \in S : \E m \in Key : IsActive(table, m) /\ x = ClaimOf(m, table[m].ban)
    BY <2>2, <2>3
  <2> HIDE DEF S, table
  <2>6. ActiveClaims(table) = S
    BY <2>4, <2>5, ActiveClaimsEqual
  <2> QED
    BY <2>6 DEF S, table
<1>10. /\ e \in Event /\ e.seq = seq[c] + 1 /\ e.id = seq[c] + 1 /\ e.op = "ban"
       /\ Subject(e) = ClaimOf(k, b)
  BY <1>3, <1>7, NewEventRow DEF EventOf, Subject, ClaimOf
<1>11. [kind |-> "event", body |-> e] \in Request
  BY <1>10 DEF Request
<1> QED
  BY <1>1, <1>2, <1>5, <1>7, <1>8, <1>9, <1>10, <1>11, PublishStep

LEMMA UnbanPublishes ==
    ASSUME SourceIInv, NothingIsDropped, lastSeq' = lastSeq, lastSeq \in [Client -> Nat],
           NEW c \in Client, NEW k \in Key, EnqueueUnban(c, k), RecordImage(c)
    PROVE  SourceIInv' /\ NothingIsDropped' /\ Grows
<1>0. SenderIInv /\ SenderTypeOK /\ SenderIInv'
  BY EnqueueUnbanStep DEF SourceIInv, SenderIInv
<1>1. /\ IsActive(rows[c], k) /\ rows[c][k] # NoRow
      /\ rows' = [rows EXCEPT ![c][k].active = FALSE]
      /\ drawn' = drawn
      /\ AppendRow(c, "event", EventOf(seq[c] + 1, "unban", k, rows[c][k].ban))
  BY DEF EnqueueUnban, IsNoOp, IsActive
<1>2. PICK b : b = rows[c][k].ban
  OBVIOUS
<1>3. /\ rows[c] \in [Key -> ClaimRow \cup {NoRow}]
      /\ rows'[c] \in [Key -> ClaimRow \cup {NoRow}]
      /\ b \in BanId
      /\ seq[c] + 1 \in Seqs
  BY <1>0, <1>1, <1>2, SequenceFacts, RowFacts DEF SenderTypeOK, SenderIInv, EnqueueUnban
<1>4. /\ \A d \in Client, m \in Key : ~(d = c /\ m = k) => rows'[d][m] = rows[d][m]
      /\ ~IsActive(rows'[c], k)
  BY <1>0, EnqueueUnbanStep
<1>5. OnlyNewIds(c)
  <2>1. rows \in [Client -> [Key -> ClaimRow \cup {NoRow}]] /\ rows[c][k] \in ClaimRow
    BY <1>0, <1>1, RowFacts DEF SenderTypeOK
  <2>2. PICK row : row = [rows[c][k] EXCEPT !.active = FALSE]
    OBVIOUS
  <2>3. rows' = [rows EXCEPT ![c] = [rows[c] EXCEPT ![k] = row]]
    BY <1>1, <2>2
  <2>4. rows'[c][k] = row /\ \A d \in Client : d # c => rows'[d] = rows[d]
    BY <2>1, <2>3
  <2>5. rows'[c][k].ban = rows[c][k].ban
    BY <2>1, <2>2, <2>4 DEF ClaimRow
  <2> QED
    BY <1>1, <1>4, <2>4, <2>5 DEF OnlyNewIds
<1>6. PICK e : e = EventOf(seq[c] + 1, "unban", k, b)
  OBVIOUS
<1>7. ClaimOf(k, b) \in ActiveClaims(rows[c])
  BY <1>1, <1>2, <1>3, ActiveClaimsFacts
<1>8. ActiveClaims(rows'[c]) = ActiveClaims(rows[c]) \ {ClaimOf(k, b)}
  <2>1. \A m \in Key : m # k => ClaimOf(m, rows[c][m].ban) # ClaimOf(k, b)
    BY DEF ClaimOf, Key
  <2>2. \A m \in Key : IsActive(rows'[c], m) =>
           ClaimOf(m, rows'[c][m].ban) \in ActiveClaims(rows[c]) \ {ClaimOf(k, b)}
    BY <1>3, <1>4, <2>1, ActiveClaimsFacts DEF IsActive
  <2>3. \A x \in ActiveClaims(rows[c]) \ {ClaimOf(k, b)} :
           \E m \in Key : IsActive(rows'[c], m) /\ x = ClaimOf(m, rows'[c][m].ban)
    BY <1>2, <1>4 DEF ActiveClaims, ActiveKeys, IsActive
  <2> DEFINE S == ActiveClaims(rows[c]) \ {ClaimOf(k, b)}
             table == rows'[c]
  <2>4. table \in [Key -> ClaimRow \cup {NoRow}]
    BY <1>3
  <2>5. /\ \A m \in Key : IsActive(table, m) => ClaimOf(m, table[m].ban) \in S
        /\ \A x \in S : \E m \in Key : IsActive(table, m) /\ x = ClaimOf(m, table[m].ban)
    BY <2>2, <2>3
  <2> HIDE DEF S, table
  <2>6. ActiveClaims(table) = S
    BY <2>4, <2>5, ActiveClaimsEqual
  <2> QED
    BY <2>6 DEF S, table
<1>9. /\ e \in Event /\ e.seq = seq[c] + 1 /\ e.id = seq[c] + 1 /\ e.op = "unban"
      /\ Subject(e) = ClaimOf(k, b)
  BY <1>3, <1>6, NewEventRow DEF EventOf, Subject, ClaimOf
<1>10. [kind |-> "event", body |-> e] \in Request
  BY <1>9 DEF Request
<1> QED
  BY <1>0, <1>1, <1>2, <1>5, <1>6, <1>7, <1>8, <1>9, <1>10, PublishStep

LEMMA SnapshotPublishes ==
    ASSUME SourceIInv, NothingIsDropped, lastSeq' = lastSeq, lastSeq \in [Client -> Nat],
           NEW c \in Client, NEW found \in SUBSET Key, NEW f \in Candidates(c, found),
           EnqueueSnapshot(c, f, seq[c]), RecordImage(c)
    PROVE  SourceIInv' /\ NothingIsDropped' /\ Grows
<1>0. SenderIInv /\ SenderTypeOK
  BY DEF SourceIInv, SenderIInv
<1>1. DOMAIN f = found /\ Prepared(c, f)
  BY <1>0, CandidatesPrepared
<1>2. /\ SenderIInv' /\ SenderTypeOK'
      /\ \A d \in Client : d # c => rows'[d] = rows[d]
      /\ \A k \in Key : IsActive(rows'[c], k) <=> k \in found
  BY <1>0, <1>1, EnqueueSnapshotStep DEF SenderIInv
<1>3. /\ rows'[c] \in [Key -> ClaimRow \cup {NoRow}]
      /\ rows'[c] = Reconciled(c, f)
      /\ seq[c] + 1 \in Seqs
  BY <1>0, <1>2, SequenceFacts DEF SenderTypeOK, EnqueueSnapshot
<1>4. \A k \in Key :
        /\ k \in found => rows'[c][k] = [ban |-> SnapshotBan(c, f, k), active |-> TRUE]
        /\ k \notin found /\ rows'[c][k] # NoRow =>
              rows[c][k] # NoRow /\ rows'[c][k].ban = rows[c][k].ban
  BY <1>1, <1>3 DEF Reconciled, IsActive
<1>4a. \A k \in found : rows'[c][k].ban = SnapshotBan(c, f, k)
  <2>1. SUFFICES ASSUME NEW k \in found PROVE rows'[c][k].ban = SnapshotBan(c, f, k)
    OBVIOUS
  <2>2. rows'[c][k] = [ban |-> SnapshotBan(c, f, k), active |-> TRUE]
    BY <1>4
  <2> QED
    BY <2>2
<1>5. OnlyNewIds(c)
  <2>1. \A d \in Client : drawn[d] \subseteq drawn'[d]
    BY <1>0 DEF EnqueueSnapshot, SenderTypeOK
  <2>2. \A k \in found : SnapshotBan(c, f, k) =
           IF IsActive(rows[c], k) THEN rows[c][k].ban ELSE f[k]
    BY DEF SnapshotBan
  <2>3. \A k \in found : ~IsActive(rows[c], k) => f[k] \notin drawn[c]
    BY DEF Candidates
  <2>4. \A k \in Key : k \in found => rows'[c][k].ban = SnapshotBan(c, f, k)
    BY <1>4a
  <2> QED
    BY <1>2, <1>4, <2>1, <2>2, <2>3, <2>4 DEF OnlyNewIds, IsActive
<1>6. PICK s : s = [id |-> seq[c] + 1, seq |-> seq[c] + 1,
                    claims |-> {ClaimOf(k, SnapshotBan(c, f, k)) : k \in found}]
  OBVIOUS
<1>7. s.claims = ActiveClaims(rows'[c]) /\ s.seq = seq[c] + 1 /\ s.id = seq[c] + 1
  BY <1>2, <1>4a, <1>6 DEF ActiveClaims, ActiveKeys
<1>8. s \in Snapshot
  <2>1. s.claims \in SUBSET Claim
    BY <1>3, <1>7, ActiveClaimsFacts
  <2> QED
    BY <1>3, <1>6, <1>7, <2>1, SequenceFacts DEF Snapshot
<1>9. [kind |-> "snapshot", body |-> s] \in Request
  BY <1>8 DEF Request
<1>10. AppendRow(c, "snapshot", s)
  BY <1>1, <1>6 DEF EnqueueSnapshot
<1> QED
  BY <1>2, <1>5, <1>7, <1>9, <1>10, PublishStep

-----------------------------------------------------------------------------
(***************************************************************************)
(* A command or a worker that allocates no sequence.                       *)
(***************************************************************************)

\* Rows keep what they say, and those that wait for the receiver stay.
LEMMA FlagsStep ==
    ASSUME SourceIInv, NothingIsDropped, SenderIInv',
           UNCHANGED <<seq, rows, drawn, image, lastSeq>>,
           \A d \in Client : \A r \in outbox'[d] : \E q \in outbox[d] :
              r.seq = q.seq /\ r.body = q.body /\ r.kind = q.kind,
           \A d \in Client : \A q \in Undelivered(d) : q.seq > lastSeq[d] =>
              \E r \in outbox'[d] : ~r.delivered /\ r.seq = q.seq,
           lastSeq \in [Client -> Nat]
    PROVE  SourceIInv' /\ NothingIsDropped' /\ Grows
<1>0. SenderTypeOK /\ SenderTypeOK' /\ HistoryFollows /\ IdentityIsForever /\ OutboxMoves
  BY DEF SourceIInv, SenderIInv
<1>1. Grows
  BY <1>0, GrowsWhenUnchanged
<1>2. HistoryFollows' /\ IdentityIsForever'
  BY <1>0 DEF HistoryFollows, IdentityIsForever, ImageAt
<1>3. OutboxMoves'
  <2>1. SUFFICES ASSUME NEW d \in Client, NEW r \in outbox'[d]
                 PROVE  r.body.seq = r.seq /\ Moves(d, RequestOf(r))'
    BY DEF OutboxMoves, RequestOf
  <2>2. PICK q \in outbox[d] : r.seq = q.seq /\ r.body = q.body /\ r.kind = q.kind
    BY <2>1
  <2>3. PICK p : p = RequestOf(q)
    OBVIOUS
  <2>4. q.body.seq = q.seq /\ Moves(d, p)
    BY <1>0, <2>3 DEF OutboxMoves
  <2>5. Moves(d, p)'
    BY <1>0, <1>1, <2>4, MovesStays
  <2>6. RequestOf(r) = p
    BY <2>2, <2>3 DEF RequestOf
  <2> QED
    BY <2>2, <2>4, <2>5, <2>6
<1>4. NothingIsDropped'
  <2>1. SUFFICES ASSUME NEW d \in Client, NEW n \in (lastSeq[d] + 1) .. seq[d]
                 PROVE  \E r \in outbox'[d] : ~r.delivered /\ r.seq = n
    BY DEF NothingIsDropped, Undelivered
  <2>2. PICK q \in Undelivered(d) : q.seq = n
    BY DEF NothingIsDropped
  <2>3. lastSeq[d] \in Nat /\ seq[d] \in Nat
    BY <1>0, SeqIsNat
  <2>4. q.seq > lastSeq[d]
    BY <2>2, <2>3
  <2> QED
    BY <2>2, <2>4
<1> QED
  BY <1>1, <1>2, <1>3, <1>4 DEF SourceIInv

LEMMA PruneStep ==
    ASSUME SourceIInv, NothingIsDropped, lastSeq \in [Client -> Nat], NEW c \in Client,
           outbox' = [outbox EXCEPT ![c] = Undelivered(c)],
           UNCHANGED <<seq, rows, drawn, image, lastSeq>>
    PROVE  SourceIInv' /\ NothingIsDropped' /\ Grows
<1>1. SenderIInv /\ SenderIInv' /\ outbox \in [Client -> SUBSET OutboxRow]
  BY PruneKeeps DEF SourceIInv, SenderIInv, SenderTypeOK
<1>2. outbox'[c] = Undelivered(c) /\ \A d \in Client : d # c => outbox'[d] = outbox[d]
  BY <1>1
<1>3. \A d \in Client : outbox'[d] \subseteq outbox[d] /\ Undelivered(d) \subseteq outbox'[d]
  BY <1>2 DEF Undelivered
<1>4. \A d \in Client : \A r \in outbox'[d] : \E q \in outbox[d] :
         r.seq = q.seq /\ r.body = q.body /\ r.kind = q.kind
  BY <1>3
<1>5. \A d \in Client : \A q \in Undelivered(d) : q.seq > lastSeq[d] =>
         \E r \in outbox'[d] : ~r.delivered /\ r.seq = q.seq
  BY <1>3 DEF Undelivered
<1> QED
  BY <1>1, <1>4, <1>5, FlagsStep

LEMMA MarkDeliveredStep ==
    ASSUME SourceIInv, NothingIsDropped, lastSeq \in [Client -> Nat], NEW c \in Client,
           NEW n \in Nat, n <= lastSeq[c], MarkDelivered(c, n), UNCHANGED <<image, lastSeq>>
    PROVE  SourceIInv' /\ NothingIsDropped' /\ Grows
<1>1. /\ SenderIInv /\ SenderIInv' /\ outbox \in [Client -> SUBSET OutboxRow]
      /\ UNCHANGED <<seq, rows, drawn>>
  BY MarkDeliveredKeeps DEF SourceIInv, SenderIInv, SenderTypeOK, MarkDelivered
<1> DEFINE changed(r) == [r EXCEPT !.delivered = TRUE]
<1>2. /\ outbox'[c] = {IF r.seq = n /\ ~r.delivered THEN changed(r) ELSE r : r \in outbox[c]}
      /\ \A d \in Client : d # c => outbox'[d] = outbox[d]
  BY <1>1 DEF MarkDelivered, Update
<1>3. \A r \in OutboxRow :
         changed(r).seq = r.seq /\ changed(r).body = r.body /\ changed(r).kind = r.kind
  BY DEF OutboxRow
<1> HIDE DEF changed
<1>4. \A d \in Client : \A r \in outbox'[d] : \E q \in outbox[d] :
         r.seq = q.seq /\ r.body = q.body /\ r.kind = q.kind
  BY <1>1, <1>2, <1>3
<1>5. \A d \in Client : \A q \in Undelivered(d) : q.seq > lastSeq[d] =>
         \E r \in outbox'[d] : ~r.delivered /\ r.seq = q.seq
  <2>1. SUFFICES ASSUME NEW d \in Client, NEW q \in Undelivered(d), q.seq > lastSeq[d]
                 PROVE  q \in outbox'[d]
    BY DEF Undelivered
  <2>2. q \in outbox[d] /\ lastSeq[d] \in Nat /\ q.seq \in Nat
    BY <1>1, SequenceFacts DEF Undelivered, OutboxRow
  <2>3. d = c => q.seq # n
    BY <2>1, <2>2
  <2> QED
    BY <1>2, <2>2, <2>3
<1> QED
  BY <1>1, <1>4, <1>5, FlagsStep

\* A row that is made to wait, or becomes due.
LEMMA DueStep ==
    ASSUME SourceIInv, NothingIsDropped, lastSeq \in [Client -> Nat], NEW c \in Client,
           NEW n, NEW due \in BOOLEAN,
           Update(c, n, LAMBDA r : [r EXCEPT !.due = due]),
           UNCHANGED <<seq, rows, drawn, image, lastSeq>>
    PROVE  SourceIInv' /\ NothingIsDropped' /\ Grows
<1>0. SenderIInv
  BY DEF SourceIInv
<1>1. /\ SenderIInv /\ SenderIInv' /\ outbox \in [Client -> SUBSET OutboxRow]
  <2>1. SenderIInv'
    BY <1>0, DueKeeps
  <2> QED
    BY <1>0, <2>1 DEF SenderIInv, SenderTypeOK
<1> DEFINE changed(r) == [r EXCEPT !.due = due]
<1>2. /\ outbox'[c] = {IF r.seq = n /\ ~r.delivered THEN changed(r) ELSE r : r \in outbox[c]}
      /\ \A d \in Client : d # c => outbox'[d] = outbox[d]
  BY <1>1 DEF Update
<1>3. \A r \in OutboxRow :
         /\ changed(r).seq = r.seq /\ changed(r).body = r.body /\ changed(r).kind = r.kind
         /\ changed(r).delivered = r.delivered
  BY DEF OutboxRow
<1> HIDE DEF changed
<1>4. \A d \in Client : \A r \in outbox'[d] : \E q \in outbox[d] :
         r.seq = q.seq /\ r.body = q.body /\ r.kind = q.kind
  BY <1>1, <1>2, <1>3
<1>5. \A d \in Client : \A q \in Undelivered(d) : q.seq > lastSeq[d] =>
         \E r \in outbox'[d] : ~r.delivered /\ r.seq = q.seq
  <2>1. SUFFICES ASSUME NEW d \in Client, NEW q \in Undelivered(d)
                 PROVE  \E r \in outbox'[d] : ~r.delivered /\ r.seq = q.seq
    OBVIOUS
  <2>2. q \in outbox[d] /\ ~q.delivered /\ q \in OutboxRow
    BY <1>1 DEF Undelivered
  <2>3. CASE d # c
    BY <1>2, <2>2, <2>3
  <2>4. CASE d = c
    <3>1. (IF q.seq = n /\ ~q.delivered THEN changed(q) ELSE q) \in outbox'[d]
      BY <1>2, <2>2, <2>4
    <3> QED
      BY <1>3, <2>2, <3>1
  <2> QED
    BY <2>3, <2>4
<1> QED
  BY <1>1, <1>4, <1>5, FlagsStep

LEMMA MarkRetryStep ==
    ASSUME SourceIInv, NothingIsDropped, lastSeq \in [Client -> Nat], NEW c \in Client,
           NEW n, MarkRetry(c, n), UNCHANGED <<image, lastSeq>>
    PROVE  SourceIInv' /\ NothingIsDropped' /\ Grows
  BY DueStep DEF MarkRetry

LEMMA BackoffStep ==
    ASSUME SourceIInv, NothingIsDropped, lastSeq \in [Client -> Nat], NEW c \in Client,
           BackoffExpires(c), UNCHANGED <<image, lastSeq>>
    PROVE  SourceIInv' /\ NothingIsDropped' /\ Grows
  BY DueStep DEF BackoffExpires

\* The two commands.
LEMMA HookStep ==
    ASSUME SourceIInv, NothingIsDropped, lastSeq \in [Client -> Nat], lastSeq' = lastSeq,
           NEW c \in Client, NEW op \in {"ban", "unban"}, NEW k \in Key,
           HookEnqueues(c, op, k)
    PROVE  SourceIInv' /\ NothingIsDropped' /\ Grows
<1>1. CASE EnqueueNothing(c, op, k) \/ EnqueueRefused(c, op, k)
  <2>1. outbox' = [outbox EXCEPT ![c] = Undelivered(c)] /\ UNCHANGED <<seq, rows, drawn>>
    BY <1>1 DEF EnqueueNothing, EnqueueRefused
  <2>2. image' = image
    BY <2>1 DEF HookEnqueues, RecordImage
  <2> QED
    BY <2>1, <2>2, PruneStep
<1>2. CASE EnqueueBan(c, k)
  BY <1>2, BanPublishes DEF HookEnqueues
<1>3. CASE EnqueueUnban(c, k)
  BY <1>3, UnbanPublishes DEF HookEnqueues
<1> QED
  BY <1>1, <1>2, <1>3 DEF HookEnqueues, Enqueue

LEMMA SnapshotStep ==
    ASSUME SourceIInv, NothingIsDropped, lastSeq \in [Client -> Nat], lastSeq' = lastSeq,
           NEW c \in Client, NEW found \in SUBSET Key, SnapshotEnqueues(c, found)
    PROVE  SourceIInv' /\ NothingIsDropped' /\ Grows
<1>1. PICK f \in Candidates(c, found) : EnqueueSnapshot(c, f, seq[c])
  BY DEF SnapshotEnqueues
<1> QED
  BY <1>1, SnapshotPublishes DEF SnapshotEnqueues

-----------------------------------------------------------------------------
(***************************************************************************)
(* What a step of one side leaves to the other.                            *)
(***************************************************************************)

LEMMA LastSeqIsNat ==
    ASSUME StoreTypeOK
    PROVE  lastSeq \in [Client -> Nat] /\ \A c \in Client : lastSeq[c] \in Nat
  BY SequenceFacts DEF StoreTypeOK

LEMMA HistoryRowFacts ==
    ASSUME NEW c \in Client, NEW t \in Clock
    PROVE  /\ \A e \in Event : HistoryRow(c, e, t) \in EventRow
           /\ \A s \in Snapshot : HistoryRow(c, s, t) \in SnapshotRow
           /\ \A x : /\ HistoryRow(c, x, t).client = c
                     /\ HistoryRow(c, x, t).seq = x.seq
                     /\ HistoryRow(c, x, t).id = x.id
                     /\ HistoryRow(c, x, t).payload = x
  BY DEF HistoryRow, EventRow, SnapshotRow, Event, Snapshot

\* The receiver does not see that its senders go on.
LEMMA ReceiverStays ==
    ASSUME SourceIInv, SourceIInv', ReceiverIInv, NothingIsDropped', Grows,
           UNCHANGED storeVars
    PROVE  ReceiverIInv'
<1>0. SenderTypeOK /\ SenderTypeOK' /\ StoreTypeOK
  BY DEF SourceIInv, SenderIInv, ReceiverIInv
<1>1. UNCHANGED <<lastSeq, claims, events, snapshots, now, txn, reply>>
  BY DEF storeVars
<1>2. \A c \in Client : /\ lastSeq[c] \in Nat /\ seq[c] \in Nat /\ seq'[c] \in Nat
                        /\ lastSeq[c] <= seq[c] /\ seq[c] <= seq'[c]
  BY <1>0, LastSeqIsNat, SequenceFacts DEF ReceiverIInv, NeverAhead, Grows, SenderTypeOK
<1>3. StoreTypeOK' /\ NoConflict'
  BY <1>0, <1>1 DEF StoreTypeOK, NoConflict, ReceiverIInv
<1>4. NeverAhead'
  BY <1>1, <1>2 DEF NeverAhead
<1>5. ReceiverHoldsAPrefix'
  <2>1. \A c \in Client : lastSeq[c] \in 0 .. seq[c]
    BY <1>2
  <2>2. \A c \in Client : NextImageAt(c, lastSeq[c]) = ImageAt(c, lastSeq[c])
    BY <2>1 DEF Grows, NextImageAt, ImageAt
  <2> QED
    BY <1>1, <2>2 DEF ReceiverIInv, ReceiverHoldsAPrefix, NextImageAt, ImageAt
<1>6. ASSUME NEW kind, NEW h, h.client \in Client, HistoryMoves(kind, h)
      PROVE  HistoryMoves(kind, h)'
  BY <1>0, <1>1, <1>6, MovesStays DEF HistoryMoves
<1>7. HistoryInOrder'
  <2>1. \A h \in events \cup snapshots : h.client \in Client
    BY <1>0 DEF StoreTypeOK, EventRow, SnapshotRow
  <2> QED
    BY <1>1, <1>6, <2>1 DEF ReceiverIInv, HistoryInOrder
<1>8. TransactionApplies'
  <2>1. SUFFICES ASSUME txn # None PROVE TransactionApplies'
    BY <1>1 DEF TransactionApplies
  <2>2. txn.client \in Client
    BY <1>0, <2>1 DEF StoreTypeOK, Txn
  <2>3. PICK q : q = TransactionRequest
    OBVIOUS
  <2>4. PICK c \in Client : c = txn.client
    BY <2>2
  <2>5. Moves(c, q)'
    BY <1>0, <2>1, <2>3, <2>4, MovesStays DEF ReceiverIInv, TransactionApplies
  <2>6. TransactionRequest' = q /\ txn' = txn
    BY <1>1, <2>3 DEF TransactionRequest
  <2>7. Moves(txn.client, TransactionRequest)'
    BY <2>4, <2>5, <2>6
  <2> QED
    BY <1>1, <2>1, <2>7 DEF ReceiverIInv, TransactionApplies
<1> QED
  BY <1>3, <1>4, <1>5, <1>7, <1>8 DEF ReceiverIInv

LEMMA InOrderStays ==
    ASSUME SenderTypeOK, SenderTypeOK', StoreTypeOK, StoreTypeOK', Grows,
           NEW c \in Client, lastSeq[c] <= lastSeq'[c], NEW q, InOrder(c, q)
    PROVE  InOrder(c, q)'
<1>1. Moves(c, q)' /\ q.body.seq <= lastSeq[c] + 1
  BY MovesStays DEF InOrder
<1>2. q.body.seq \in Nat
  BY RequestFacts DEF InOrder, Moves
<1>3. lastSeq[c] \in Nat /\ lastSeq'[c] \in Nat
  BY SequenceFacts DEF StoreTypeOK
<1> QED
  BY <1>1, <1>2, <1>3 DEF InOrder

LEMMA NetworkStep ==
    ASSUME SourceIInv, SourceIInv', ReceiverIInv, ReceiverIInv', Grows,
           \A c \in Client : lastSeq[c] <= lastSeq'[c],
           NetworkTypeOK', AnswerIsCovered', TransactionOwned',
           \A c \in Client : worker'[c] # Idle => InOrder(c, worker'[c].request),
           \A c \in Client : \A q \in late'[c] : InOrder(c, q)
    PROVE  NetworkIInv'
<1>1. SenderTypeOK /\ SenderTypeOK' /\ StoreTypeOK /\ StoreTypeOK'
  BY DEF SourceIInv, SenderIInv, ReceiverIInv
<1>2. \A c \in Client : \A q : InOrder(c, q) => InOrder(c, q)'
  BY <1>1, InOrderStays
<1>3. \A c \in Client : worker'[c] # Idle => InOrder(c, worker[c].request)'
  <2>1. SUFFICES ASSUME NEW c \in Client, worker'[c] # Idle
                 PROVE  InOrder(c, worker[c].request)'
    OBVIOUS
  <2>2. PICK q : q = worker'[c].request
    OBVIOUS
  <2>3. InOrder(c, q)'
    BY <1>2, <2>1, <2>2
  <2> QED
    BY <2>2, <2>3
<1>4. RequestsInOrder'
  BY <1>2, <1>3 DEF RequestsInOrder
<1> QED
  BY <1>4 DEF NetworkIInv

-----------------------------------------------------------------------------
(***************************************************************************)
(* The next request of a client, applied to a store that holds a prefix.   *)
(***************************************************************************)

LEMMA RowFactsOf ==
    ASSUME NEW c \in Client
    PROVE  /\ \A x \in Claim : RowOf(c, x) \in Row /\ RowOf(c, x).client = c
                               /\ Identity(RowOf(c, x)) = Identity(x)
                               /\ RowOf(c, x).ip = x.ip
           /\ \A x, y \in Claim : RowOf(c, x) = RowOf(c, y) => x = y
  BY DEF Claim, Row, RowOf, Identity

\* The states before and after the next request.
LEMMA PrefixFacts ==
    ASSUME SourceIInv, StoreTypeOK, NeverAhead, ReceiverHoldsAPrefix, NEW c \in Client
    PROVE  /\ ImageAt(c, lastSeq[c]) \in SUBSET Claim
           /\ Of(c, claims) = {RowOf(c, x) : x \in ImageAt(c, lastSeq[c])}
           /\ lastSeq[c] < seq[c] =>
                /\ ImageAt(c, lastSeq[c] + 1) \in SUBSET Claim
                /\ \A x \in ImageAt(c, lastSeq[c]), y \in ImageAt(c, lastSeq[c] + 1) :
                      Identity(x) = Identity(y) => x = y
           /\ \A x, y \in ImageAt(c, lastSeq[c]) : Identity(x) = Identity(y) => x = y
<1>1. lastSeq[c] \in Nat /\ seq[c] \in Nat /\ lastSeq[c] <= seq[c]
  BY LastSeqIsNat, SeqIsNat DEF SourceIInv, SenderIInv, NeverAhead
<1>2. image[c] \in Seq(SUBSET Claim) /\ Len(image[c]) = seq[c]
  BY DEF SourceIInv, HistoryFollows
<1>3. \A n \in 0 .. seq[c] : ImageAt(c, n) \in SUBSET Claim
  <2>1. SUFFICES ASSUME NEW n \in 0 .. seq[c] PROVE ImageAt(c, n) \in SUBSET Claim
    OBVIOUS
  <2>2. CASE n = 0
    BY <2>2 DEF ImageAt
  <2>3. CASE n \in 1 .. seq[c]
    <3>1. image[c][n] \in SUBSET Claim /\ n # 0
      BY <1>2, <2>3
    <3> QED
      BY <3>1 DEF ImageAt
  <2> QED
    BY <1>1, <2>2, <2>3
<1>4. lastSeq[c] \in 0 .. seq[c] /\ (lastSeq[c] < seq[c] => lastSeq[c] + 1 \in 0 .. seq[c])
  BY <1>1
<1> QED
  BY <1>3, <1>4 DEF SourceIInv, IdentityIsForever, ReceiverHoldsAPrefix

\* The next event never rebinds an identity, and writes exactly its claim.
LEMMA EventApplies ==
    ASSUME SourceIInv, StoreTypeOK, NeverAhead, ReceiverHoldsAPrefix,
           NEW c \in Client, NEW e \in Event,
           Moves(c, [kind |-> "event", body |-> e]), e.seq = lastSeq[c] + 1
    PROVE  /\ ~Rebinds(claims, c, e)
           /\ WriteClaim(claims, c, e) = IF e.op = "ban" THEN claims \cup {RowOf(c, e)}
                                         ELSE claims \ {RowOf(c, e)}
           /\ WriteClaim(claims, c, e) \in SUBSET Row
           /\ Of(c, WriteClaim(claims, c, e)) = {RowOf(c, x) : x \in ImageAt(c, e.seq)}
           /\ \A d \in Client : d # c => Of(d, WriteClaim(claims, c, e)) = Of(d, claims)
           /\ lastSeq[c] < seq[c]
<1> DEFINE a == Subject(e)
           S == ImageAt(c, lastSeq[c])
           T == ImageAt(c, e.seq)
<1>1. a \in Claim /\ Identity(a) = Identity(e) /\ RowOf(c, a) = RowOf(c, e)
  BY SubjectIsClaim
<1>2. lastSeq[c] \in Nat /\ seq[c] \in Nat /\ e.seq - 1 = lastSeq[c] /\ e.seq \in 1 .. seq[c]
  <2>1. lastSeq[c] \in Nat /\ seq[c] \in Nat
    BY LastSeqIsNat, SeqIsNat DEF SourceIInv, SenderIInv
  <2> QED
    BY <2>1 DEF Moves
<1>3. lastSeq[c] < seq[c]
  BY <1>2
<1>4. /\ e.op \in {"ban", "unban"}
      /\ e.op = "ban" => a \notin S /\ T = S \cup {a}
      /\ e.op = "unban" => a \in S /\ T = S \ {a}
  BY <1>2 DEF Moves, Event
<1>5. /\ S \in SUBSET Claim /\ T \in SUBSET Claim
      /\ Of(c, claims) = {RowOf(c, x) : x \in S}
      /\ \A x \in S, y \in T : Identity(x) = Identity(y) => x = y
      /\ \A x, y \in S : Identity(x) = Identity(y) => x = y
  BY <1>3, PrefixFacts
<1> HIDE DEF a, S, T
<1>6. \A x \in S : Identity(x) = Identity(e) => x = a
  BY <1>1, <1>4, <1>5
<1>7. Held(claims, c, e) = {RowOf(c, x) : x \in S \cap {a}}
  BY <1>1, <1>5, <1>6, RowFactsOf DEF Held
<1>8. RowOf(c, a).ip = e.ip
  BY DEF RowOf, a, Subject
<1>9. ~Rebinds(claims, c, e)
  BY <1>7, <1>8 DEF Rebinds
<1>10. WriteClaim(claims, c, e) = IF e.op = "ban" THEN claims \cup {RowOf(c, e)}
                                 ELSE claims \ {RowOf(c, e)}
  <2>1. CASE e.op = "ban"
    <3>1. Held(claims, c, e) = {}
      BY <1>4, <1>7, <2>1
    <3> QED
      BY <2>1, <3>1 DEF WriteClaim
  <2>2. CASE e.op = "unban"
    <3>1. {r \in Held(claims, c, e) : r.ip = e.ip} = {RowOf(c, e)}
      BY <1>1, <1>4, <1>7, <1>8, <2>2
    <3> QED
      BY <2>2, <3>1 DEF WriteClaim
  <2> QED
    BY <1>4, <2>1, <2>2
<1>11. RowOf(c, e) \in Row /\ RowOf(c, e).client = c
  BY <1>1, RowFactsOf
<1>12. WriteClaim(claims, c, e) \in SUBSET Row
  BY <1>10, <1>11 DEF StoreTypeOK
<1>13. Of(c, WriteClaim(claims, c, e)) = IF e.op = "ban" THEN Of(c, claims) \cup {RowOf(c, e)}
                                        ELSE Of(c, claims) \ {RowOf(c, e)}
  BY <1>10, <1>11 DEF Of
<1>14. Of(c, WriteClaim(claims, c, e)) = {RowOf(c, x) : x \in T}
  <2>1. CASE e.op = "ban"
    BY <1>1, <1>4, <1>5, <1>13, <2>1
  <2>2. CASE e.op = "unban"
    <3>1. \A x \in S : x # a => RowOf(c, x) # RowOf(c, a)
      BY <1>1, <1>5, RowFactsOf
    <3>2. Of(c, WriteClaim(claims, c, e)) = {RowOf(c, x) : x \in S} \ {RowOf(c, a)}
      BY <1>1, <1>5, <1>13, <2>2
    <3>3. T = S \ {a}
      BY <1>4, <2>2
    <3> QED
      BY <3>1, <3>2, <3>3
  <2> QED
    BY <1>4, <2>1, <2>2
<1>15. \A d \in Client : d # c => Of(d, WriteClaim(claims, c, e)) = Of(d, claims)
  BY <1>10, <1>11 DEF Of
<1> QED
  BY <1>3, <1>9, <1>10, <1>12, <1>14, <1>15 DEF T

\* The next snapshot rebinds nothing either.
LEMMA SnapshotApplies ==
    ASSUME SourceIInv, StoreTypeOK, NeverAhead, ReceiverHoldsAPrefix,
           NEW c \in Client, NEW s \in Snapshot,
           Moves(c, [kind |-> "snapshot", body |-> s]), s.seq = lastSeq[c] + 1
    PROVE  /\ ~SnapshotRebinds(claims, c, s)
           /\ WriteSnapshot(claims, c, s) \in SUBSET Row
           /\ Of(c, WriteSnapshot(claims, c, s)) = {RowOf(c, x) : x \in ImageAt(c, s.seq)}
           /\ \A d \in Client : d # c => Of(d, WriteSnapshot(claims, c, s)) = Of(d, claims)
           /\ lastSeq[c] < seq[c]
<1>1. lastSeq[c] \in Nat /\ seq[c] \in Nat /\ s.seq \in 1 .. seq[c]
  <2>1. lastSeq[c] \in Nat /\ seq[c] \in Nat
    BY LastSeqIsNat, SeqIsNat DEF SourceIInv, SenderIInv
  <2> QED
    BY <2>1 DEF Moves
<1>2. lastSeq[c] < seq[c]
  BY <1>1
<1> DEFINE S == ImageAt(c, lastSeq[c])
           T == ImageAt(c, s.seq)
<1>3. s.claims = T
  BY DEF Moves
<1>4. /\ S \in SUBSET Claim /\ T \in SUBSET Claim
      /\ Of(c, claims) = {RowOf(c, x) : x \in S}
      /\ \A x \in S, y \in T : Identity(x) = Identity(y) => x = y
  BY <1>2, PrefixFacts
<1> HIDE DEF S, T
<1>5. ~SnapshotRebinds(claims, c, s)
  BY <1>3, <1>4, RowFactsOf DEF SnapshotRebinds
<1>6. \A x \in T : RowOf(c, x) \in Row /\ RowOf(c, x).client = c
  BY <1>4, RowFactsOf
<1>7. WriteSnapshot(claims, c, s) = {r \in claims : r.client # c} \cup {RowOf(c, x) : x \in T}
  BY <1>3 DEF WriteSnapshot
<1>8. WriteSnapshot(claims, c, s) \in SUBSET Row
  BY <1>6, <1>7 DEF StoreTypeOK
<1>9. Of(c, WriteSnapshot(claims, c, s)) = {RowOf(c, x) : x \in T}
  BY <1>6, <1>7 DEF Of
<1>10. \A d \in Client : d # c => Of(d, WriteSnapshot(claims, c, s)) = Of(d, claims)
  BY <1>6, <1>7 DEF Of
<1> QED
  BY <1>2, <1>5, <1>8, <1>9, <1>10 DEF T

-----------------------------------------------------------------------------
(***************************************************************************)
(* The steps of the store, for requests in order.                          *)
(***************************************************************************)

LEMMA SourceStays ==
    ASSUME SourceIInv, UNCHANGED <<senderVars, image>>
    PROVE  SourceIInv' /\ Grows
<1>1. UNCHANGED <<seq, rows, outbox, drawn, image>>
  BY DEF senderVars
<1>2. SenderIInv'
  BY <1>1 DEF SourceIInv, SenderIInv, SenderTypeOK, IdsAreDrawn, IdsAreUnique,
              SequencesAreUnique
<1>3. HistoryFollows' /\ IdentityIsForever'
  BY <1>1 DEF SourceIInv, HistoryFollows, IdentityIsForever, ImageAt
<1>4. OutboxMoves'
  BY <1>1 DEF SourceIInv, OutboxMoves, Moves, ImageAt
<1>5. Grows
  BY <1>1, GrowsWhenUnchanged DEF SourceIInv, SenderIInv
<1> QED
  BY <1>2, <1>3, <1>4, <1>5 DEF SourceIInv

LEMMA MovesUnchanged ==
    ASSUME UNCHANGED <<senderVars, image>>, NEW c, NEW q
    PROVE  Moves(c, q)' <=> Moves(c, q)
  BY DEF senderVars, Moves, ImageAt

\* The id of a known request is the id of that request alone.
LEMMA NeverReused ==
    ASSUME HistoryInOrder, NEW c \in Client
    PROVE  /\ \A e : Moves(c, [kind |-> "event", body |-> e]) =>
                 ~Reused(events, c, e)
                 /\ (Prior(events, c, e) # {} => e.seq <= lastSeq[c])
           /\ \A s : Moves(c, [kind |-> "snapshot", body |-> s]) =>
                 ~Reused(snapshots, c, s)
                 /\ (Prior(snapshots, c, s) # {} => s.seq <= lastSeq[c])
<1>1. ASSUME NEW kind, NEW x, NEW h,
             Moves(c, [kind |-> kind, body |-> x]),
             HistoryMoves(kind, h), h.client = c, h.id = x.id
      PROVE  h.seq = x.seq /\ h.payload = x /\ x.seq <= lastSeq[c]
  <2>1. /\ Moves(c, [kind |-> kind, body |-> h.payload])
        /\ h.seq = h.payload.seq /\ h.id = h.payload.id /\ h.seq <= lastSeq[c]
    BY <1>1 DEF HistoryMoves
  <2>2. x.id = x.seq /\ h.payload.id = h.payload.seq
    BY <1>1, <2>1 DEF Moves
  <2>3. h.payload.seq = x.seq
    BY <1>1, <2>1, <2>2
  <2>4. PICK p : p = [kind |-> kind, body |-> h.payload]
    OBVIOUS
  <2>5. PICK q : q = [kind |-> kind, body |-> x]
    OBVIOUS
  <2>6. p.body = q.body
    BY <1>1, <2>1, <2>3, <2>4, <2>5, MovesOnce
  <2> QED
    BY <2>1, <2>3, <2>4, <2>5, <2>6
<1>2. \A e : Moves(c, [kind |-> "event", body |-> e]) =>
         ~Reused(events, c, e) /\ (Prior(events, c, e) # {} => e.seq <= lastSeq[c])
  BY <1>1 DEF HistoryInOrder, Prior, Reused, Of
<1>3. \A s : Moves(c, [kind |-> "snapshot", body |-> s]) =>
         ~Reused(snapshots, c, s) /\ (Prior(snapshots, c, s) # {} => s.seq <= lastSeq[c])
  BY <1>1 DEF HistoryInOrder, Prior, Reused, Of
<1> QED
  BY <1>2, <1>3

\* A step that only answers.
LEMMA AnswerKeeps ==
    ASSUME SourceIInv, ReceiverIInv, UNCHANGED <<senderVars, image>>,
           NEW c \in Client, NEW n \in Seqs, NEW result \in Results \ {"conflict"},
           Answer(c, n, result), UNCHANGED <<tables, now, txn>>
    PROVE  ReceiverIInv' /\ reply'.result = result
<1>1. UNCHANGED <<lastSeq, claims, events, snapshots, now, txn, seq, image, outbox>>
  BY DEF tables, senderVars
<1>2. reply' \in Reply /\ reply'.result = result
  BY DEF Answer, Reply
<1>3. StoreTypeOK' /\ NoConflict'
  BY <1>1, <1>2 DEF ReceiverIInv, StoreTypeOK, NoConflict
<1>4. NeverAhead' /\ NothingIsDropped' /\ ReceiverHoldsAPrefix'
  BY <1>1 DEF ReceiverIInv, NeverAhead, NothingIsDropped, ReceiverHoldsAPrefix, ImageAt,
              Undelivered
<1>5. HistoryInOrder'
  BY <1>1 DEF ReceiverIInv, HistoryInOrder, HistoryMoves, Moves, ImageAt
<1>6. TransactionApplies'
  BY <1>1 DEF ReceiverIInv, TransactionApplies, TransactionRequest, Moves, ImageAt
<1> QED
  BY <1>2, <1>3, <1>4, <1>5, <1>6 DEF ReceiverIInv

LEMMA SingleBatch ==
    ASSUME NEW e
    PROVE  /\ Len(<<e>>) = 1 /\ <<e>>[1] = e /\ FirstSeq(<<e>>) = e.seq /\ LastSeq(<<e>>) = e.seq
           /\ \A i \in 1 .. Len(<<e>>) : <<e>>[i] = e
  BY DEF FirstSeq, LastSeq

\* apply_events decides at once: it is an old event, and never a conflict.
LEMMA EventDecided ==
    ASSUME SourceIInv, ReceiverIInv, UNCHANGED <<senderVars, image>>,
           NEW c \in Client, NEW e \in Event, Moves(c, [kind |-> "event", body |-> e]),
           RejectBatch(c, <<e>>) \/ AnswerOldBatch(c, <<e>>)
    PROVE  /\ ReceiverIInv'
           /\ UNCHANGED <<lastSeq, txn>>
           /\ reply'.result \in Results
           /\ e.seq <= lastSeq[c]
<1>0. StoreTypeOK /\ HistoryInOrder
  BY DEF ReceiverIInv
<1>1. lastSeq[c] \in Nat /\ e.seq \in Nat /\ e.seq \in Seqs
  BY <1>0, LastSeqIsNat, SequenceFacts DEF Event
<1>2. ~Reused(events, c, e) /\ (Prior(events, c, e) # {} => e.seq <= lastSeq[c])
  BY <1>0, NeverReused
<1>3. ~AnyReused(c, <<e>>) /\ ~Crosses(c, <<e>>) /\ ~(~Old(c, <<e>>) /\ AnyKnown(c, <<e>>))
  BY <1>1, <1>2, SingleBatch DEF AnyReused, Crosses, Old, AnyKnown
<1>4. AnswerOldBatch(c, <<e>>)
  BY <1>3 DEF RejectBatch
<1>5. e.seq <= lastSeq[c]
  BY <1>4, SingleBatch DEF AnswerOldBatch, Old
<1>6. PICK result \in {"duplicate", "stale"} : Answer(c, e.seq, result)
  BY <1>4, SingleBatch DEF AnswerOldBatch
<1>7. UNCHANGED <<tables, now, txn>>
  BY <1>4 DEF AnswerOldBatch
<1>8. ReceiverIInv' /\ reply'.result = result
  BY <1>1, <1>6, <1>7, AnswerKeeps DEF Results
<1> QED
  BY <1>5, <1>6, <1>7, <1>8 DEF tables, Results

LEMMA SnapshotRefused ==
    ASSUME SourceIInv, ReceiverIInv, UNCHANGED <<senderVars, image>>,
           NEW c \in Client, NEW s \in Snapshot, InOrder(c, [kind |-> "snapshot", body |-> s]),
           RejectSnapshot(c, s)
    PROVE  /\ ReceiverIInv'
           /\ UNCHANGED <<lastSeq, txn>>
           /\ reply'.result = "limit"
<1>0. StoreTypeOK /\ HistoryInOrder /\ NeverAhead /\ ReceiverHoldsAPrefix
  BY DEF ReceiverIInv
<1>1. lastSeq[c] \in Nat /\ s.seq \in Nat /\ s.seq \in Seqs
  BY <1>0, LastSeqIsNat, SequenceFacts DEF Snapshot
<1>2. Moves(c, [kind |-> "snapshot", body |-> s]) /\ s.seq <= lastSeq[c] + 1
  BY DEF InOrder
<1>3. ~Reused(snapshots, c, s)
  BY <1>0, <1>2, NeverReused
<1>4. s.seq > lastSeq[c] => ~SnapshotRebinds(claims, c, s)
  <2>1. s.seq > lastSeq[c] => s.seq = lastSeq[c] + 1
    BY <1>1, <1>2
  <2> QED
    BY <1>0, <1>2, <2>1, SnapshotApplies
<1>5. Answer(c, s.seq, "limit") /\ UNCHANGED <<tables, now, txn>>
  BY <1>3, <1>4 DEF RejectSnapshot
<1>6. ReceiverIInv' /\ reply'.result = "limit"
  BY <1>1, <1>5, AnswerKeeps DEF Results
<1> QED
  BY <1>5, <1>6 DEF tables

LEMMA SnapshotIsOld ==
    ASSUME SourceIInv, ReceiverIInv, UNCHANGED <<senderVars, image>>,
           NEW c \in Client, NEW s \in Snapshot, AnswerOldSnapshot(c, s)
    PROVE  /\ ReceiverIInv'
           /\ UNCHANGED <<lastSeq, txn>>
           /\ reply'.result \in Results
           /\ s.seq <= lastSeq[c]
<1>1. s.seq <= lastSeq[c] /\ UNCHANGED <<tables, now, txn>>
  BY DEF AnswerOldSnapshot
<1>2. PICK result \in {"duplicate", "stale"} : Answer(c, s.seq, result)
  BY DEF AnswerOldSnapshot
<1>3. s.seq \in Seqs
  BY DEF Snapshot
<1>4. ReceiverIInv' /\ reply'.result = result
  BY <1>1, <1>2, <1>3, AnswerKeeps DEF Results
<1> QED
  BY <1>1, <1>2, <1>4 DEF tables, Results

\* The tables go on to the next state of one client.
LEMMA CommitStep ==
    ASSUME SourceIInv, ReceiverIInv, StoreTypeOK', UNCHANGED <<senderVars, image>>,
           NEW c \in Client, NEW n, n = lastSeq[c] + 1, lastSeq[c] < seq[c],
           lastSeq' = [lastSeq EXCEPT ![c] = n],
           Of(c, claims') = {RowOf(c, x) : x \in ImageAt(c, n)},
           \A d \in Client : d # c => Of(d, claims') = Of(d, claims),
           NEW kind \in {"event", "snapshot"}, NEW new,
           Moves(c, [kind |-> kind, body |-> new.payload]),
           new.client = c, new.seq = n, new.seq = new.payload.seq, new.id = new.payload.id,
           events' \subseteq events \cup IF kind = "event" THEN {new} ELSE {},
           snapshots' \subseteq snapshots \cup IF kind = "snapshot" THEN {new} ELSE {},
           txn' = None, reply'.result # "conflict"
    PROVE  ReceiverIInv' /\ \A d \in Client : lastSeq[d] <= lastSeq'[d]
<1>0. StoreTypeOK /\ UNCHANGED <<seq, outbox, image>>
  BY DEF ReceiverIInv, senderVars
<1>1. /\ lastSeq'[c] = n
      /\ \A d \in Client : d # c => lastSeq'[d] = lastSeq[d]
      /\ \A d \in Client : lastSeq[d] \in Nat /\ seq[d] \in Nat /\ lastSeq[d] <= seq[d]
  BY <1>0, LastSeqIsNat, SeqIsNat
     DEF ReceiverIInv, NeverAhead, StoreTypeOK, SourceIInv, SenderIInv
<1>2. \A d \in Client : lastSeq[d] <= lastSeq'[d] /\ lastSeq'[d] <= seq[d] /\ lastSeq'[d] \in Nat
  BY <1>1
<1>3. NeverAhead' /\ NoConflict'
  BY <1>0, <1>2 DEF NeverAhead, NoConflict
<1>4. NothingIsDropped'
  <2>1. SUFFICES ASSUME NEW d \in Client, NEW m \in (lastSeq'[d] + 1) .. seq[d]
                 PROVE  \E r \in Undelivered(d) : r.seq = m
    BY <1>0 DEF NothingIsDropped, Undelivered
  <2>2. m \in (lastSeq[d] + 1) .. seq[d]
    BY <1>1, <1>2
  <2> QED
    BY <2>2 DEF ReceiverIInv, NothingIsDropped
<1>5. ReceiverHoldsAPrefix'
  <2>1. SUFFICES ASSUME NEW d \in Client
                 PROVE  Of(d, claims') = {RowOf(d, x) : x \in ImageAt(d, lastSeq'[d])}
    BY <1>0 DEF ReceiverHoldsAPrefix, ImageAt, Of, RowOf
  <2> QED
    BY <1>1 DEF ReceiverIInv, ReceiverHoldsAPrefix
<1>6. ASSUME NEW k, NEW h, h.client \in Client, HistoryMoves(k, h)
      PROVE  HistoryMoves(k, h)'
  <2>1. h.seq <= lastSeq'[h.client]
    <3>1. h.seq \in Nat
      <4>1. PICK q : q = [kind |-> k, body |-> h.payload]
        OBVIOUS
      <4>2. q \in Request
        BY <1>6, <4>1 DEF HistoryMoves, Moves
      <4> QED
        BY <1>6, <4>1, <4>2, RequestFacts DEF HistoryMoves
    <3> QED
      BY <1>1, <1>2, <1>6, <3>1 DEF HistoryMoves
  <2> QED
    BY <1>6, <2>1, MovesUnchanged DEF HistoryMoves
<1>7. HistoryMoves(kind, new)'
  <2>1. new.seq <= lastSeq'[c]
    BY <1>1, <1>2
  <2> QED
    BY <2>1, MovesUnchanged DEF HistoryMoves
<1>8. HistoryInOrder'
  <2>1. \A h \in events \cup snapshots : h.client \in Client
    BY <1>0 DEF StoreTypeOK, EventRow, SnapshotRow
  <2>2. \A h \in events' : HistoryMoves("event", h)'
    BY <1>6, <1>7, <2>1 DEF ReceiverIInv, HistoryInOrder
  <2>3. \A h \in snapshots' : HistoryMoves("snapshot", h)'
    BY <1>6, <1>7, <2>1 DEF ReceiverIInv, HistoryInOrder
  <2> QED
    BY <2>2, <2>3 DEF HistoryInOrder
<1>9. TransactionApplies'
  BY DEF TransactionApplies
<1> QED
  BY <1>2, <1>3, <1>4, <1>5, <1>8, <1>9 DEF ReceiverIInv

LEMMA SnapshotCommitted ==
    ASSUME SourceIInv, ReceiverIInv, UNCHANGED <<senderVars, image>>,
           NEW c \in Client, NEW s \in Snapshot, InOrder(c, [kind |-> "snapshot", body |-> s]),
           CommitSnapshot(c, s)
    PROVE  /\ ReceiverIInv'
           /\ \A d \in Client : lastSeq[d] <= lastSeq'[d]
           /\ lastSeq' = [lastSeq EXCEPT ![c] = s.seq] /\ s.seq = lastSeq[c] + 1
           /\ lastSeq[c] < seq[c]
           /\ txn' = txn /\ reply'.result = "accepted"
<1>0. StoreTypeOK /\ NeverAhead /\ ReceiverHoldsAPrefix
  BY DEF ReceiverIInv
<1>1. lastSeq[c] \in Nat /\ s.seq \in Nat /\ s.seq \in Seqs
  BY <1>0, LastSeqIsNat, SequenceFacts DEF Snapshot
<1>2. /\ Moves(c, [kind |-> "snapshot", body |-> s]) /\ s.seq <= lastSeq[c] + 1
      /\ s.seq > lastSeq[c]
  BY DEF InOrder, CommitSnapshot
<1>3. s.seq = lastSeq[c] + 1
  BY <1>1, <1>2
<1>4. /\ WriteSnapshot(claims, c, s) \in SUBSET Row
      /\ Of(c, WriteSnapshot(claims, c, s)) = {RowOf(c, x) : x \in ImageAt(c, s.seq)}
      /\ \A d \in Client : d # c => Of(d, WriteSnapshot(claims, c, s)) = Of(d, claims)
      /\ lastSeq[c] < seq[c]
  BY <1>0, <1>2, <1>3, SnapshotApplies
<1>5. PICK new : new = HistoryRow(c, s, now)
  OBVIOUS
<1>6. /\ new \in SnapshotRow /\ new.client = c /\ new.seq = s.seq /\ new.id = s.id
      /\ new.payload = s
  BY <1>0, <1>5, HistoryRowFacts DEF StoreTypeOK
<1>7. /\ claims' = WriteSnapshot(claims, c, s)
      /\ snapshots' \subseteq snapshots \cup {new}
      /\ events' = events /\ now' = now /\ txn' = txn /\ txn' = None
      /\ lastSeq' = [lastSeq EXCEPT ![c] = s.seq]
      /\ reply' = [client |-> c, seq |-> s.seq, result |-> "accepted"]
  BY <1>5 DEF CommitSnapshot, KeepNewest, Answer, Unlocked
<1>8. reply' \in Reply /\ reply'.result = "accepted"
  BY <1>1, <1>7 DEF Reply, Results
<1>9. StoreTypeOK'
  <2>1. lastSeq' \in [Client -> 0 .. MaxSeq]
    BY <1>0, <1>1, <1>7, SequenceFacts DEF StoreTypeOK
  <2> QED
    BY <1>0, <1>4, <1>6, <1>7, <1>8, <2>1 DEF StoreTypeOK
<1>10. Moves(c, [kind |-> "snapshot", body |-> new.payload])
  BY <1>2, <1>6
<1>11. /\ events' \subseteq events \cup IF "snapshot" = "event" THEN {new} ELSE {}
       /\ snapshots' \subseteq snapshots \cup IF "snapshot" = "snapshot" THEN {new} ELSE {}
  BY <1>7
<1>12. ReceiverIInv' /\ \A d \in Client : lastSeq[d] <= lastSeq'[d]
  BY <1>3, <1>4, <1>6, <1>7, <1>8, <1>9, <1>10, <1>11, CommitStep
<1> QED
  BY <1>3, <1>4, <1>7, <1>8, <1>12

\* The parts of the invariant that a step which leaves the tables alone keeps.
LEMMA TablesKeep ==
    ASSUME SourceIInv, ReceiverIInv, UNCHANGED <<senderVars, image>>,
           UNCHANGED <<lastSeq, claims>>, events' \subseteq events, snapshots' \subseteq snapshots,
           StoreTypeOK', TransactionApplies', NoConflict'
    PROVE  ReceiverIInv'
<1>1. UNCHANGED <<lastSeq, claims, seq, image, outbox>>
  BY DEF senderVars
<1>2. NeverAhead' /\ NothingIsDropped' /\ ReceiverHoldsAPrefix'
  BY <1>1 DEF ReceiverIInv, NeverAhead, NothingIsDropped, ReceiverHoldsAPrefix, ImageAt,
              Undelivered
<1>3. \A k, h : HistoryMoves(k, h) => HistoryMoves(k, h)'
  BY <1>1 DEF HistoryMoves, Moves, ImageAt
<1>4. HistoryInOrder'
  BY <1>3 DEF ReceiverIInv, HistoryInOrder
<1> QED
  BY <1>2, <1>4 DEF ReceiverIInv

LEMMA BatchBegins ==
    ASSUME SourceIInv, ReceiverIInv, UNCHANGED <<senderVars, image>>,
           NEW c \in Client, NEW e \in Event, InOrder(c, [kind |-> "event", body |-> e]),
           BeginBatch(c, <<e>>)
    PROVE  /\ ReceiverIInv'
           /\ lastSeq' = lastSeq
           /\ txn'.client = c
           /\ TransactionRequest' = [kind |-> "event", body |-> e]
<1>0. StoreTypeOK
  BY DEF ReceiverIInv
<1>1. /\ txn' = [client |-> c, batch |-> <<e>>, done |-> 0, at |-> now,
                 claims |-> claims, events |-> events]
      /\ UNCHANGED <<lastSeq, claims, events, snapshots, now, reply>>
      /\ e.seq > lastSeq[c]
  <2>1. ~Old(c, <<e>>)
    BY DEF BeginBatch
  <2>2. lastSeq[c] \in Nat /\ e.seq \in Nat
    BY <1>0, LastSeqIsNat, SequenceFacts DEF Event
  <2>3. e.seq > lastSeq[c]
    BY <2>1, <2>2, SingleBatch DEF Old
  <2> QED
    BY <2>3 DEF BeginBatch, tables
<1>2. e.seq = lastSeq[c] + 1 /\ Moves(c, [kind |-> "event", body |-> e])
  <2>1. lastSeq[c] \in Nat /\ e.seq \in Nat
    BY <1>0, LastSeqIsNat, SequenceFacts DEF Event
  <2> QED
    BY <1>1, <2>1 DEF InOrder
<1>3. <<e>> \in Seq(Event) /\ <<e>>[1] = e /\ Len(<<e>>) = 1
  OBVIOUS
<1>4. txn' \in Txn
  BY <1>0, <1>1, <1>3 DEF Txn, StoreTypeOK
<1>5. StoreTypeOK' /\ NoConflict'
  BY <1>0, <1>1, <1>4 DEF StoreTypeOK, NoConflict, ReceiverIInv
<1>6. /\ txn'.client = c /\ txn'.batch[1] = e /\ Len(txn'.batch) = 1 /\ txn'.done = 0
      /\ txn'.claims = claims /\ txn'.events = events
  BY <1>1, <1>3
<1>7. TransactionRequest' = [kind |-> "event", body |-> e]
  BY <1>6 DEF TransactionRequest
<1>8. Moves(txn.client, TransactionRequest)'
  BY <1>2, <1>6, <1>7 DEF Moves, ImageAt, senderVars
<1>9. TransactionApplies'
  BY <1>1, <1>2, <1>6, <1>8 DEF TransactionApplies
<1>10. ReceiverIInv'
  BY <1>1, <1>5, <1>9, TablesKeep
<1> QED
  BY <1>1, <1>6, <1>7, <1>10

\* What is known of the open transaction.
LEMMA OpenFacts ==
    ASSUME ReceiverIInv, txn # None
    PROVE  /\ StoreTypeOK /\ txn \in Txn /\ txn.client \in Client
           /\ Len(txn.batch) = 1 /\ txn.batch \in Seq(Event) /\ txn.batch[1] \in Event
           /\ txn.done \in {0, 1}
           /\ LastSeq(txn.batch) = txn.batch[1].seq
           /\ txn.batch[1].seq = lastSeq[txn.client] + 1
           /\ txn.batch[1].seq \in Seqs
           /\ Moves(txn.client, [kind |-> "event", body |-> txn.batch[1]])
<1>1. StoreTypeOK /\ txn \in Txn /\ TransactionApplies
  BY DEF ReceiverIInv, StoreTypeOK
<1>2. txn.client \in Client /\ txn.batch \in Seq(Event) /\ Len(txn.batch) = 1
  BY <1>1 DEF Txn, TransactionApplies
<1>3. txn.batch[1] \in Event
  BY <1>2
<1> QED
  BY <1>1, <1>2, <1>3 DEF TransactionApplies, TransactionRequest, LastSeq, Event

LEMMA EventIsApplied ==
    ASSUME SourceIInv, ReceiverIInv, UNCHANGED <<senderVars, image>>, ApplyEvent
    PROVE  /\ ReceiverIInv'
           /\ lastSeq' = lastSeq /\ txn # None
           /\ txn'.client = txn.client
           /\ TransactionRequest' = TransactionRequest
<1> DEFINE c == txn.client
           e == txn.batch[1]
<1>0. /\ txn # None /\ txn.done = 0 /\ Current = e
      /\ UNCHANGED <<lastSeq, claims, events, snapshots, now, reply>>
      /\ txn.claims = claims /\ txn.events = events
  <2>1. txn # None /\ txn.done < Len(txn.batch)
    BY DEF ApplyEvent, Working
  <2>2. txn.done = 0
    <3>1. Len(txn.batch) = 1 /\ txn.done \in {0, 1}
      BY <2>1 DEF ReceiverIInv, TransactionApplies
    <3> QED
      BY <2>1, <3>1
  <2> QED
    BY <2>1, <2>2 DEF Current, ApplyEvent, tables, ReceiverIInv, TransactionApplies
<1>1. /\ StoreTypeOK /\ txn \in Txn /\ c \in Client /\ Len(txn.batch) = 1 /\ e \in Event
      /\ e.seq = lastSeq[c] + 1 /\ Moves(c, [kind |-> "event", body |-> e])
      /\ txn.at \in Clock
  BY <1>0, OpenFacts DEF Txn
<1>2. txn' = [txn EXCEPT !.done = 1, !.claims = WriteClaim(claims, c, e),
                         !.events = events \cup {HistoryRow(c, e, txn.at)}]
  BY <1>0 DEF ApplyEvent
<1>3. /\ txn'.client = c /\ txn'.batch = txn.batch /\ txn'.done = 1 /\ txn'.at = txn.at
      /\ txn'.claims = WriteClaim(claims, c, e)
      /\ txn'.events = events \cup {HistoryRow(c, e, txn.at)}
      /\ DOMAIN txn' = DOMAIN txn
  BY <1>1, <1>2 DEF Txn
<1>4. txn' \in Txn
  <2>1. WriteClaim(claims, c, e) \in SUBSET Row
    BY <1>1, EventApplies DEF ReceiverIInv
  <2>2. events \cup {HistoryRow(c, e, txn.at)} \in SUBSET EventRow
    BY <1>1, HistoryRowFacts DEF StoreTypeOK
  <2>3. PICK w : w = WriteClaim(claims, c, e)
    OBVIOUS
  <2>4. PICK v : v = events \cup {HistoryRow(c, e, txn.at)}
    OBVIOUS
  <2>5. txn' = [txn EXCEPT !.done = 1, !.claims = w, !.events = v]
    BY <1>2, <2>3, <2>4
  <2>6. w \in SUBSET Row /\ v \in SUBSET EventRow
    BY <2>1, <2>2, <2>3, <2>4
  <2> QED
    BY <1>1, <2>5, <2>6 DEF Txn
<1>5. StoreTypeOK' /\ NoConflict'
  BY <1>0, <1>1, <1>4 DEF StoreTypeOK, NoConflict, ReceiverIInv
<1>6. TransactionRequest' = TransactionRequest
  BY <1>3 DEF TransactionRequest
<1>7. Moves(txn.client, TransactionRequest)'
  BY <1>1, <1>3, <1>6 DEF Moves, ImageAt, senderVars, TransactionRequest
<1>8. TransactionApplies'
  BY <1>0, <1>1, <1>3, <1>7 DEF TransactionApplies
<1>9. ReceiverIInv'
  BY <1>0, <1>5, <1>8, TablesKeep
<1> QED
  BY <1>0, <1>3, <1>6, <1>9

\* The transaction never meets a rebinding.
LEMMA NeverRebound ==
    ASSUME SourceIInv, ReceiverIInv
    PROVE  ~RejectRebind
<1> SUFFICES ASSUME RejectRebind PROVE FALSE
  OBVIOUS
<1>1. txn # None /\ txn.done < Len(txn.batch) /\ Rebinds(txn.claims, txn.client, Current)
  BY DEF RejectRebind, Working
<1>2. txn.done = 0
  <2>1. Len(txn.batch) = 1 /\ txn.done \in {0, 1}
    BY <1>1 DEF ReceiverIInv, TransactionApplies
  <2> QED
    BY <1>1, <2>1
<1>3. Current = txn.batch[1] /\ txn.claims = claims
  BY <1>1, <1>2 DEF Current, ReceiverIInv, TransactionApplies
<1>4. ~Rebinds(claims, txn.client, txn.batch[1])
  BY <1>1, OpenFacts, EventApplies DEF ReceiverIInv
<1> QED
  BY <1>1, <1>3, <1>4

LEMMA BatchRolledBack ==
    ASSUME SourceIInv, ReceiverIInv, UNCHANGED <<senderVars, image>>,
           RejectTooMany \/ StoreFails
    PROVE  /\ ReceiverIInv'
           /\ lastSeq' = lastSeq
           /\ reply'.result \in Results \ AcceptedResults
           /\ txn # None /\ txn' = None
<1>1. PICK result \in {"limit", "unavailable"} : txn # None /\ Rollback(result)
  BY DEF RejectTooMany, LoopDone, StoreFails
<1>2. /\ UNCHANGED <<lastSeq, claims, events, snapshots, now>> /\ txn' = None
      /\ reply' = [client |-> txn.client, seq |-> LastSeq(txn.batch), result |-> result]
  BY <1>1 DEF Rollback, tables, Answer
<1>3. StoreTypeOK /\ txn.client \in Client /\ LastSeq(txn.batch) \in Seqs
  BY <1>1, OpenFacts
<1>4. reply' \in Reply /\ reply'.result = result
  BY <1>2, <1>3 DEF Reply, Results
<1>5. StoreTypeOK' /\ NoConflict' /\ TransactionApplies'
  BY <1>2, <1>3, <1>4 DEF StoreTypeOK, NoConflict, TransactionApplies
<1>6. ReceiverIInv'
  BY <1>2, <1>5, TablesKeep
<1> QED
  BY <1>1, <1>2, <1>4, <1>6 DEF Results, AcceptedResults

LEMMA BatchCommitted ==
    ASSUME SourceIInv, ReceiverIInv, UNCHANGED <<senderVars, image>>, CommitBatch
    PROVE  /\ ReceiverIInv'
           /\ \A d \in Client : lastSeq[d] <= lastSeq'[d]
           /\ lastSeq' = [lastSeq EXCEPT ![txn.client] = txn.batch[1].seq]
           /\ txn.batch[1].seq = lastSeq[txn.client] + 1
           /\ lastSeq[txn.client] < seq[txn.client]
           /\ txn # None /\ txn' = None /\ reply'.result = "accepted"
<1>1. txn # None /\ txn.done = Len(txn.batch)
  BY DEF CommitBatch, LoopDone
<1>2. PICK c \in Client : c = txn.client
  BY <1>1, OpenFacts
<1>3. PICK e \in Event : e = txn.batch[1]
  BY <1>1, OpenFacts
<1>4. /\ StoreTypeOK /\ NeverAhead /\ ReceiverHoldsAPrefix
      /\ LastSeq(txn.batch) = e.seq /\ e.seq = lastSeq[c] + 1 /\ e.seq \in Seqs
      /\ Moves(c, [kind |-> "event", body |-> e])
  BY <1>1, <1>2, <1>3, OpenFacts DEF ReceiverIInv
<1>5. txn.done = 1 /\ txn.at \in Clock
  <2>1. Len(txn.batch) = 1 /\ txn \in Txn
    BY <1>1, OpenFacts
  <2> QED
    BY <1>1, <2>1 DEF Txn
<1>6. PICK new : new = HistoryRow(c, e, txn.at)
  OBVIOUS
<1>7. txn.claims = WriteClaim(claims, c, e) /\ txn.events = events \cup {new}
  BY <1>1, <1>2, <1>3, <1>5, <1>6 DEF ReceiverIInv, TransactionApplies
<1>8. /\ WriteClaim(claims, c, e) \in SUBSET Row
      /\ Of(c, WriteClaim(claims, c, e)) = {RowOf(c, x) : x \in ImageAt(c, e.seq)}
      /\ \A d \in Client : d # c => Of(d, WriteClaim(claims, c, e)) = Of(d, claims)
      /\ lastSeq[c] < seq[c]
  BY <1>4, EventApplies
<1>9. /\ new \in EventRow /\ new.client = c /\ new.seq = e.seq /\ new.id = e.id
      /\ new.payload = e
  BY <1>5, <1>6, HistoryRowFacts
<1>10. /\ claims' = WriteClaim(claims, c, e)
       /\ events' \subseteq events \cup {new}
       /\ snapshots' = snapshots /\ now' = now /\ txn' = None
       /\ lastSeq' = [lastSeq EXCEPT ![c] = e.seq]
       /\ reply' = [client |-> c, seq |-> e.seq, result |-> "accepted"]
  BY <1>2, <1>4, <1>7 DEF CommitBatch, KeepNewest, Answer
<1>11. reply' \in Reply /\ reply'.result = "accepted"
  BY <1>4, <1>10 DEF Reply, Results
<1>12. StoreTypeOK'
  <2>1. lastSeq' \in [Client -> 0 .. MaxSeq]
    BY <1>4, <1>10, SequenceFacts DEF StoreTypeOK
  <2> QED
    BY <1>4, <1>8, <1>9, <1>10, <1>11, <2>1 DEF StoreTypeOK
<1>13. Moves(c, [kind |-> "event", body |-> new.payload])
  BY <1>4, <1>9
<1>14. /\ events' \subseteq events \cup IF "event" = "event" THEN {new} ELSE {}
       /\ snapshots' \subseteq snapshots \cup IF "event" = "snapshot" THEN {new} ELSE {}
  BY <1>10
<1>15. ReceiverIInv' /\ \A d \in Client : lastSeq[d] <= lastSeq'[d]
  BY <1>4, <1>8, <1>9, <1>10, <1>11, <1>12, <1>13, <1>14, CommitStep
<1> QED
  BY <1>1, <1>2, <1>3, <1>4, <1>8, <1>10, <1>11, <1>15

\* Retention, the clock and a crash.
LEMMA StoreRests ==
    ASSUME SourceIInv, ReceiverIInv, UNCHANGED <<senderVars, image>>,
           PruneHistory \/ SetClock \/ StoreCrash
    PROVE  /\ ReceiverIInv'
           /\ lastSeq' = lastSeq
           /\ ~StoreCrash => txn' = txn
<1>0. StoreTypeOK
  BY DEF ReceiverIInv
<1>1. CASE PruneHistory
  <2>1. /\ UNCHANGED <<lastSeq, claims, now, txn, reply>> /\ txn' = None
        /\ events' \subseteq events /\ snapshots' \subseteq snapshots
    BY <1>1 DEF PruneHistory, Unlocked
  <2>2. StoreTypeOK' /\ NoConflict' /\ TransactionApplies'
    BY <1>0, <2>1 DEF StoreTypeOK, NoConflict, TransactionApplies, ReceiverIInv
  <2> QED
    BY <2>1, <2>2, TablesKeep
<1>2. CASE SetClock
  <2>1. UNCHANGED <<lastSeq, claims, events, snapshots, txn, reply>> /\ now' \in Clock
    BY <1>2 DEF SetClock, tables
  <2>2. StoreTypeOK' /\ NoConflict'
    BY <1>0, <2>1 DEF StoreTypeOK, NoConflict, ReceiverIInv
  <2>3. TransactionApplies'
    BY <2>1 DEF TransactionApplies, TransactionRequest, Moves, ImageAt, senderVars,
                ReceiverIInv
  <2> QED
    BY <2>1, <2>2, <2>3, TablesKeep
<1>3. CASE StoreCrash
  <2>1. UNCHANGED <<lastSeq, claims, events, snapshots, now>> /\ txn' = None /\ reply' = None
    BY <1>3 DEF StoreCrash, tables
  <2>2. StoreTypeOK' /\ NoConflict' /\ TransactionApplies'
    BY <1>0, <2>1 DEF StoreTypeOK, NoConflict, TransactionApplies
  <2> QED
    BY <1>3, <2>1, <2>2, TablesKeep
<1> QED
  BY <1>1, <1>2, <1>3

-----------------------------------------------------------------------------
(***************************************************************************)
(* The steps of the specification: the host.                               *)
(***************************************************************************)

\* What a step does to the history and to the receiver's place in it.
Publishes ==
    /\ lastSeq' = lastSeq
    /\ \E c \in Client : \E S \in SUBSET Claim : image' = [image EXCEPT ![c] = Append(@, S)]
Advances ==
    /\ image' = image
    /\ \E c \in Client : lastSeq[c] < seq[c] /\ lastSeq' = [lastSeq EXCEPT ![c] = @ + 1]
Holds == image' = image /\ lastSeq' = lastSeq
GoodStep == DeliveryIInv' /\ (Publishes \/ Advances \/ Holds)

LEMMA DeliveryFacts ==
    ASSUME DeliveryIInv
    PROVE  /\ SourceIInv /\ ReceiverIInv /\ NetworkIInv
           /\ NothingIsDropped /\ StoreTypeOK /\ NetworkTypeOK
           /\ RequestsInOrder /\ AnswerIsCovered /\ TransactionOwned
           /\ lastSeq \in [Client -> Nat]
           /\ \A c \in Client : lastSeq[c] <= lastSeq[c]
  BY LastSeqIsNat DEF DeliveryIInv, ReceiverIInv, NetworkIInv

\* A step of the host: nothing moves between the two sides.
LEMMA HostSide ==
    ASSUME DeliveryIInv, SourceIInv', NothingIsDropped', Grows,
           UNCHANGED <<allowed, storeVars, worker, late, open>>
    PROVE  DeliveryIInv'
<1>1. ReceiverIInv'
  BY DeliveryFacts, ReceiverStays
<1>2. UNCHANGED <<lastSeq, txn, allowed, worker, late, open>>
  BY DEF storeVars
<1>3. NetworkTypeOK' /\ AnswerIsCovered' /\ TransactionOwned'
  BY <1>2, DeliveryFacts DEF NetworkTypeOK, AnswerIsCovered, TransactionOwned, TransactionRequest
<1>4. \A c \in Client : /\ worker'[c] # Idle => InOrder(c, worker'[c].request)
                        /\ \A q \in late'[c] : InOrder(c, q)
                        /\ lastSeq[c] <= lastSeq'[c]
  BY <1>2, DeliveryFacts DEF RequestsInOrder
<1>5. NetworkIInv'
  BY <1>1, <1>3, <1>4, DeliveryFacts, NetworkStep
<1> QED
  BY <1>1, <1>5 DEF DeliveryIInv

LEMMA HookEnqueuesStep ==
    ASSUME DeliveryIInv, NEW c \in Client, NEW op \in {"ban", "unban"}, NEW k \in Key,
           HookEnqueues(c, op, k)
    PROVE  GoodStep
<1>1. UNCHANGED <<allowed, storeVars, worker, late, open, lastSeq>>
  BY DEF HookEnqueues, storeVars
<1>2. SourceIInv' /\ NothingIsDropped' /\ Grows
  BY <1>1, DeliveryFacts, HookStep
<1>3. DeliveryIInv'
  BY <1>1, <1>2, HostSide
<1>4. ActiveClaims(rows'[c]) \in SUBSET Claim
  BY <1>2, ActiveClaimsFacts DEF SourceIInv, SenderIInv, SenderTypeOK
<1>5. Publishes \/ Holds
  BY <1>1, <1>4 DEF HookEnqueues, RecordImage, Publishes, Holds
<1> QED
  BY <1>3, <1>5 DEF GoodStep

LEMMA SnapshotEnqueuesStep ==
    ASSUME DeliveryIInv, NEW c \in Client, NEW found \in SUBSET Key, SnapshotEnqueues(c, found)
    PROVE  GoodStep
<1>1. UNCHANGED <<allowed, storeVars, worker, late, open, lastSeq>>
  BY DEF SnapshotEnqueues, storeVars
<1>2. SourceIInv' /\ NothingIsDropped' /\ Grows
  BY <1>1, DeliveryFacts, SnapshotStep
<1>3. DeliveryIInv'
  BY <1>1, <1>2, HostSide
<1>4. ActiveClaims(rows'[c]) \in SUBSET Claim
  BY <1>2, ActiveClaimsFacts DEF SourceIInv, SenderIInv, SenderTypeOK
<1>5. Publishes \/ Holds
  BY <1>1, <1>4 DEF SnapshotEnqueues, RecordImage, Publishes, Holds
<1> QED
  BY <1>3, <1>5 DEF GoodStep

LEMMA RowBecomesDueStep ==
    ASSUME DeliveryIInv, NEW c \in Client, RowBecomesDue(c)
    PROVE  GoodStep
<1>1. UNCHANGED <<allowed, storeVars, worker, late, open, image, lastSeq>> /\ BackoffExpires(c)
  BY DEF RowBecomesDue, storeVars
<1>2. SourceIInv' /\ NothingIsDropped' /\ Grows
  BY <1>1, DeliveryFacts, BackoffStep
<1>3. DeliveryIInv'
  BY <1>1, <1>2, HostSide
<1> QED
  BY <1>1, <1>3 DEF GoodStep, Holds

-----------------------------------------------------------------------------
(***************************************************************************)
(* The worker.                                                             *)
(***************************************************************************)

LEMMA WaitingFacts ==
    ASSUME NetworkTypeOK, NEW c \in Client, worker[c] # Idle
    PROVE  /\ worker[c] \in Waiting
           /\ worker[c].request \in Request
           /\ worker[c].request.body.seq \in Nat
  BY RequestFacts DEF NetworkTypeOK, Waiting

LEMMA NotIdle == (\A w \in Waiting : w # Idle) /\ (\A o \in Owner : o # Idle)
  BY IdleAssumption

\* A step of the worker of c: the receiver does not take part.
LEMMA WorkerSide ==
    ASSUME DeliveryIInv, SourceIInv', NothingIsDropped', Grows,
           UNCHANGED <<allowed, storeVars>>, NEW c \in Client,
           worker' \in [Client -> Waiting \cup {Idle}],
           late' \in [Client -> SUBSET Request],
           \A d \in Client : d # c => worker'[d] = worker[d],
           worker'[c] # Idle => InOrder(c, worker'[c].request) /\ worker'[c].stage # "answered",
           \A d \in Client : \A q \in late'[d] : q \in late[d] \/ InOrder(d, q),
           open' \in Owner \cup {Idle},
           open # Idle => open' # Idle /\ open'.client = open.client,
           txn # None /\ open'.live => open.live /\ open.client # c
    PROVE  DeliveryIInv'
<1>1. ReceiverIInv'
  BY DeliveryFacts, ReceiverStays
<1>2. UNCHANGED <<lastSeq, txn, allowed>>
  BY DEF storeVars
<1>3. NetworkTypeOK'
  BY <1>2, DeliveryFacts DEF NetworkTypeOK
<1>4. AnswerIsCovered'
  BY <1>2, DeliveryFacts DEF AnswerIsCovered
<1>5. TransactionOwned'
  <2>1. SUFFICES ASSUME txn # None PROVE TransactionOwned'
    BY <1>2 DEF TransactionOwned
  <2>2. txn.client \in Client
    BY <2>1, DeliveryFacts, OpenFacts
  <2>3. open # Idle /\ open.client = txn.client
    BY <2>1, DeliveryFacts DEF TransactionOwned
  <2>4. open'.live => worker'[txn.client] = worker[txn.client] /\ open.live
    BY <2>1, <2>2, <2>3
  <2> QED
    BY <1>2, <2>1, <2>3, <2>4, DeliveryFacts DEF TransactionOwned, TransactionRequest
<1>6. \A d \in Client : /\ worker'[d] # Idle => InOrder(d, worker'[d].request)
                        /\ \A q \in late'[d] : InOrder(d, q)
                        /\ lastSeq[d] <= lastSeq'[d]
  BY <1>2, DeliveryFacts DEF RequestsInOrder
<1>7. NetworkIInv'
  BY <1>1, <1>3, <1>4, <1>5, <1>6, DeliveryFacts, NetworkStep
<1> QED
  BY <1>1, <1>7 DEF DeliveryIInv

\* The worker never sends a request from beyond the next one.
LEMMA NextDueInOrder ==
    ASSUME DeliveryIInv, NEW c \in Client, NEW r \in NextDue(c)
    PROVE  InOrder(c, RequestOf(r)) /\ RequestOf(r) \in Request
<1>1. r \in Undelivered(c) /\ r \in outbox[c] /\ \A q \in Undelivered(c) : r.seq <= q.seq
  BY DEF NextDue, Undelivered
<1>2. r.body.seq = r.seq /\ Moves(c, RequestOf(r))
  BY <1>1, DeliveryFacts DEF SourceIInv, OutboxMoves
<1>3. RequestOf(r) \in Request /\ RequestOf(r).body = r.body /\ r.seq \in 1 .. seq[c]
  BY <1>2 DEF Moves, RequestOf
<1>4. lastSeq[c] \in Nat /\ seq[c] \in Nat
  BY DeliveryFacts, SeqIsNat DEF SourceIInv, SenderIInv
<1>5. r.seq <= lastSeq[c] + 1
  <2>1. SUFFICES ASSUME r.seq > lastSeq[c] + 1 PROVE FALSE
    BY <1>3, <1>4
  <2>2. lastSeq[c] + 1 \in (lastSeq[c] + 1) .. seq[c]
    BY <1>3, <1>4, <2>1
  <2>3. PICK q \in Undelivered(c) : q.seq = lastSeq[c] + 1
    BY <2>2, DeliveryFacts DEF NothingIsDropped
  <2>4. r.seq <= lastSeq[c] + 1
    BY <1>1, <2>3
  <2> QED
    BY <1>3, <1>4, <2>1, <2>4
<1> QED
  BY <1>2, <1>3, <1>5 DEF InOrder

LEMMA WorkerSendsStep ==
    ASSUME DeliveryIInv, NEW c \in Client, WorkerSends(c)
    PROVE  GoodStep
<1>1. PICK r \in NextDue(c) :
         worker' = [worker EXCEPT ![c] =
             [request |-> RequestOf(r), stage |-> "sent", result |-> None]]
  BY DEF WorkerSends
<1>2. PICK w : w = [request |-> RequestOf(r), stage |-> "sent", result |-> None]
  OBVIOUS
<1>3. w \in Waiting /\ w.request = RequestOf(r) /\ w.stage = "sent" /\ InOrder(c, w.request)
  BY <1>2, NextDueInOrder DEF Waiting, Stages
<1>4. /\ worker' \in [Client -> Waiting \cup {Idle}] /\ worker'[c] = w
      /\ \A d \in Client : d # c => worker'[d] = worker[d]
  BY <1>1, <1>2, <1>3, DeliveryFacts DEF NetworkTypeOK
<1>5. /\ UNCHANGED <<allowed, senderVars, storeVars, late, open, image, lastSeq>>
      /\ worker[c] = Idle
  BY DEF WorkerSends, storeVars
<1>6. SourceIInv' /\ Grows /\ NothingIsDropped'
  BY <1>5, DeliveryFacts, SourceStays DEF NothingIsDropped, Undelivered, senderVars
<1>7. late' \in [Client -> SUBSET Request] /\ open' \in Owner \cup {Idle}
  BY <1>5, DeliveryFacts DEF NetworkTypeOK
<1>8. txn # None /\ open.live => open.client # c
  BY <1>5, DeliveryFacts DEF TransactionOwned
<1>9. DeliveryIInv'
  BY <1>3, <1>4, <1>5, <1>6, <1>7, <1>8, WorkerSide
<1> QED
  BY <1>5, <1>9 DEF GoodStep, Holds

LEMMA WorkerGoesIdle ==
    ASSUME NetworkTypeOK, NEW c \in Client, worker' = [worker EXCEPT ![c] = Idle]
    PROVE  /\ worker' \in [Client -> Waiting \cup {Idle}]
           /\ \A d \in Client : d # c => worker'[d] = worker[d]
           /\ worker'[c] = Idle
  BY DEF NetworkTypeOK

LEMMA WorkerAcceptedStep ==
    ASSUME DeliveryIInv, NEW c \in Client, WorkerAccepted(c)
    PROVE  GoodStep
<1>1. /\ UNCHANGED <<allowed, storeVars, late, open, image, lastSeq>>
      /\ worker' = [worker EXCEPT ![c] = Idle]
      /\ worker[c] # Idle /\ worker[c].stage = "answered" /\ worker[c].result \in AcceptedResults
      /\ MarkDelivered(c, worker[c].request.body.seq)
  BY DEF WorkerAccepted, storeVars
<1>2. worker[c].request.body.seq <= lastSeq[c] /\ worker[c].request.body.seq \in Nat
  BY <1>1, DeliveryFacts, WaitingFacts DEF AnswerIsCovered
<1>3. SourceIInv' /\ NothingIsDropped' /\ Grows
  BY <1>1, <1>2, DeliveryFacts, MarkDeliveredStep
<1>4. late' \in [Client -> SUBSET Request] /\ open' \in Owner \cup {Idle}
  BY <1>1, DeliveryFacts DEF NetworkTypeOK
<1>5. txn # None /\ open.live => open.client # c
  BY <1>1, DeliveryFacts DEF TransactionOwned
<1>6. DeliveryIInv'
  BY <1>1, <1>3, <1>4, <1>5, DeliveryFacts, WorkerGoesIdle, WorkerSide
<1> QED
  BY <1>1, <1>6 DEF GoodStep, Holds

LEMMA WorkerRefusedStep ==
    ASSUME DeliveryIInv, NEW c \in Client, WorkerRefused(c)
    PROVE  GoodStep
<1>1. /\ UNCHANGED <<allowed, storeVars, late, open, image, lastSeq>>
      /\ worker' = [worker EXCEPT ![c] = Idle]
      /\ worker[c] # Idle /\ worker[c].stage \in {"broken", "answered"}
      /\ MarkRetry(c, worker[c].request.body.seq)
  BY DEF WorkerRefused, storeVars
<1>3. SourceIInv' /\ NothingIsDropped' /\ Grows
  BY <1>1, DeliveryFacts, MarkRetryStep
<1>4. late' \in [Client -> SUBSET Request] /\ open' \in Owner \cup {Idle}
  BY <1>1, DeliveryFacts DEF NetworkTypeOK
<1>5. txn # None /\ open.live => open.client # c
  BY <1>1, DeliveryFacts DEF TransactionOwned
<1>6. DeliveryIInv'
  BY <1>1, <1>3, <1>4, <1>5, DeliveryFacts, WorkerGoesIdle, WorkerSide
<1> QED
  BY <1>1, <1>6 DEF GoodStep, Holds

\* The worker goes; its request may stay behind.
LEMMA AbandonFacts ==
    ASSUME DeliveryIInv, NEW c \in Client, Abandon(c)
    PROVE  /\ worker' = [worker EXCEPT ![c] = Idle]
           /\ late' \in [Client -> SUBSET Request]
           /\ \A d \in Client : \A q \in late'[d] : q \in late[d] \/ InOrder(d, q)
           /\ open' \in Owner \cup {Idle}
           /\ open # Idle => open' # Idle /\ open'.client = open.client
           /\ open # Idle /\ open'.live => open.live /\ open.client # c
<1>0. NetworkTypeOK
  BY DeliveryFacts
<1>1. worker' = [worker EXCEPT ![c] = Idle]
  BY DEF Abandon
<1>2. late' \in [Client -> SUBSET Request]
      /\ \A d \in Client : \A q \in late'[d] : q \in late[d] \/ InOrder(d, q)
  <2>1. CASE late' = late
    BY <1>0, <2>1 DEF NetworkTypeOK
  <2>2. CASE worker[c] # Idle /\ late' = [late EXCEPT ![c] = @ \cup {worker[c].request}]
    <3>1. InOrder(c, worker[c].request) /\ worker[c].request \in Request
      BY <2>2, DeliveryFacts, WaitingFacts DEF RequestsInOrder
    <3> QED
      BY <1>0, <2>2, <3>1 DEF NetworkTypeOK
  <2> QED
    BY <2>1, <2>2 DEF Abandon
<1>3. /\ open' \in Owner \cup {Idle}
      /\ open # Idle => open' # Idle /\ open'.client = open.client
      /\ open # Idle /\ open'.live => open.live /\ open.client # c
  <2>1. CASE open # Idle /\ open.client = c
    <3>1. open \in Owner /\ open' = [open EXCEPT !.live = FALSE]
      BY <1>0, <2>1 DEF NetworkTypeOK, Abandon
    <3>2. open' \in Owner /\ open'.live = FALSE /\ open'.client = open.client
      BY <3>1 DEF Owner
    <3> QED
      BY <2>1, <3>2, NotIdle
  <2>2. CASE ~(open # Idle /\ open.client = c)
    <3>1. open' = open
      BY <2>2 DEF Abandon
    <3> QED
      BY <1>0, <2>2, <3>1 DEF NetworkTypeOK
  <2> QED
    BY <2>1, <2>2
<1> QED
  BY <1>1, <1>2, <1>3

LEMMA WorkerTimesOutStep ==
    ASSUME DeliveryIInv, NEW c \in Client, WorkerTimesOut(c)
    PROVE  GoodStep
<1>1. /\ UNCHANGED <<allowed, storeVars, image, lastSeq>>
      /\ MarkRetry(c, worker[c].request.body.seq) /\ Abandon(c)
  BY DEF WorkerTimesOut, storeVars
<1>2. SourceIInv' /\ NothingIsDropped' /\ Grows
  BY <1>1, DeliveryFacts, MarkRetryStep
<1>3. txn # None => open # Idle
  BY DeliveryFacts DEF TransactionOwned
<1>4. DeliveryIInv'
  BY <1>1, <1>2, <1>3, DeliveryFacts, AbandonFacts, WorkerGoesIdle, WorkerSide
<1> QED
  BY <1>1, <1>4 DEF GoodStep, Holds

LEMMA WorkerRestartsStep ==
    ASSUME DeliveryIInv, NEW c \in Client, WorkerRestarts(c)
    PROVE  GoodStep
<1>1. /\ UNCHANGED <<allowed, storeVars, image, lastSeq, seq, rows, drawn>>
      /\ outbox' = [outbox EXCEPT ![c] = Undelivered(c)] /\ Abandon(c)
  BY DEF WorkerRestarts, storeVars
<1>2. SourceIInv' /\ NothingIsDropped' /\ Grows
  BY <1>1, DeliveryFacts, PruneStep
<1>3. txn # None => open # Idle
  BY DeliveryFacts DEF TransactionOwned
<1>4. DeliveryIInv'
  BY <1>1, <1>2, <1>3, DeliveryFacts, AbandonFacts, WorkerGoesIdle, WorkerSide
<1> QED
  BY <1>1, <1>4 DEF GoodStep, Holds

-----------------------------------------------------------------------------
(***************************************************************************)
(* The receiver.                                                           *)
(***************************************************************************)

\* A request that is decided at once.
LEMMA RequestDecided ==
    ASSUME SourceIInv, ReceiverIInv, UNCHANGED <<senderVars, image>>,
           NEW c \in Client, NEW q, InOrder(c, q), DecidesAtOnce(c, q)
    PROVE  /\ ReceiverIInv'
           /\ txn' = None
           /\ reply'.result \in Results
           /\ reply'.result \in AcceptedResults => q.body.seq <= lastSeq'[c]
           /\ \A d \in Client : lastSeq[d] <= lastSeq'[d]
           /\ Advances \/ Holds
<1>0. /\ q \in Request /\ Moves(c, q)
      /\ \A d \in Client : lastSeq[d] \in Nat /\ lastSeq[d] <= lastSeq[d]
  BY LastSeqIsNat DEF InOrder, Moves, ReceiverIInv
<1>1. CASE q.kind = "event"
  <2>1. PICK e \in Event : e = q.body
    BY <1>0, <1>1, RequestFacts
  <2>2. q = [kind |-> "event", body |-> e]
    BY <1>0, <1>1, <2>1, RequestFacts
  <2>3. RejectBatch(c, <<e>>) \/ AnswerOldBatch(c, <<e>>)
    BY <1>1, <2>1 DEF DecidesAtOnce
  <2>4. /\ ReceiverIInv' /\ UNCHANGED <<lastSeq, txn>>
        /\ reply'.result \in Results /\ e.seq <= lastSeq[c]
    BY <1>0, <2>2, <2>3, EventDecided
  <2>5. txn = None
    BY <2>3 DEF RejectBatch, AnswerOldBatch, Unlocked
  <2> QED
    BY <1>0, <2>1, <2>4, <2>5 DEF Holds
<1>2. CASE q.kind = "snapshot"
  <2>1. PICK s \in Snapshot : s = q.body
    BY <1>0, <1>2, RequestFacts
  <2>2. q = [kind |-> "snapshot", body |-> s]
    BY <1>0, <1>2, <2>1, RequestFacts
  <2>3. CASE RejectSnapshot(c, s)
    <3>1. ReceiverIInv' /\ UNCHANGED <<lastSeq, txn>> /\ reply'.result = "limit"
      BY <2>2, <2>3, SnapshotRefused
    <3>2. txn = None
      BY <2>3 DEF RejectSnapshot, Unlocked
    <3> QED
      BY <1>0, <3>1, <3>2 DEF Results, AcceptedResults, Holds
  <2>4. CASE AnswerOldSnapshot(c, s)
    <3>1. /\ ReceiverIInv' /\ UNCHANGED <<lastSeq, txn>>
          /\ reply'.result \in Results /\ s.seq <= lastSeq[c]
      BY <2>4, SnapshotIsOld
    <3>2. txn = None
      BY <2>4 DEF AnswerOldSnapshot, Unlocked
    <3> QED
      BY <1>0, <2>1, <3>1, <3>2 DEF Holds
  <2>5. CASE CommitSnapshot(c, s)
    <3>1. /\ ReceiverIInv'
          /\ \A d \in Client : lastSeq[d] <= lastSeq'[d]
          /\ lastSeq' = [lastSeq EXCEPT ![c] = s.seq] /\ s.seq = lastSeq[c] + 1
          /\ lastSeq[c] < seq[c]
          /\ txn' = txn /\ reply'.result = "accepted"
      BY <2>2, <2>5, SnapshotCommitted
    <3>2. txn = None
      BY <2>5 DEF CommitSnapshot, Unlocked
    <3>3. lastSeq'[c] = s.seq /\ s.seq <= lastSeq'[c]
      <4>1. lastSeq'[c] = s.seq
        BY <3>1 DEF ReceiverIInv, StoreTypeOK
      <4>2. s.seq \in Nat
        BY SequenceFacts DEF Snapshot
      <4> QED
        BY <4>1, <4>2
    <3>4. Advances
      BY <3>1 DEF Advances
    <3> QED
      BY <2>1, <3>1, <3>2, <3>3, <3>4 DEF Results
  <2> QED
    BY <1>2, <2>1, <2>3, <2>4, <2>5 DEF DecidesAtOnce
<1> QED
  BY <1>0, <1>1, <1>2, RequestFacts

\* A step of the receiver: the senders do not take part.
LEMMA ReceiverSide ==
    ASSUME DeliveryIInv, ReceiverIInv', UNCHANGED <<senderVars, image>>,
           \A d \in Client : lastSeq[d] <= lastSeq'[d],
           NetworkTypeOK', AnswerIsCovered', TransactionOwned',
           \A d \in Client : worker'[d] # Idle =>
              worker[d] # Idle /\ worker'[d].request = worker[d].request,
           \A d \in Client : late'[d] \subseteq late[d]
    PROVE  DeliveryIInv'
<1>1. SourceIInv' /\ Grows
  BY DeliveryFacts, SourceStays
<1>2. \A d \in Client : worker'[d] # Idle => InOrder(d, worker'[d].request)
  BY DeliveryFacts DEF RequestsInOrder
<1>3. \A d \in Client : \A q \in late'[d] : InOrder(d, q)
  BY DeliveryFacts DEF RequestsInOrder
<1>4. NetworkIInv'
  BY <1>1, <1>2, <1>3, DeliveryFacts, NetworkStep
<1> QED
  BY <1>1, <1>4 DEF DeliveryIInv

\* An answer on its way to the worker.
LEMMA RespondFacts ==
    ASSUME NetworkTypeOK, NEW c \in Client, worker[c] # Idle,
           NEW result \in Results \cup {"forbidden"}, Respond(c, result)
    PROVE  /\ worker' \in [Client -> Waiting \cup {Idle}]
           /\ \A d \in Client : d # c => worker'[d] = worker[d]
           /\ worker'[c].request = worker[c].request
           /\ worker'[c].result \in AcceptedResults => result \in AcceptedResults
<1>1. PICK r \in {result} \cup {"unavailable"} :
         worker' = [worker EXCEPT ![c].stage = "answered", ![c].result = r]
  BY DEF Respond
<1>2. worker \in [Client -> Waiting \cup {Idle}] /\ worker[c] \in Waiting
  BY WaitingFacts DEF NetworkTypeOK
<1>3. PICK w : w = [worker[c] EXCEPT !.stage = "answered", !.result = r]
  OBVIOUS
<1>4. w \in Waiting /\ w.request = worker[c].request /\ w.result = r
  BY <1>1, <1>2, <1>3 DEF Waiting, Stages, Results
<1>5. worker' = [worker EXCEPT ![c] = w]
  BY <1>1, <1>2, <1>3
<1>6. /\ worker' \in [Client -> Waiting \cup {Idle}] /\ worker'[c] = w
      /\ \A d \in Client : d # c => worker'[d] = worker[d]
  BY <1>2, <1>4, <1>5
<1>7. r \in AcceptedResults => result \in AcceptedResults
  BY <1>1 DEF AcceptedResults
<1> QED
  BY <1>4, <1>6, <1>7

\* The answers of the others speak of a last_seq that has only grown.
LEMMA OthersCovered ==
    ASSUME DeliveryIInv, StoreTypeOK', NEW c,
           \A d \in Client : lastSeq[d] <= lastSeq'[d],
           \A d \in Client : d # c => worker'[d] = worker[d],
           c \in Client /\ worker'[c] # Idle /\ worker'[c].stage = "answered"
              /\ worker'[c].result \in AcceptedResults
              => worker'[c].request.body.seq <= lastSeq'[c]
    PROVE  AnswerIsCovered'
<1>1. \A d \in Client : lastSeq[d] \in Nat /\ lastSeq'[d] \in Nat
  BY DeliveryFacts, SequenceFacts DEF StoreTypeOK
<1>2. \A d \in Client : worker[d] # Idle => worker[d].request.body.seq \in Nat
  BY DeliveryFacts, WaitingFacts
<1>3. SUFFICES ASSUME NEW d \in Client, worker'[d] # Idle, worker'[d].stage = "answered",
                      worker'[d].result \in AcceptedResults
               PROVE  worker'[d].request.body.seq <= lastSeq'[d]
  BY DEF AnswerIsCovered, AcceptedResults
<1>4. CASE d = c
  BY <1>3, <1>4
<1>5. CASE d # c
  <2>1. worker'[d] = worker[d] /\ worker[d].request.body.seq <= lastSeq[d]
    BY <1>3, <1>5, DeliveryFacts DEF AnswerIsCovered
  <2> QED
    BY <1>1, <1>2, <1>3, <1>5, <2>1
<1> QED
  BY <1>4, <1>5

LEMMA HandleSentStep ==
    ASSUME DeliveryIInv, NEW c \in Client, HandleSent(c)
    PROVE  GoodStep
<1> DEFINE q == worker[c].request
<1>0. /\ worker[c] # Idle /\ worker[c].stage = "sent"
      /\ UNCHANGED <<allowed, senderVars, late, image>>
      /\ SourceIInv /\ ReceiverIInv /\ NetworkTypeOK
      /\ InOrder(c, q) /\ q \in Request
  BY DeliveryFacts, WaitingFacts DEF HandleSent, RequestsInOrder
<1>1. late' \in [Client -> SUBSET Request] /\ allowed' \in Configurations
      /\ \A d \in Client : late'[d] \subseteq late[d]
  BY <1>0 DEF NetworkTypeOK
<1>2. CASE Respond(c, "forbidden") /\ UNCHANGED <<storeVars, open>>
  <2>1. UNCHANGED <<lastSeq, txn>>
    BY <1>2 DEF storeVars
  <2>2. ReceiverIInv' /\ StoreTypeOK'
    <3>1. SourceIInv' /\ Grows /\ NothingIsDropped'
      BY <1>0, <2>1, DeliveryFacts, SourceStays DEF NothingIsDropped, Undelivered, senderVars
    <3> QED
      BY <1>0, <1>2, <3>1, ReceiverStays DEF ReceiverIInv
  <2>3. /\ worker' \in [Client -> Waiting \cup {Idle}]
        /\ \A d \in Client : d # c => worker'[d] = worker[d]
        /\ worker'[c].request = q
        /\ worker'[c].result \notin AcceptedResults
    BY <1>0, <1>2, RespondFacts DEF AcceptedResults
  <2>4. NetworkTypeOK'
    BY <1>0, <1>1, <1>2, <2>3 DEF NetworkTypeOK
  <2>5. AnswerIsCovered'
    BY <2>1, <2>2, <2>3, DeliveryFacts, OthersCovered
  <2>6. TransactionOwned'
    <3>1. SUFFICES ASSUME txn # None PROVE TransactionOwned'
      BY <2>1 DEF TransactionOwned
    <3>2. /\ open # Idle /\ open.client = txn.client /\ txn.client \in Client
          /\ open.live => open.client # c
      BY <1>0, <3>1, DeliveryFacts, OpenFacts DEF TransactionOwned
    <3> QED
      BY <1>2, <2>1, <2>3, <3>1, <3>2, DeliveryFacts DEF TransactionOwned, TransactionRequest
  <2>7. DeliveryIInv'
    BY <1>0, <1>1, <2>1, <2>2, <2>3, <2>4, <2>5, <2>6, DeliveryFacts, ReceiverSide
  <2> QED
    BY <1>0, <2>1, <2>7 DEF GoodStep, Holds
<1>3. CASE DecidesAtOnce(c, q) /\ Respond(c, reply'.result) /\ UNCHANGED open
  <2>1. /\ ReceiverIInv' /\ txn' = None /\ reply'.result \in Results
        /\ reply'.result \in AcceptedResults => q.body.seq <= lastSeq'[c]
        /\ \A d \in Client : lastSeq[d] <= lastSeq'[d]
        /\ Advances \/ Holds
    BY <1>0, <1>3, RequestDecided
  <2>2. StoreTypeOK'
    BY <2>1 DEF ReceiverIInv
  <2>3. /\ worker' \in [Client -> Waiting \cup {Idle}]
        /\ \A d \in Client : d # c => worker'[d] = worker[d]
        /\ worker'[c].request = q
        /\ worker'[c].result \in AcceptedResults => reply'.result \in AcceptedResults
    BY <1>0, <1>3, <2>1, RespondFacts
  <2>4. NetworkTypeOK'
    BY <1>0, <1>1, <1>3, <2>3 DEF NetworkTypeOK
  <2>5. AnswerIsCovered'
    BY <2>1, <2>2, <2>3, OthersCovered
  <2>6. TransactionOwned'
    BY <2>1 DEF TransactionOwned
  <2>7. DeliveryIInv'
    BY <1>0, <1>1, <2>1, <2>3, <2>4, <2>5, <2>6, ReceiverSide
  <2> QED
    BY <2>1, <2>7 DEF GoodStep
<1>4. CASE /\ OpensTransaction(c, q)
           /\ open' = [client |-> c, live |-> TRUE]
           /\ worker' = [worker EXCEPT ![c].stage = "handled"]
  <2>1. PICK e \in Event : e = q.body
    BY <1>0, <1>4, RequestFacts DEF OpensTransaction
  <2>2. q = [kind |-> "event", body |-> e] /\ BeginBatch(c, <<e>>)
    BY <1>0, <1>4, <2>1, RequestFacts DEF OpensTransaction
  <2>3. /\ ReceiverIInv' /\ lastSeq' = lastSeq /\ txn'.client = c /\ TransactionRequest' = q
    BY <1>0, <2>2, BatchBegins
  <2>4. StoreTypeOK'
    BY <2>3 DEF ReceiverIInv
  <2>5. PICK w : w = [worker[c] EXCEPT !.stage = "handled"]
    OBVIOUS
  <2>6. w \in Waiting /\ w.request = q /\ w.stage = "handled" /\ w # Idle
    <3>1. worker[c] \in Waiting
      BY <1>0, WaitingFacts
    <3>2. w \in Waiting /\ w.request = q /\ w.stage = "handled"
      BY <2>5, <3>1 DEF Waiting, Stages
    <3> QED
      BY <3>2, NotIdle
  <2>7. worker' = [worker EXCEPT ![c] = w]
    BY <1>4, <2>5
  <2>8. /\ worker' \in [Client -> Waiting \cup {Idle}] /\ worker'[c] = w
        /\ \A d \in Client : d # c => worker'[d] = worker[d]
    BY <1>0, <2>6, <2>7 DEF NetworkTypeOK
  <2>9. open' \in Owner /\ open' # Idle /\ open'.client = c
    <3>1. open' \in Owner /\ open'.client = c
      BY <1>4 DEF Owner
    <3> QED
      BY <3>1, NotIdle
  <2>10. NetworkTypeOK'
    BY <1>1, <2>8, <2>9 DEF NetworkTypeOK
  <2>11. AnswerIsCovered'
    BY <2>3, <2>4, <2>6, <2>8, DeliveryFacts, OthersCovered
  <2>12. TransactionOwned'
    BY <2>3, <2>6, <2>8, <2>9 DEF TransactionOwned
  <2>13. DeliveryIInv'
    BY <1>0, <1>1, <2>3, <2>6, <2>8, <2>10, <2>11, <2>12, DeliveryFacts, ReceiverSide
  <2> QED
    BY <1>0, <2>3, <2>13 DEF GoodStep, Holds
<1> QED
  BY <1>2, <1>3, <1>4 DEF HandleSent

LEMMA HandleLateStep ==
    ASSUME DeliveryIInv, NEW c \in Client, HandleLate(c)
    PROVE  GoodStep
<1>1. PICK q \in late[c] :
          /\ late' = [late EXCEPT ![c] = @ \ {q}]
          /\ \/ UNCHANGED <<storeVars, open>>
             \/ DecidesAtOnce(c, q) /\ UNCHANGED open
             \/ OpensTransaction(c, q) /\ open' = [client |-> c, live |-> FALSE]
  BY DEF HandleLate
<1>0. /\ UNCHANGED <<allowed, senderVars, worker, image>>
      /\ SourceIInv /\ ReceiverIInv /\ NetworkTypeOK
      /\ InOrder(c, q) /\ q \in Request
  BY <1>1, DeliveryFacts DEF HandleLate, RequestsInOrder, InOrder, Moves
<1>2. /\ late' \in [Client -> SUBSET Request] /\ allowed' \in Configurations
      /\ worker' \in [Client -> Waiting \cup {Idle}]
      /\ \A d \in Client : late'[d] \subseteq late[d]
  BY <1>0, <1>1 DEF NetworkTypeOK
<1>c. ASSUME StoreTypeOK', \A d \in Client : lastSeq[d] <= lastSeq'[d]
      PROVE  AnswerIsCovered'
  <2>1. PICK d : d \notin Client
    BY NoSetContainsEverything
  <2> QED
    BY <1>0, <1>c, <2>1, OthersCovered
<1>3. CASE UNCHANGED <<storeVars, open>>
  <2>1. UNCHANGED <<lastSeq, txn>>
    BY <1>3 DEF storeVars
  <2>2. ReceiverIInv' /\ StoreTypeOK'
    <3>1. SourceIInv' /\ Grows /\ NothingIsDropped'
      BY <1>0, <2>1, DeliveryFacts, SourceStays DEF NothingIsDropped, Undelivered, senderVars
    <3> QED
      BY <1>0, <1>3, <3>1, ReceiverStays DEF ReceiverIInv
  <2>3. NetworkTypeOK' /\ TransactionOwned'
    BY <1>0, <1>2, <1>3, <2>1, DeliveryFacts
       DEF NetworkTypeOK, TransactionOwned, TransactionRequest
  <2>4. DeliveryIInv'
    BY <1>0, <1>c, <1>2, <2>1, <2>2, <2>3, DeliveryFacts, ReceiverSide
  <2> QED
    BY <1>0, <2>1, <2>4 DEF GoodStep, Holds
<1>4. CASE DecidesAtOnce(c, q) /\ UNCHANGED open
  <2>1. /\ ReceiverIInv' /\ txn' = None
        /\ \A d \in Client : lastSeq[d] <= lastSeq'[d]
        /\ Advances \/ Holds
    BY <1>0, <1>4, RequestDecided
  <2>2. NetworkTypeOK' /\ TransactionOwned' /\ StoreTypeOK'
    BY <1>0, <1>2, <1>4, <2>1 DEF NetworkTypeOK, TransactionOwned, ReceiverIInv
  <2>3. DeliveryIInv'
    BY <1>0, <1>c, <1>2, <2>1, <2>2, ReceiverSide
  <2> QED
    BY <2>1, <2>3 DEF GoodStep
<1>5. CASE OpensTransaction(c, q) /\ open' = [client |-> c, live |-> FALSE]
  <2>1. PICK e \in Event : e = q.body
    BY <1>0, <1>5, RequestFacts DEF OpensTransaction
  <2>2. q = [kind |-> "event", body |-> e] /\ BeginBatch(c, <<e>>)
    BY <1>0, <1>5, <2>1, RequestFacts DEF OpensTransaction
  <2>3. /\ ReceiverIInv' /\ lastSeq' = lastSeq /\ txn'.client = c
    BY <1>0, <2>2, BatchBegins
  <2>4. open' \in Owner /\ open' # Idle /\ open'.client = c /\ open'.live = FALSE
    <3>1. open' \in Owner /\ open'.client = c /\ open'.live = FALSE
      BY <1>5 DEF Owner
    <3> QED
      BY <3>1, NotIdle
  <2>5. NetworkTypeOK' /\ TransactionOwned' /\ StoreTypeOK'
    BY <1>0, <1>2, <2>3, <2>4 DEF NetworkTypeOK, TransactionOwned, ReceiverIInv
  <2>6. DeliveryIInv'
    BY <1>0, <1>c, <1>2, <2>3, <2>5, DeliveryFacts, ReceiverSide
  <2> QED
    BY <1>0, <2>3, <2>6 DEF GoodStep, Holds
<1> QED
  BY <1>1, <1>3, <1>4, <1>5

LEMMA HandlerAppliesStep ==
    ASSUME DeliveryIInv, HandlerApplies
    PROVE  GoodStep
<1>1. UNCHANGED <<allowed, senderVars, worker, late, open, image>> /\ ApplyEvent
  BY DEF HandlerApplies
<1>2. /\ ReceiverIInv' /\ lastSeq' = lastSeq /\ txn # None
      /\ txn'.client = txn.client /\ TransactionRequest' = TransactionRequest
  BY <1>1, DeliveryFacts, EventIsApplied
<1>3. NetworkTypeOK' /\ AnswerIsCovered' /\ TransactionOwned'
  BY <1>1, <1>2, DeliveryFacts DEF NetworkTypeOK, AnswerIsCovered, TransactionOwned
<1>4. DeliveryIInv'
  BY <1>1, <1>2, <1>3, DeliveryFacts, ReceiverSide
<1> QED
  BY <1>1, <1>2, <1>4 DEF GoodStep, Holds

LEMMA HandlerEndsStep ==
    ASSUME DeliveryIInv, HandlerEnds
    PROVE  GoodStep
<1>0. /\ UNCHANGED <<allowed, senderVars, late, image>> /\ open' = Idle
      /\ RejectTooMany \/ StoreFails \/ CommitBatch
      /\ IF open.live THEN Respond(open.client, reply'.result) ELSE UNCHANGED worker
  BY DeliveryFacts, NeverRebound DEF HandlerEnds
<1>1. PICK c \in Client : c = txn.client
  BY <1>0, DeliveryFacts, OpenFacts DEF RejectTooMany, LoopDone, StoreFails, CommitBatch
<1>2. /\ ReceiverIInv' /\ txn # None /\ txn' = None
      /\ reply'.result \in Results
      /\ \A d \in Client : lastSeq[d] <= lastSeq'[d]
      /\ reply'.result \in AcceptedResults => txn.batch[1].seq <= lastSeq'[c]
      /\ Advances \/ Holds
  <2>1. CASE RejectTooMany \/ StoreFails
    <3>1. /\ ReceiverIInv' /\ lastSeq' = lastSeq /\ txn # None /\ txn' = None
          /\ reply'.result \in Results \ AcceptedResults
      BY <1>0, <2>1, DeliveryFacts, BatchRolledBack
    <3> QED
      BY <1>0, <3>1, DeliveryFacts DEF Holds
  <2>2. CASE CommitBatch
    <3>1. /\ ReceiverIInv'
          /\ \A d \in Client : lastSeq[d] <= lastSeq'[d]
          /\ lastSeq' = [lastSeq EXCEPT ![c] = txn.batch[1].seq]
          /\ txn.batch[1].seq = lastSeq[c] + 1
          /\ lastSeq[c] < seq[c]
          /\ txn # None /\ txn' = None /\ reply'.result = "accepted"
      BY <1>0, <1>1, <2>2, DeliveryFacts, BatchCommitted
    <3>2. lastSeq'[c] = txn.batch[1].seq /\ lastSeq[c] \in Nat
      BY <3>1, DeliveryFacts
    <3>3. txn.batch[1].seq <= lastSeq'[c]
      BY <3>1, <3>2
    <3>4. Advances
      BY <1>0, <3>1 DEF Advances
    <3> QED
      BY <3>1, <3>3, <3>4 DEF Results
  <2> QED
    BY <1>0, <2>1, <2>2
<1>3. StoreTypeOK' /\ TransactionOwned' /\ open' \in Owner \cup {Idle}
  BY <1>0, <1>2 DEF ReceiverIInv, TransactionOwned
<1>4. late' \in [Client -> SUBSET Request] /\ allowed' \in Configurations
      /\ \A d \in Client : late'[d] \subseteq late[d]
  BY <1>0, DeliveryFacts DEF NetworkTypeOK
<1>5. /\ open # Idle /\ open.client = c
      /\ open.live => /\ worker[c] # Idle
                      /\ worker[c].request = [kind |-> "event", body |-> txn.batch[1]]
  BY <1>1, <1>2, DeliveryFacts DEF TransactionOwned, TransactionRequest
<1>6. /\ worker' \in [Client -> Waiting \cup {Idle}]
      /\ \A d \in Client : worker'[d] # Idle =>
            worker[d] # Idle /\ worker'[d].request = worker[d].request
      /\ AnswerIsCovered'
  <2>1. CASE open.live
    <3>1. /\ worker[c] # Idle /\ worker[c].request.body = txn.batch[1]
          /\ Respond(c, reply'.result)
      BY <1>0, <1>5, <2>1
    <3>2. /\ worker' \in [Client -> Waiting \cup {Idle}]
          /\ \A d \in Client : d # c => worker'[d] = worker[d]
          /\ worker'[c].request = worker[c].request
          /\ worker'[c].result \in AcceptedResults => reply'.result \in AcceptedResults
      BY <1>2, <3>1, DeliveryFacts, RespondFacts
    <3>3. AnswerIsCovered'
      BY <1>2, <1>3, <3>1, <3>2, OthersCovered
    <3> QED
      BY <3>1, <3>2, <3>3
  <2>2. CASE ~open.live
    <3>1. worker' = worker
      BY <1>0, <2>2
    <3>2. PICK d : d \notin Client
      BY NoSetContainsEverything
    <3>3. AnswerIsCovered'
      BY <1>2, <1>3, <3>1, <3>2, OthersCovered
    <3> QED
      BY <3>1, <3>3, DeliveryFacts DEF NetworkTypeOK
  <2> QED
    BY <2>1, <2>2
<1>7. NetworkTypeOK'
  BY <1>3, <1>4, <1>6 DEF NetworkTypeOK
<1>8. DeliveryIInv'
  BY <1>0, <1>2, <1>3, <1>4, <1>6, <1>7, ReceiverSide
<1> QED
  BY <1>2, <1>8 DEF GoodStep

LEMMA ReceiverRestartsStep ==
    ASSUME DeliveryIInv, ReceiverRestarts
    PROVE  GoodStep
<1>1. /\ allowed' \in Configurations /\ StoreCrash /\ open' = Idle
      /\ late' = [c \in Client |-> {}]
      /\ worker' = [c \in Client |->
            IF worker[c] = Idle THEN Idle ELSE [worker[c] EXCEPT !.stage = "broken"]]
      /\ UNCHANGED <<senderVars, image>>
  BY DEF ReceiverRestarts
<1>2. ReceiverIInv' /\ lastSeq' = lastSeq /\ txn' = None
  BY <1>1, DeliveryFacts, StoreRests DEF StoreCrash
<1>3. \A c \in Client :
        /\ worker[c] = Idle => worker'[c] = Idle
        /\ worker[c] # Idle => /\ worker'[c] \in Waiting
                               /\ worker'[c].request = worker[c].request
                               /\ worker'[c].stage = "broken"
  <2>1. SUFFICES ASSUME NEW c \in Client
                 PROVE  /\ worker[c] = Idle => worker'[c] = Idle
                        /\ worker[c] # Idle => /\ worker'[c] \in Waiting
                                               /\ worker'[c].request = worker[c].request
                                               /\ worker'[c].stage = "broken"
    OBVIOUS
  <2>2. CASE worker[c] # Idle
    <3>1. worker[c] \in Waiting /\ worker'[c] = [worker[c] EXCEPT !.stage = "broken"]
      BY <1>1, <2>2, DeliveryFacts, WaitingFacts
    <3> QED
      BY <2>2, <3>1 DEF Waiting, Stages
  <2> QED
    BY <1>1, <2>2
<1>4. worker' \in [Client -> Waiting \cup {Idle}]
  <2>1. \A c \in Client : worker'[c] \in Waiting \cup {Idle}
    BY <1>3
  <2> QED
    BY <1>1, <2>1
<1>5. NetworkTypeOK' /\ TransactionOwned'
  BY <1>1, <1>2, <1>4 DEF NetworkTypeOK, TransactionOwned
<1>6. AnswerIsCovered'
  BY <1>3 DEF AnswerIsCovered
<1>7. \A d \in Client :
        /\ worker'[d] # Idle => worker[d] # Idle /\ worker'[d].request = worker[d].request
        /\ late'[d] \subseteq late[d]
  BY <1>1, <1>3
<1>8. DeliveryIInv'
  BY <1>1, <1>2, <1>5, <1>6, <1>7, DeliveryFacts, ReceiverSide
<1> QED
  BY <1>1, <1>2, <1>8 DEF GoodStep, Holds

\* Retention and the clock leave the network alone.
LEMMA ReceiverRestsStep ==
    ASSUME DeliveryIInv, ReceiverPrunes \/ ClockMoves
    PROVE  GoodStep
<1>1. /\ UNCHANGED <<allowed, senderVars, worker, late, open, image>>
      /\ PruneHistory \/ SetClock
  BY DEF ReceiverPrunes, ClockMoves
<1>2. ReceiverIInv' /\ lastSeq' = lastSeq /\ txn' = txn
  <2>1. UNCHANGED <<txn, lastSeq>>
    BY <1>1 DEF PruneHistory, SetClock, tables
  <2> QED
    BY <1>1, <2>1, DeliveryFacts, StoreRests
<1>3. NetworkTypeOK' /\ AnswerIsCovered' /\ TransactionOwned'
  BY <1>1, <1>2, DeliveryFacts
     DEF NetworkTypeOK, AnswerIsCovered, TransactionOwned, TransactionRequest
<1>4. DeliveryIInv'
  BY <1>1, <1>2, <1>3, DeliveryFacts, ReceiverSide
<1> QED
  BY <1>1, <1>2, <1>4 DEF GoodStep, Holds

-----------------------------------------------------------------------------
(***************************************************************************)
(* The theorems.                                                           *)
(***************************************************************************)

LEMMA DeliveryStarts == DeliveryInit => DeliveryIInv
<1> SUFFICES ASSUME DeliveryInit PROVE DeliveryIInv
  OBVIOUS
<1>1. /\ seq = [c \in Client |-> 0] /\ rows = [c \in Client |-> [k \in Key |-> NoRow]]
      /\ outbox = [c \in Client |-> {}]
      /\ lastSeq = [c \in Client |-> 0] /\ claims = {} /\ events = {} /\ snapshots = {}
      /\ now \in Clock /\ txn = None /\ reply = None
      /\ allowed \in Configurations /\ worker = [c \in Client |-> Idle]
      /\ late = [c \in Client |-> {}] /\ open = Idle /\ image = [c \in Client |-> <<>>]
  BY DEF DeliveryInit, SenderInit, StoreInit
<1>2. SenderIInv
  BY SenderIInvInit DEF DeliveryInit
<1>3. /\ \A c \in Client : /\ seq[c] = 0 /\ lastSeq[c] = 0 /\ outbox[c] = {} /\ late[c] = {}
                           /\ worker[c] = Idle /\ image[c] = <<>>
                           /\ \A k \in Key : rows[c][k] = NoRow
      /\ \A c \in Client : ImageAt(c, 0) = {}
  BY <1>1 DEF ImageAt
<1>4. HistoryFollows
  <2>1. image \in [Client -> Seq(SUBSET Claim)]
    BY <1>1
  <2>2. \A c \in Client : Len(image[c]) = seq[c]
    BY <1>3
  <2>3. \A c \in Client : ActiveClaims(rows[c]) = {}
    BY <1>3 DEF ActiveClaims, ActiveKeys, IsActive
  <2> QED
    BY <1>3, <2>1, <2>2, <2>3 DEF HistoryFollows
<1>5. IdentityIsForever
  <2>1. \A c \in Client : \A n \in 0 .. seq[c] : ImageAt(c, n) = {}
    <3>1. \A n \in 0 .. 0 : n = 0
      OBVIOUS
    <3> QED
      BY <1>3, <3>1
  <2> QED
    BY <2>1 DEF IdentityIsForever
<1>6. OutboxMoves /\ RequestsInOrder /\ AnswerIsCovered
  BY <1>3 DEF OutboxMoves, RequestsInOrder, AnswerIsCovered
<1>7. StoreTypeOK
  BY <1>1, SequenceFacts DEF StoreTypeOK
<1>8. NeverAhead /\ NothingIsDropped
  <2>1. \A n \in (0 + 1) .. 0 : FALSE
    OBVIOUS
  <2> QED
    BY <1>3, <2>1 DEF NeverAhead, NothingIsDropped
<1>9. HistoryInOrder /\ TransactionApplies /\ TransactionOwned /\ NoConflict
  BY <1>1 DEF HistoryInOrder, TransactionApplies, TransactionOwned, NoConflict
<1>10. ReceiverHoldsAPrefix
  BY <1>1, <1>3 DEF ReceiverHoldsAPrefix, Of
<1>11. NetworkTypeOK
  BY <1>1 DEF NetworkTypeOK
<1> QED
  BY <1>2, <1>4, <1>5, <1>6, <1>7, <1>8, <1>9, <1>10, <1>11
     DEF DeliveryIInv, SourceIInv, ReceiverIInv, NetworkIInv

LEMMA DeliveryStep ==
    ASSUME DeliveryIInv, DeliveryNext
    PROVE  GoodStep
<1>1. ASSUME NEW c \in Client, NEW k \in Key, HookEnqueues(c, "ban", k) \/ HookEnqueues(c, "unban", k)
      PROVE  GoodStep
  BY <1>1, HookEnqueuesStep
<1>2. ASSUME NEW c \in Client, NEW found \in SUBSET Key, SnapshotEnqueues(c, found)
      PROVE  GoodStep
  BY <1>2, SnapshotEnqueuesStep
<1>3. ASSUME NEW c \in Client,
             \/ WorkerSends(c) \/ WorkerAccepted(c) \/ WorkerRefused(c)
             \/ WorkerTimesOut(c) \/ WorkerRestarts(c) \/ RowBecomesDue(c)
      PROVE  GoodStep
  BY <1>3, WorkerSendsStep, WorkerAcceptedStep, WorkerRefusedStep, WorkerTimesOutStep,
     WorkerRestartsStep, RowBecomesDueStep
<1>4. ASSUME NEW c \in Client, HandleSent(c) \/ HandleLate(c)
      PROVE  GoodStep
  BY <1>4, HandleSentStep, HandleLateStep
<1>5. ASSUME \/ HandlerApplies \/ HandlerEnds \/ ReceiverRestarts
             \/ ReceiverPrunes \/ ClockMoves
      PROVE  GoodStep
  BY <1>5, HandlerAppliesStep, HandlerEndsStep, ReceiverRestartsStep, ReceiverRestsStep
<1> QED
  BY <1>1, <1>2, <1>3, <1>4, <1>5 DEF DeliveryNext

LEMMA DeliveryStutters ==
    ASSUME DeliveryIInv, UNCHANGED deliveryVars
    PROVE  DeliveryIInv'
<1>1. UNCHANGED <<allowed, senderVars, storeVars, worker, late, open, image>>
  BY DEF deliveryVars
<1>2. SourceIInv' /\ Grows /\ NothingIsDropped'
  BY <1>1, DeliveryFacts, SourceStays
     DEF NothingIsDropped, Undelivered, senderVars, storeVars
<1> QED
  BY <1>1, <1>2, HostSide

\* The invariant holds of every behaviour: of every set of clients, jails and
\* addresses, every limit, every failure and every interleaving.
THEOREM DeliveryInvariant == DeliverySpec => []DeliveryIInv
<1>1. DeliveryInit => DeliveryIInv
  BY DeliveryStarts
<1>2. DeliveryIInv /\ [DeliveryNext]_deliveryVars => DeliveryIInv'
  BY DeliveryStep, DeliveryStutters DEF GoodStep
<1> QED
  BY <1>1, <1>2, PTL DEF DeliverySpec

\* Every variable of the senders, of the receiver's store and of what is
\* between them keeps its type (the tables of store.py and sender.py, the
\* requests of the worker and the handler threads).
THEOREM DeliveryTypeCorrect == DeliverySpec => []DeliveryTypeOK
<1>1. DeliveryIInv => DeliveryTypeOK
  <2> SUFFICES ASSUME DeliveryIInv PROVE DeliveryTypeOK
    OBVIOUS
  <2>1. SenderTypeOK /\ StoreTypeOK /\ NetworkTypeOK /\ HistoryFollows
    BY DeliveryFacts DEF SourceIInv, SenderIInv
  <2>2. \A c \in Client : Len(image[c]) = seq[c]
                          /\ \A n \in 1 .. seq[c] : image[c][n] \subseteq Claim
    <3>1. SUFFICES ASSUME NEW c \in Client
                   PROVE  Len(image[c]) = seq[c]
                          /\ \A n \in 1 .. seq[c] : image[c][n] \subseteq Claim
      OBVIOUS
    <3>2. image[c] \in Seq(SUBSET Claim) /\ Len(image[c]) = seq[c]
      BY <2>1 DEF HistoryFollows
    <3> QED
      BY <3>2
  <2> QED
    BY <2>1, <2>2 DEF DeliveryTypeOK, NetworkTypeOK
<1> QED
  BY <1>1, DeliveryInvariant, PTL

\* The receiver's claims of a client are those the client had when it allocated
\* the sequence in client_state, whatever was lost, repeated or cut short
\* (apply_events and apply_snapshot of store.py against Worker of sender.py).
THEOREM ReceiverHoldsAPrefixHolds == DeliverySpec => []ReceiverHoldsAPrefix
<1>1. DeliveryIInv => ReceiverHoldsAPrefix
  BY DEF DeliveryIInv, ReceiverIInv
<1> QED
  BY <1>1, DeliveryInvariant, PTL

\* Every sequence that the receiver has not applied still waits in the outbox:
\* mark_delivered of sender.py only drops what the receiver's tables hold.
THEOREM NothingIsDroppedHolds == DeliverySpec => []NothingIsDropped
<1>1. DeliveryIInv => NothingIsDropped
  BY DEF DeliveryIInv, ReceiverIInv
<1> QED
  BY <1>1, DeliveryInvariant, PTL

\* No request of a sender that keeps its database is answered 409: its ids,
\* sequences and identities never look like a reuse or a rebinding to the
\* tests of store.py.
THEOREM NoConflictHolds == DeliverySpec => []NoConflict
<1>1. DeliveryIInv => NoConflict
  BY DEF DeliveryIInv, ReceiverIInv
<1> QED
  BY <1>1, DeliveryInvariant, PTL

-----------------------------------------------------------------------------
(***************************************************************************)
(* The refinement: with the history for its log, the receiver's view of    *)
(* each client goes through the states of that client one by one.          *)
(***************************************************************************)

\* The claims of client c as the receiver has them.
View(c) ==
    {[jail |-> r.jail, ban |-> r.ban, ip |-> r.ip, terms |-> r.terms] : r \in Of(c, claims)}

LEMMA ViewIsImage == DeliveryIInv => \A c \in Client : View(c) = ImageAt(c, lastSeq[c])
<1> SUFFICES ASSUME DeliveryIInv, NEW c \in Client PROVE View(c) = ImageAt(c, lastSeq[c])
  OBVIOUS
<1>1. /\ ImageAt(c, lastSeq[c]) \in SUBSET Claim
      /\ Of(c, claims) = {RowOf(c, x) : x \in ImageAt(c, lastSeq[c])}
  BY DeliveryFacts, PrefixFacts DEF ReceiverIInv
<1> DEFINE content(r) == [jail |-> r.jail, ban |-> r.ban, ip |-> r.ip, terms |-> r.terms]
<1>2. \A x \in Claim : content(RowOf(c, x)) = x
  BY DEF Claim, RowOf
<1>3. View(c) = {content(r) : r \in Of(c, claims)}
  BY DEF View
<1> HIDE DEF content
<1> QED
  BY <1>1, <1>2, <1>3

LEMMA ReplicaStarts == DeliveryInit => Replicated!ReplicaInit
<1> SUFFICES ASSUME DeliveryInit PROVE Replicated!ReplicaInit
  OBVIOUS
<1>1. /\ image = [c \in Client |-> <<>>] /\ lastSeq = [c \in Client |-> 0] /\ claims = {}
  BY DEF DeliveryInit, StoreInit
<1>2. \A c \in Client : View(c) = {}
  BY <1>1 DEF View, Of
<1> QED
  BY <1>1, <1>2 DEF Replicated!ReplicaInit, View

LEMMA ReplicaStep ==
    ASSUME DeliveryIInv, DeliveryIInv', Publishes \/ Advances \/ Holds
    PROVE  [Replicated!ReplicaNext]_(Replicated!replicaVars)
<1> DEFINE view == [c \in Client |-> View(c)]
<1>1. \A c \in Client : View(c) = ImageAt(c, lastSeq[c])
  BY ViewIsImage
<1>2. \A c \in Client : View(c)' = NextImageAt(c, lastSeq'[c])
  <2>1. (DeliveryIInv => \A c \in Client : View(c) = ImageAt(c, lastSeq[c]))'
    BY ViewIsImage, PTL
  <2> QED
    BY <2>1 DEF ImageAt, NextImageAt
<1>3. /\ lastSeq \in [Client -> Nat] /\ image \in [Client -> Seq(SUBSET Claim)]
      /\ \A c \in Client : lastSeq[c] \in Nat /\ seq[c] \in Nat /\ lastSeq[c] <= seq[c]
      /\ \A c \in Client : Len(image[c]) = seq[c] /\ image[c] \in Seq(SUBSET Claim)
  BY DeliveryFacts, SeqIsNat DEF SourceIInv, SenderIInv, HistoryFollows, ReceiverIInv, NeverAhead
<1>4. CASE Holds
  <2>1. \A c \in Client : View(c)' = View(c)
    BY <1>1, <1>2, <1>4 DEF Holds, ImageAt, NextImageAt
  <2> QED
    BY <1>4, <2>1 DEF Holds, View, Replicated!replicaVars
<1>5. CASE Publishes
  <2>1. PICK c \in Client, S \in SUBSET Claim : image' = [image EXCEPT ![c] = Append(@, S)]
    BY <1>5 DEF Publishes
  <2>2. lastSeq' = lastSeq
    BY <1>5 DEF Publishes
  <2>3. \A d \in Client : View(d)' = View(d)
    <3>1. SUFFICES ASSUME NEW d \in Client PROVE NextImageAt(d, lastSeq[d]) = ImageAt(d, lastSeq[d])
      BY <1>1, <1>2, <2>2
    <3>2. CASE lastSeq[d] = 0
      BY <3>2 DEF ImageAt, NextImageAt
    <3>3. CASE lastSeq[d] # 0
      <4>1. lastSeq[d] \in 1 .. Len(image[d]) /\ image[d] \in Seq(SUBSET Claim)
        BY <1>3, <3>3
      <4>2. image'[d] = IF d = c THEN Append(image[d], S) ELSE image[d]
        BY <1>3, <2>1
      <4>3. image'[d][lastSeq[d]] = image[d][lastSeq[d]]
        BY <4>1, <4>2
      <4> QED
        BY <4>3 DEF ImageAt, NextImageAt
    <3> QED
      BY <3>2, <3>3
  <2> QED
    BY <2>1, <2>2, <2>3 DEF View, Replicated!ReplicaNext, Replicated!Publish
<1>6. CASE Advances
  <2>1. PICK c \in Client : lastSeq[c] < seq[c] /\ lastSeq' = [lastSeq EXCEPT ![c] = @ + 1]
    BY <1>6 DEF Advances
  <2>2. image' = image
    BY <1>6 DEF Advances
  <2>3. lastSeq'[c] = lastSeq[c] + 1 /\ \A d \in Client : d # c => lastSeq'[d] = lastSeq[d]
    BY <1>3, <2>1
  <2>4. View(c)' = image[c][lastSeq[c] + 1]
    <3>1. lastSeq[c] + 1 # 0
      BY <1>3
    <3> QED
      BY <1>2, <2>2, <2>3, <3>1 DEF NextImageAt
  <2>5. \A d \in Client : d # c => View(d)' = View(d)
    <3>1. SUFFICES ASSUME NEW d \in Client, d # c PROVE View(d)' = View(d)
      OBVIOUS
    <3>2. View(d) = ImageAt(d, lastSeq[d]) /\ View(d)' = NextImageAt(d, lastSeq[d])
      BY <1>1, <1>2, <2>3, <3>1
    <3>3. NextImageAt(d, lastSeq[d]) = ImageAt(d, lastSeq[d])
      BY <2>2 DEF ImageAt, NextImageAt
    <3> QED
      BY <3>2, <3>3
  <2>6. [d \in Client |-> View(d)]' =
           [[d \in Client |-> View(d)] EXCEPT ![c] = image[c][lastSeq[c] + 1]]
    BY <2>4, <2>5
  <2>7. lastSeq[c] < Len(image[c])
    BY <1>3, <2>1
  <2> QED
    BY <2>1, <2>2, <2>6, <2>7 DEF View, Replicated!ReplicaNext, Replicated!CatchUp
<1> QED
  BY <1>4, <1>5, <1>6

\* The senders and the receiver together implement the replica: the receiver
\* goes through the states of each client in order, skips none, goes back to
\* none and shows none that never was (Worker, GuardHandler and ClaimStore).
THEOREM ReplicaImplementedHolds == DeliverySpec => ReplicaImplemented
<1>1. DeliveryInit => Replicated!ReplicaInit
  BY ReplicaStarts
<1>2. DeliveryIInv /\ DeliveryIInv' /\ [DeliveryNext]_deliveryVars
         => [Replicated!ReplicaNext]_(Replicated!replicaVars)
  <2> SUFFICES ASSUME DeliveryIInv, DeliveryIInv', [DeliveryNext]_deliveryVars
               PROVE  [Replicated!ReplicaNext]_(Replicated!replicaVars)
    OBVIOUS
  <2>1. Publishes \/ Advances \/ Holds
    BY DeliveryStep DEF GoodStep, Holds, deliveryVars, storeVars
  <2> QED
    BY <2>1, ReplicaStep
<1>3. DeliverySpec => Replicated!ReplicaInit /\ [][Replicated!ReplicaNext]_(Replicated!replicaVars)
  BY <1>1, <1>2, DeliveryInvariant, PTL DEF DeliverySpec
<1> QED
  BY <1>3 DEF ReplicaImplemented, Replicated!ReplicaSpec
=============================================================================
