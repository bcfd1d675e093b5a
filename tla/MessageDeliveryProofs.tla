------------------------- MODULE MessageDeliveryProofs -------------------------
(***************************************************************************)
(* What MessageDelivery promises for every number of messages, parts,      *)
(* requests under way and faults: receipts tell the truth about what the   *)
(* provider took, parts keep their order, and the outbox lets go of        *)
(* nothing the Host has no trace of.                                       *)
(***************************************************************************)
EXTENDS MessageDelivery, SequenceTheorems, TLAPS

AttemptRecords == [part : Nat \ {0}, slot : Slots \cup {0}, again : BOOLEAN]

\* The request the app waits for carries the part the attempt is at.
AttemptInv ==
  /\ lane = <<>> => attempt = FreshAttempt
  /\ lane # <<>> => attempt.part <= Parts[Head(lane)]
  /\ attempt.slot # 0 =>
       ask[attempt.slot] # NoAsk /\ ask[attempt.slot].what = <<Head(lane), attempt.part>>

\* The handler that holds the receipt of its request.
Active(a) == ask[a].pc \in {"dispatch", "given", "taken", "finish", "free"}

\* It is the only one of its key, and where it is tells what the provider did.
OwnerInv ==
  /\ \A a \in Slots : Active(a) => receipt[ask[a].what].state = "pending"
  /\ \A a, b \in Slots : Active(a) /\ Active(b) /\ ask[a].what = ask[b].what => a = b
  /\ \A a \in Slots : ask[a].pc \in {"given", "free"} => received[ask[a].what] = 0
  /\ \A a \in Slots : ask[a].pc \in {"taken", "finish"} => received[ask[a].what] = 1
  /\ \A a \in Slots : ask[a].pc \in {"arrived", "dispatch", "finish", "free"} => ask[a].answer = "none"
  /\ \A a \in Slots : ask[a].answer = "ok" => received[ask[a].what] = 1

LedgerInv ==
  \A w \in Wire :
    /\ ledger[w] \in {"absent", "withdrawn"} => received[w] = 0
    /\ ledger[w] = "applied" => received[w] = 1

\* A receipt that no handler removes any more.
Fixed(w) ==
  /\ receipt[w] # NoReceipt
  /\ \A a \in Slots : Active(a) /\ ask[a].what = w => ask[a].answer # "none"

HeldInv == \A a \in Slots : ask[a].answer = "held" => Fixed(ask[a].what)
SentInv ==
  \A m \in Messages :
    outbox[m] = "sent" => received[Text(m)] = 1 \/ \E k \in 1..Parts[m] : Fixed(<<m, k>>)

\* Whatever is sent or under way has its earlier parts with the provider.
Before(m, n) == \A k \in 1..(n - 1) : received[<<m, k>>] = 1
PartInv ==
  /\ lane # <<>> => Before(Head(lane), attempt.part)
  /\ \A a \in Slots : ask[a] # NoAsk => Before(ask[a].what[1], ask[a].what[2])

IInv ==
  /\ DeliveryTypeOK /\ AttemptInv
  /\ OwnerInv /\ LedgerInv /\ ReceiptTells
  /\ HeldInv /\ SentInv
  /\ PartInv /\ PartsInOrder

-----------------------------------------------------------------------------
(* Shapes *)

LEMMA WirePart ==
  ASSUME NEW m \in Messages, NEW k \in 1..Parts[m]
  PROVE  <<m, k>> \in Wire
BY DEF Wire

LEMMA WireShape ==
  ASSUME NEW w \in Wire
  PROVE  w[1] \in Messages /\ w[2] \in 1..Parts[w[1]] /\ w = <<w[1], w[2]>>
<1>1. PICK m \in Messages : w \in {m} \X (1..Parts[m])
  BY DEF Wire
<1> QED BY <1>1

LEMMA TextWire ==
  ASSUME NEW m \in Messages
  PROVE  Text(m) \in Wire /\ Parts[m] \in Nat \ {0}
<1>1. Parts[m] \in Nat \ {0}
  BY DeliveryAssumption
<1> QED BY <1>1, WirePart DEF Text

\* A handler is a record of a request, or none is there.
LEMMA AskShape ==
  ASSUME DeliveryTypeOK, NEW a \in Slots
  PROVE  /\ ask[a] = NoAsk \/ ask[a] \in AskRecords
         /\ ask[a].pc # "none" => ask[a] # NoAsk
         /\ ask[a].answer # "none" => ask[a] # NoAsk
         /\ ask[a] # NoAsk =>
              /\ ask[a] \in AskRecords
              /\ ask[a].what \in Wire /\ ask[a].turn \in Names /\ ask[a].encoding \in Encodings
              /\ ask[a].answer \in Answers /\ ask[a].pc # "none"
<1>1. ask[a] = NoAsk \/ ask[a] \in AskRecords
  BY DEF DeliveryTypeOK
<1> QED BY <1>1 DEF NoAsk, AskRecords

LEMMA ReceiptShape ==
  ASSUME DeliveryTypeOK, NEW w \in Wire
  PROVE  /\ receipt[w] # NoReceipt <=> receipt[w] \in Receipts
         /\ receipt[w] # NoReceipt <=> receipt[w].state \in {"pending", "completed"}
         /\ received[w] \in {0, 1}
         /\ ledger[w] \in Once!States
<1>1. receipt[w] = NoReceipt \/ receipt[w] \in Receipts
  BY DEF DeliveryTypeOK
<1>2. received[w] \in 0..1 /\ ledger[w] \in Once!States
  BY DEF DeliveryTypeOK
<1> QED BY <1>1, <1>2 DEF NoReceipt, Receipts

\* What a handler step does to the handlers.
LEMMA GoEffect ==
  ASSUME DeliveryTypeOK, NEW a \in Slots, ask[a].pc # "none",
         NEW pc \in {"arrived", "dispatch", "given", "taken", "finish", "free", "done"},
         NEW answer \in Answers, Go(a, pc, answer)
  PROVE  /\ ask' \in [Slots -> AskRecords \cup {NoAsk}]
         /\ \A b \in Slots : b # a => ask'[b] = ask[b]
         /\ \/ ask'[a] = NoAsk /\ pc = "done" /\ attempt.slot # a
            \/ /\ ask'[a] \in AskRecords
               /\ ask'[a].pc = pc /\ ask'[a].answer = answer
               /\ ask'[a].what = ask[a].what
<1>1. ask \in [Slots -> AskRecords \cup {NoAsk}] /\ ask[a] \in AskRecords
  BY AskShape DEF DeliveryTypeOK
<1> DEFINE r == [ask[a] EXCEPT !.pc = pc, !.answer = answer]
<1>2. r \in AskRecords /\ r.pc = pc /\ r.answer = answer /\ r.what = ask[a].what
  BY <1>1 DEF AskRecords
<1> HIDE DEF r
<1>3. ask' = [ask EXCEPT ![a] = IF pc = "done" /\ attempt.slot # a THEN NoAsk ELSE r]
  BY DEF Go, r
<1> QED BY <1>1, <1>2, <1>3

-----------------------------------------------------------------------------
(* A step of one handler *)

\* It touches the handler, and what is kept of its key.
Local(a, w) ==
  /\ ask[a] # NoAsk /\ ask[a].what = w
  /\ ask' \in [Slots -> AskRecords \cup {NoAsk}]
  /\ \A b \in Slots : b # a => ask'[b] = ask[b]
  /\ \/ ask'[a] = NoAsk /\ attempt.slot # a
     \/ ask'[a] \in AskRecords /\ ask'[a].what = w
  /\ receipt' \in [Wire -> Receipts \cup {NoReceipt}]
  /\ ledger' \in [Wire -> Once!States]
  /\ digest' \in [Wire -> Encodings \cup {NoEncoding}]
  /\ received' \in [Wire -> 0..1]
  /\ \A v \in Wire : v # w => receipt'[v] = receipt[v] /\ ledger'[v] = ledger[v] /\ received'[v] = received[v]

\* What a handler shows of its own step.
Sound(a, w) ==
  \* the ledger and the receipt of its key still tell of the provider
  /\ received[w] = 1 => received'[w] = 1
  /\ ledger'[w] \in {"absent", "withdrawn"} => received'[w] = 0
  /\ ledger'[w] = "applied" => received'[w] = 1
  /\ receipt'[w].state = "completed" => received'[w] = 1
  /\ received'[w] = 1 => receipt'[w] # NoReceipt
  \* so does where it is now
  /\ Active(a)' => receipt'[w].state = "pending"
  /\ ask'[a].pc \in {"given", "free"} => received'[w] = 0
  /\ ask'[a].pc \in {"taken", "finish"} => received'[w] = 1
  /\ ask'[a].pc \in {"arrived", "dispatch", "finish", "free"} => ask'[a].answer = "none"
  /\ ask'[a].answer = "ok" => received'[w] = 1
  /\ ask'[a].answer = "held" => Fixed(w)
  \* it changed something of its key as the holder of the receipt, or there was none
  /\ Active(a) \/ receipt[w] = NoReceipt \/ (UNCHANGED <<receipt, once>> /\ ~Active(a)')
  \* the receipt was removed only while the caller waits for its answer
  /\ receipt'[w] = NoReceipt => receipt[w] = NoReceipt \/ (Active(a) /\ ask[a].answer = "none")
  /\ Active(a) /\ Active(a)' /\ ask[a].answer # "none" => ask'[a].answer # "none"

\* With one holder per receipt, what others know of the key stays true.
LEMMA OthersApart ==
  ASSUME IInv, NEW a \in Slots, NEW w \in Wire, Local(a, w), Sound(a, w),
         NEW b \in Slots, b # a, Active(b), ask[b].what = w
  PROVE  ~Active(a) /\ UNCHANGED <<receipt, once>> /\ ~Active(a)'
<1>1. ~Active(a)
  BY DEF IInv, OwnerInv, Local
<1>2. receipt[w].state = "pending"
  BY DEF IInv, OwnerInv
<1>3. receipt[w] # NoReceipt
  BY <1>2 DEF NoReceipt
<1> QED BY <1>1, <1>3 DEF Sound

LEMMA FixedStays ==
  ASSUME IInv, NEW a \in Slots, NEW w \in Wire, Local(a, w), Sound(a, w), NEW v \in Wire, Fixed(v)
  PROVE  Fixed(v)'
<1>1. CASE v # w
  <2>1. receipt'[v] # NoReceipt
    BY <1>1 DEF Local, Fixed
  <2>2. ASSUME NEW b \in Slots, Active(b)', ask'[b].what = v PROVE ask'[b].answer # "none"
    <3>1. CASE b = a
      BY <1>1, <2>2, <3>1 DEF Local, Active, NoAsk
    <3>2. CASE b # a
      BY <2>2, <3>2 DEF Local, Active, Fixed
    <3> QED BY <3>1, <3>2
  <2> QED BY <2>1, <2>2 DEF Fixed
<1>2. CASE v = w
  <2>1. receipt'[v] # NoReceipt
    BY <1>2 DEF Local, Sound, Fixed
  <2>2. ASSUME NEW b \in Slots, Active(b)', ask'[b].what = v PROVE ask'[b].answer # "none"
    <3>1. CASE b = a
      BY <1>2, <2>2, <3>1 DEF Local, Sound, Active, Fixed
    <3>2. CASE b # a
      BY <2>2, <3>2 DEF Local, Active, Fixed
    <3> QED BY <3>1, <3>2
  <2> QED BY <2>1, <2>2 DEF Fixed
<1> QED BY <1>1, <1>2

LEMMA OwnerStays ==
  ASSUME IInv, NEW a \in Slots, NEW w \in Wire, Local(a, w), Sound(a, w)
  PROVE  OwnerInv'
<1> DEFINE none == ask'[a] = NoAsk
<1>1. ASSUME NEW b \in Slots, b # a
      PROVE  /\ ask'[b] = ask[b] /\ (Active(b)' <=> Active(b))
             /\ ask[b] # NoAsk => ask[b].what \in Wire
  BY <1>1, AskShape DEF Local, Active, IInv
<1>2. ASSUME NEW b \in Slots, b # a, ask[b] # NoAsk, Active(b) \/ ask[b].answer = "ok"
      PROVE  /\ received[ask[b].what] = 1 => received'[ask[b].what] = 1
             /\ Active(b) => receipt'[ask[b].what] = receipt[ask[b].what]
                             /\ received'[ask[b].what] = received[ask[b].what]
  <2>1. CASE ask[b].what # w
    BY <1>1, <1>2, <2>1 DEF Local
  <2>2. CASE ask[b].what = w
    BY <1>2, <2>2, OthersApart DEF Sound, once
  <2> QED BY <2>1, <2>2
<1>3. ASSUME NEW b \in Slots, b # a
      PROVE  /\ Active(b)' => receipt'[ask'[b].what].state = "pending"
             /\ ask'[b].pc \in {"given", "free"} => received'[ask'[b].what] = 0
             /\ ask'[b].pc \in {"taken", "finish"} => received'[ask'[b].what] = 1
             /\ ask'[b].pc \in {"arrived", "dispatch", "finish", "free"} => ask'[b].answer = "none"
             /\ ask'[b].answer = "ok" => received'[ask'[b].what] = 1
  BY <1>1, <1>2, <1>3, AskShape DEF IInv, OwnerInv, Active
<1>4. /\ Active(a)' => receipt'[ask'[a].what].state = "pending"
      /\ ask'[a].pc \in {"given", "free"} => received'[ask'[a].what] = 0
      /\ ask'[a].pc \in {"taken", "finish"} => received'[ask'[a].what] = 1
      /\ ask'[a].pc \in {"arrived", "dispatch", "finish", "free"} => ask'[a].answer = "none"
      /\ ask'[a].answer = "ok" => received'[ask'[a].what] = 1
  BY DEF Local, Sound, Active, NoAsk
<1>5. ASSUME NEW b \in Slots, NEW c \in Slots, Active(b)', Active(c)', ask'[b].what = ask'[c].what
      PROVE  b = c
  <2>1. ASSUME NEW d \in Slots, d # a, Active(d)', Active(a)', ask'[d].what = ask'[a].what PROVE FALSE
    <3>1. ask'[a].what = w
      BY <2>1 DEF Local, Active, NoAsk
    <3> QED BY <1>1, <2>1, <3>1, OthersApart
  <2>2. CASE b # a /\ c # a
    BY <1>1, <1>5, <2>2 DEF IInv, OwnerInv
  <2> QED BY <1>5, <2>1, <2>2
<1> QED BY <1>3, <1>4, <1>5 DEF OwnerInv

LEMMA HandlerKeeps ==
  ASSUME IInv, HostStep, NEW a \in Slots, NEW w \in Wire, Local(a, w), Sound(a, w),
         received'[w] = 1 => received[w] = 1 \/ Before(w[1], w[2])
  PROVE  IInv'
<1>1. DeliveryTypeOK'
  BY DEF IInv, DeliveryTypeOK, HostStep, Local
<1>2. AttemptInv'
  <2>1. UNCHANGED <<lane, attempt>> /\ attempt.slot \in Slots \cup {0}
    BY DEF IInv, DeliveryTypeOK, HostStep
  <2>2. ASSUME attempt.slot # 0
        PROVE  ask'[attempt.slot] # NoAsk /\ ask'[attempt.slot].what = ask[attempt.slot].what
    <3>1. CASE attempt.slot # a
      BY <2>1, <2>2, <3>1 DEF Local, IInv, AttemptInv
    <3>2. CASE attempt.slot = a
      BY <3>2 DEF Local, NoAsk, AskRecords
    <3> QED BY <3>1, <3>2
  <2> QED BY <2>1, <2>2 DEF IInv, AttemptInv
<1>3. LedgerInv' /\ ReceiptTells'
  BY DEF IInv, LedgerInv, ReceiptTells, Local, Sound
<1>4. HeldInv'
  <2>1. ASSUME NEW b \in Slots, ask'[b].answer = "held", NEW x, x = ask'[b].what PROVE Fixed(x)'
    <3>1. CASE b = a
      <4>1. x = w /\ Fixed(w)
        BY <2>1, <3>1 DEF Local, Sound, NoAsk
      <4> QED BY <4>1, FixedStays
    <3>2. CASE b # a
      <4>1. ask[b].answer = "held" /\ ask[b].what = x
        BY <2>1, <3>2 DEF Local
      <4>2. x \in Wire /\ Fixed(x)
        BY <4>1, AskShape DEF IInv, HeldInv
      <4> QED BY <4>2, FixedStays
    <3> QED BY <3>1, <3>2
  <2> QED BY <2>1 DEF HeldInv, Fixed, Active
<1>5. \A v \in Wire : received[v] = 1 => received'[v] = 1
  BY DEF Local, Sound
<1>6. SentInv'
  <2> SUFFICES ASSUME NEW m \in Messages, outbox[m] = "sent"
               PROVE  received'[Text(m)] = 1 \/ \E k \in 1..Parts[m] : Fixed(<<m, k>>)'
    BY DEF SentInv, HostStep
  <2> QED BY <1>5, FixedStays, TextWire, WirePart DEF IInv, SentInv
<1>7. \A m \in Messages : \A n \in 1..Parts[m] : Before(m, n) => Before(m, n)'
  <2> SUFFICES ASSUME NEW m \in Messages, NEW n \in 1..Parts[m], Before(m, n), NEW k \in 1..(n - 1)
               PROVE  received'[<<m, k>>] = 1
    BY DEF Before
  <2>1. k \in 1..Parts[m]
    BY TextWire
  <2> QED BY <1>5, <2>1, WirePart DEF Before
<1>8. PartInv'
  <2>1. lane' # <<>> => \A k \in 1..(attempt'.part - 1) : received'[<<Head(lane'), k>>] = 1
    <3>1. UNCHANGED <<lane, attempt>>
      BY DEF HostStep
    <3>2. lane # <<>> => Head(lane) \in Messages /\ attempt.part \in 1..Parts[Head(lane)]
      <4>1. lane \in Seq(Messages) /\ attempt.part \in Nat \ {0}
        BY DEF IInv, DeliveryTypeOK
      <4>2. lane # <<>> => Head(lane) \in Messages /\ attempt.part <= Parts[Head(lane)]
        BY <4>1 DEF IInv, AttemptInv
      <4> QED BY <4>1, <4>2, TextWire
    <3>3. lane # <<>> => Before(Head(lane), attempt.part)
      BY DEF IInv, PartInv
    <3> QED BY <1>7, <3>1, <3>2, <3>3 DEF Before
  <2>2. ASSUME NEW b \in Slots, ask'[b] # NoAsk
        PROVE  \A k \in 1..(ask'[b].what[2] - 1) : received'[<<ask'[b].what[1], k>>] = 1
    <3>1. ask[b] # NoAsk /\ ask'[b].what = ask[b].what
      BY <2>2 DEF Local
    <3>2. ask[b].what \in Wire
      BY <3>1, AskShape DEF IInv
    <3>3. ask[b].what[1] \in Messages /\ ask[b].what[2] \in 1..Parts[ask[b].what[1]]
      BY <3>2, WireShape
    <3>4. Before(ask[b].what[1], ask[b].what[2])
      BY <3>1 DEF IInv, PartInv
    <3> QED BY <1>7, <3>1, <3>3, <3>4 DEF Before
  <2> QED BY <2>1, <2>2 DEF PartInv, Before
<1>9. PartsInOrder'
  <2> SUFFICES ASSUME NEW m \in Messages, NEW k \in 1..(Parts[m] - 1), received'[<<m, k + 1>>] = 1
               PROVE  received'[<<m, k>>] = 1
    BY DEF PartsInOrder
  <2>1. k \in 1..Parts[m] /\ k + 1 \in 1..Parts[m] /\ k \in 1..((k + 1) - 1)
    BY TextWire
  <2>2. <<m, k>> \in Wire /\ <<m, k + 1>> \in Wire
    BY <2>1, WirePart
  <2>3. received[<<m, k + 1>>] = 1 \/ (<<m, k + 1>> = w /\ Before(w[1], w[2]))
    BY <2>2 DEF Local
  <2>4. received[<<m, k>>] = 1
    <3>1. CASE received[<<m, k + 1>>] = 1
      BY <3>1 DEF IInv, PartsInOrder
    <3>2. CASE <<m, k + 1>> = w /\ Before(w[1], w[2])
      BY <2>1, <3>2 DEF Before
    <3> QED BY <2>3, <3>1, <3>2
  <2> QED BY <1>5, <2>2, <2>4
<1> QED BY <1>1, <1>2, <1>3, <1>4, <1>6, <1>8, <1>9, OwnerStays DEF IInv

LEMMA GoLocal ==
  ASSUME IInv, NEW a \in Slots, NEW w \in Wire, ask[a].pc # "none", ask[a].what = w,
         NEW pc \in {"arrived", "dispatch", "given", "taken", "finish", "free", "done"},
         NEW answer \in Answers, Go(a, pc, answer),
         receipt' = receipt \/ \E r \in Receipts \cup {NoReceipt} : receipt' = [receipt EXCEPT ![w] = r],
         \/ UNCHANGED once
         \/ \E c \in Encodings : Once!Admit(w, c)
         \/ Once!Deliver(w) \/ Once!Free(w) \/ Once!Confirm(w)
  PROVE  /\ Local(a, w)
         /\ \/ ask'[a] = NoAsk /\ ask'[a].pc = "none" /\ ask'[a].answer = "none"
            \/ ask'[a].pc = pc /\ ask'[a].answer = answer
<1>1. DeliveryTypeOK
  BY DEF IInv
<1>2. /\ ask' \in [Slots -> AskRecords \cup {NoAsk}]
      /\ \A b \in Slots : b # a => ask'[b] = ask[b]
      /\ \/ ask'[a] = NoAsk /\ pc = "done" /\ attempt.slot # a
         \/ ask'[a] \in AskRecords /\ ask'[a].pc = pc /\ ask'[a].answer = answer /\ ask'[a].what = w
  BY <1>1, GoEffect
<1>3. /\ receipt' \in [Wire -> Receipts \cup {NoReceipt}]
      /\ \A v \in Wire : v # w => receipt'[v] = receipt[v]
  BY <1>1 DEF DeliveryTypeOK
<1>4. /\ ledger' \in [Wire -> Once!States] /\ digest' \in [Wire -> Encodings \cup {NoEncoding}]
      /\ received' \in [Wire -> 0..1]
      /\ \A v \in Wire : v # w => ledger'[v] = ledger[v] /\ received'[v] = received[v]
  <2>1. ledger \in [Wire -> Once!States] /\ digest \in [Wire -> Encodings \cup {NoEncoding}]
        /\ received \in [Wire -> 0..1]
    BY <1>1 DEF DeliveryTypeOK
  <2>2. CASE UNCHANGED once
    BY <2>1, <2>2 DEF once
  <2>3. CASE \E c \in Encodings : Once!Admit(w, c)
    BY <2>1, <2>3 DEF Once!Admit, Once!States
  <2>4. CASE Once!Deliver(w)
    BY <2>1, <2>4 DEF Once!Deliver
  <2>5. CASE Once!Free(w)
    BY <2>1, <2>5 DEF Once!Free, Once!States
  <2>6. CASE Once!Confirm(w)
    BY <2>1, <2>6 DEF Once!Confirm, Once!States
  <2> QED BY <2>2, <2>3, <2>4, <2>5, <2>6
<1>5. ask[a] # NoAsk
  BY DEF NoAsk
<1> QED BY <1>2, <1>3, <1>4, <1>5 DEF Local, NoAsk

\* What the invariant says at the key of one handler.
LEMMA AtKey ==
  ASSUME IInv, NEW a \in Slots, NEW w \in Wire, ask[a].pc # "none", ask[a].what = w
  PROVE  /\ Active(a) => receipt[w].state = "pending" /\ receipt[w] # NoReceipt /\ receipt[w] \in Receipts
         /\ ask[a].pc \in {"given", "free"} => received[w] = 0
         /\ ask[a].pc \in {"taken", "finish"} => received[w] = 1
         /\ ask[a].pc \in {"arrived", "dispatch", "finish", "free"} => ask[a].answer = "none"
         /\ ask[a].answer = "ok" => received[w] = 1
         /\ ask[a].answer = "held" => Fixed(w)
         /\ ledger[w] \in {"absent", "withdrawn"} => received[w] = 0
         /\ ledger[w] = "applied" => received[w] = 1
         /\ receipt[w].state = "completed" => received[w] = 1
         /\ received[w] = 1 => receipt[w] # NoReceipt
         /\ received[w] \in {0, 1} /\ ledger[w] \in Once!States
         /\ ask[a].answer \in Answers /\ ask[a].turn \in Names /\ ask[a].encoding \in Encodings
<1>1. DeliveryTypeOK
  BY DEF IInv
<1>2. /\ receipt[w].state = "pending" => receipt[w] # NoReceipt /\ receipt[w] \in Receipts
      /\ received[w] \in {0, 1} /\ ledger[w] \in Once!States
  BY <1>1, ReceiptShape
<1>3. ask[a].answer \in Answers /\ ask[a].turn \in Names /\ ask[a].encoding \in Encodings
  BY <1>1, AskShape
<1>4. Active(a) => receipt[w].state = "pending"
  BY DEF IInv, OwnerInv
<1> QED BY <1>2, <1>3, <1>4 DEF IInv, OwnerInv, HeldInv, LedgerInv, ReceiptTells

\* A handler that only answers, or goes on to record what is known, changes nothing that is kept.
LEMMA QuietStep ==
  ASSUME IInv, HostStep, NEW a \in Slots, NEW w \in Wire, ask[a].pc # "none", ask[a].what = w,
         UNCHANGED <<receipt, once>>,
         NEW pc \in {"given", "finish", "free", "done"}, NEW answer \in Answers, Go(a, pc, answer),
         pc # "done" => Active(a),
         pc \in {"finish", "free"} => answer = "none",
         pc \in {"given", "free"} => received[w] = 0,
         pc = "finish" => received[w] = 1,
         answer = "ok" => received[w] = 1,
         answer = "held" => Fixed(w),
         pc # "done" /\ ask[a].answer # "none" => answer # "none"
  PROVE  IInv'
<1>1. /\ Local(a, w)
      /\ \/ ask'[a] = NoAsk /\ ask'[a].pc = "none" /\ ask'[a].answer = "none"
         \/ ask'[a].pc = pc /\ ask'[a].answer = answer
  BY GoLocal
<1>2. receipt'[w] = receipt[w] /\ received'[w] = received[w] /\ ledger'[w] = ledger[w]
  BY DEF once
<1>3. Active(a)' => Active(a)
  BY <1>1 DEF Active
<1>4. Sound(a, w)
  BY <1>1, <1>2, <1>3, AtKey DEF Sound, Active, NoAsk
<1> QED BY <1>1, <1>2, <1>4, HandlerKeeps

LEMMA HandlerStep ==
  ASSUME IInv, NEW a \in Slots, HandlerNext(a)
  PROVE  IInv'
<1> DEFINE w == ask[a].what
<1>0. ask[a].pc # "none" /\ w \in Wire
  <2>1. ask[a].pc # "none"
    BY DEF HandlerNext, At, Begins, ReceiptAnswers, PrepareFails, WritePending, Admitted, NotAdmitted,
           AnswersEarly, Takes, Fails, NotDelivered, Records, RecordingFails, FreeReceipt, Completes,
           ReceiptWriteFails
  <2> QED BY <2>1, AskShape DEF IInv
<1>1. /\ Active(a) => receipt[w].state = "pending" /\ receipt[w] # NoReceipt /\ receipt[w] \in Receipts
      /\ ask[a].pc \in {"given", "free"} => received[w] = 0
      /\ ask[a].pc \in {"taken", "finish"} => received[w] = 1
      /\ ask[a].pc \in {"arrived", "dispatch", "finish", "free"} => ask[a].answer = "none"
      /\ ask[a].answer = "ok" => received[w] = 1
      /\ ask[a].answer = "held" => Fixed(w)
      /\ ledger[w] \in {"absent", "withdrawn"} => received[w] = 0
      /\ ledger[w] = "applied" => received[w] = 1
      /\ receipt[w].state = "completed" => received[w] = 1
      /\ received[w] = 1 => receipt[w] # NoReceipt
      /\ received[w] \in {0, 1} /\ ledger[w] \in Once!States
      /\ ask[a].answer \in Answers /\ ask[a].turn \in Names /\ ask[a].encoding \in Encodings
  BY <1>0, AtKey
<1>2. DeliveryTypeOK /\ receipt \in [Wire -> Receipts \cup {NoReceipt}]
      /\ ledger \in [Wire -> Once!States] /\ received \in [Wire -> 0..1]
  BY DEF IInv, DeliveryTypeOK
<1>3. Answers = {"none", "ok", "held", "unknown", "target", "refused"}
  BY DEF Answers
<1>4. ask[a].what = w
  OBVIOUS
<1>a. CASE ReceiptAnswers(a)
  <2>1. HostStep /\ UNCHANGED <<receipt, once>> /\ ask[a].pc = "arrived" /\ ~Busy(w) /\ receipt[w] # NoReceipt
    BY <1>a DEF ReceiptAnswers, Begins, At
  <2>2. \E answer \in {"held", "ok", "unknown"} :
          Go(a, "done", answer) /\ (answer = "ok" => receipt[w].state = "completed")
    BY <1>a DEF ReceiptAnswers
  <2>3. Fixed(w)
    BY <2>1 DEF Fixed, Busy, Active
  <2> HIDE DEF w
  <2> QED BY <1>0, <1>1, <1>3, <2>1, <2>2, <2>3, QuietStep DEF w
<1>b. CASE PrepareFails(a)
  BY <1>0, <1>3, <1>b, QuietStep DEF PrepareFails, Begins
<1>c. CASE WritePending(a)
  <2> DEFINE r == [state |-> "pending", turn |-> ask[a].turn, encoding |-> ask[a].encoding]
  <2>1. /\ HostStep /\ UNCHANGED once /\ ask[a].pc = "arrived" /\ receipt[w] = NoReceipt
        /\ receipt' = [receipt EXCEPT ![w] = r] /\ Go(a, "dispatch", "none")
    BY <1>c DEF WritePending, Begins, At
  <2>2. r \in Receipts /\ r.state = "pending" /\ r # NoReceipt
    BY <1>1 DEF Receipts, NoReceipt
  <2> HIDE DEF r
  <2>3. receipt'[w] = r /\ received'[w] = received[w] /\ ledger'[w] = ledger[w]
    BY <1>0, <1>2, <2>1 DEF once
  <2>4. /\ Local(a, w)
        /\ \/ ask'[a] = NoAsk /\ ask'[a].pc = "none" /\ ask'[a].answer = "none"
           \/ ask'[a].pc = "dispatch" /\ ask'[a].answer = "none"
    BY <1>0, <1>3, <2>1, <2>2, GoLocal
  <2>5. Sound(a, w)
    BY <1>1, <2>1, <2>2, <2>3, <2>4 DEF Sound, Active
  <2> QED BY <1>0, <2>1, <2>3, <2>4, <2>5, HandlerKeeps
<1>d. CASE Admitted(a)
  <2>1. /\ HostStep /\ UNCHANGED receipt /\ ask[a].pc = "dispatch" /\ Go(a, "given", "none")
        /\ Once!Admit(w, ask[a].encoding)
    BY <1>d DEF Admitted, At
  <2>2. receipt'[w] = receipt[w] /\ received'[w] = received[w] /\ ledger'[w] = "pending" /\ received[w] = 0
    BY <1>0, <1>1, <1>2, <2>1 DEF Once!Admit
  <2>3. /\ Local(a, w)
        /\ \/ ask'[a] = NoAsk /\ ask'[a].pc = "none" /\ ask'[a].answer = "none"
           \/ ask'[a].pc = "given" /\ ask'[a].answer = "none"
    BY <1>0, <1>1, <1>3, <2>1, GoLocal
  <2>4. Sound(a, w)
    BY <1>1, <2>1, <2>2, <2>3 DEF Sound, Active
  <2> QED BY <1>0, <2>1, <2>2, <2>3, <2>4, HandlerKeeps
<1>e. CASE NotAdmitted(a)
  <2>1. HostStep /\ UNCHANGED <<receipt, once>> /\ ask[a].pc = "dispatch" /\ Active(a)
    BY <1>e DEF NotAdmitted, At, Active
  <2>2. Go(a, "done", "refused") \/ (ledger[w] = "applied" /\ Go(a, "finish", "none"))
    BY <1>e DEF NotAdmitted
  <2>3. CASE Go(a, "done", "refused")
    BY <1>0, <1>3, <2>1, <2>3, QuietStep
  <2>4. CASE ledger[w] = "applied" /\ Go(a, "finish", "none")
    BY <1>0, <1>1, <1>3, <2>1, <2>4, QuietStep
  <2> QED BY <2>2, <2>3, <2>4
<1>f. CASE AnswersEarly(a)
  <2>1. /\ HostStep /\ UNCHANGED <<receipt, once>> /\ ask[a].pc = "given" /\ Active(a)
        /\ Go(a, "given", "refused")
    BY <1>f DEF AnswersEarly, At, Active
  <2> QED BY <1>0, <1>1, <1>3, <2>1, QuietStep
<1>g. CASE Takes(a)
  <2>1. /\ HostStep /\ UNCHANGED receipt /\ ask[a].pc = "given" /\ Go(a, "taken", ask[a].answer)
        /\ Once!Deliver(w)
    BY <1>g DEF Takes, At
  <2>2. receipt'[w] = receipt[w] /\ received'[w] = 1 /\ ledger'[w] = ledger[w]
        /\ ledger[w] \in {"pending", "applied"}
    BY <1>0, <1>2, <2>1 DEF Once!Deliver
  <2>3. /\ Local(a, w)
        /\ \/ ask'[a] = NoAsk /\ ask'[a].pc = "none" /\ ask'[a].answer = "none"
           \/ ask'[a].pc = "taken" /\ ask'[a].answer = ask[a].answer
    <3>1. receipt' = receipt \/ \E r \in Receipts \cup {NoReceipt} : receipt' = [receipt EXCEPT ![w] = r]
      BY <2>1
    <3>2. \/ UNCHANGED once
          \/ \E c \in Encodings : Once!Admit(w, c)
          \/ Once!Deliver(w) \/ Once!Free(w) \/ Once!Confirm(w)
      BY <2>1
    <3> HIDE DEF w
    <3> QED BY <1>0, <1>1, <1>3, <1>4, <2>1, <3>1, <3>2, GoLocal
  <2>4. Sound(a, w)
    BY <1>1, <2>1, <2>2, <2>3 DEF Sound, Active
  <2>5. Before(w[1], w[2])
    BY <1>0, <1>2, AskShape DEF IInv, PartInv
  <2> QED BY <1>0, <2>1, <2>3, <2>4, <2>5, HandlerKeeps
<1>h. CASE Fails(a)
  <2>1. /\ HostStep /\ UNCHANGED <<receipt, once>>
        /\ \E answer \in Answers : Go(a, "done", answer) /\ answer \in {"refused", ask[a].answer}
    BY <1>1, <1>3, <1>h DEF Fails
  <2> HIDE DEF w
  <2> QED BY <1>0, <1>1, <1>3, <2>1, QuietStep DEF w
<1>i. CASE NotDelivered(a)
  <2>1. HostStep /\ UNCHANGED receipt /\ ask[a].pc = "given" /\ (Once!Free(w) \/ UNCHANGED once)
    BY <1>i DEF NotDelivered, At
  <2>2. \E pc \in {"free", "done"}, answer \in Answers :
          /\ Go(a, pc, answer)
          /\ answer = ask[a].answer /\ (pc = "free" => answer = "none")
    BY <1>1, <1>i DEF NotDelivered
  <2>3. PICK pc \in {"free", "done"}, answer \in Answers :
          /\ Go(a, pc, answer)
          /\ answer = ask[a].answer /\ (pc = "free" => answer = "none")
    BY <2>2
  <2>4. /\ ledger'[w] = "applied" => ledger[w] = "applied"
        /\ received'[w] = received[w] /\ receipt'[w] = receipt[w] /\ received[w] = 0
    BY <1>0, <1>1, <1>2, <2>1 DEF Once!Free, once
  <2>5. /\ Local(a, w)
        /\ \/ ask'[a] = NoAsk /\ ask'[a].pc = "none" /\ ask'[a].answer = "none"
           \/ ask'[a].pc = pc /\ ask'[a].answer = answer
    <3>1. receipt' = receipt \/ \E r \in Receipts \cup {NoReceipt} : receipt' = [receipt EXCEPT ![w] = r]
      BY <2>1
    <3>2. \/ UNCHANGED once
          \/ \E c \in Encodings : Once!Admit(w, c)
          \/ Once!Deliver(w) \/ Once!Free(w) \/ Once!Confirm(w)
      BY <2>1
    <3> HIDE DEF w
    <3> QED BY <1>0, <1>1, <1>3, <1>4, <2>1, <2>3, <3>1, <3>2, GoLocal
  <2>6. Sound(a, w)
    BY <1>1, <2>1, <2>3, <2>4, <2>5 DEF Sound, Active
  <2> QED BY <1>0, <2>1, <2>4, <2>5, <2>6, HandlerKeeps
<1>j. CASE Records(a)
  <2>1. HostStep /\ UNCHANGED receipt /\ ask[a].pc = "taken" /\ Once!Confirm(w)
    BY <1>j DEF Records, At
  <2>2. PICK pc \in {"finish", "done"}, answer \in Answers :
          /\ Go(a, pc, answer)
          /\ answer = ask[a].answer /\ (pc = "finish" => answer = "none")
    BY <1>1, <1>j DEF Records
  <2>3. receipt'[w] = receipt[w] /\ received'[w] = received[w] /\ ledger'[w] = "applied" /\ received[w] = 1
    BY <1>0, <1>1, <1>2, <2>1 DEF Once!Confirm
  <2>4. /\ Local(a, w)
        /\ \/ ask'[a] = NoAsk /\ ask'[a].pc = "none" /\ ask'[a].answer = "none"
           \/ ask'[a].pc = pc /\ ask'[a].answer = answer
    <3>1. receipt' = receipt \/ \E r \in Receipts \cup {NoReceipt} : receipt' = [receipt EXCEPT ![w] = r]
      BY <2>1
    <3>2. \/ UNCHANGED once
          \/ \E c \in Encodings : Once!Admit(w, c)
          \/ Once!Deliver(w) \/ Once!Free(w) \/ Once!Confirm(w)
      BY <2>1
    <3> HIDE DEF w
    <3> QED BY <1>0, <1>1, <1>3, <1>4, <2>1, <2>2, <3>1, <3>2, GoLocal
  <2>5. Sound(a, w)
    BY <1>1, <2>1, <2>2, <2>3, <2>4 DEF Sound, Active
  <2> QED BY <1>0, <2>1, <2>3, <2>4, <2>5, HandlerKeeps
<1>k. CASE RecordingFails(a)
  <2>1. /\ HostStep /\ UNCHANGED <<receipt, once>>
        /\ \E answer \in Answers : Go(a, "done", answer) /\ answer \in {"refused", ask[a].answer}
    BY <1>1, <1>3, <1>k DEF RecordingFails
  <2> HIDE DEF w
  <2> QED BY <1>0, <1>1, <1>3, <2>1, QuietStep DEF w
<1>l. CASE FreeReceipt(a)
  <2>1. /\ HostStep /\ UNCHANGED once /\ ask[a].pc = "free"
        /\ receipt' = [receipt EXCEPT ![w] = NoReceipt]
    BY <1>l DEF FreeReceipt, At
  <2>2. PICK answer \in {"refused", "target"} : Go(a, "done", answer)
    BY <1>l DEF FreeReceipt
  <2>3. receipt'[w] = NoReceipt /\ received'[w] = received[w] /\ ledger'[w] = ledger[w] /\ NoReceipt.state = "absent"
    BY <1>0, <1>2, <2>1 DEF once, NoReceipt
  <2>4. /\ Local(a, w)
        /\ \/ ask'[a] = NoAsk /\ ask'[a].pc = "none" /\ ask'[a].answer = "none"
           \/ ask'[a].pc = "done" /\ ask'[a].answer = answer
    <3>1. receipt' = receipt \/ \E r \in Receipts \cup {NoReceipt} : receipt' = [receipt EXCEPT ![w] = r]
      BY <2>1
    <3>2. \/ UNCHANGED once
          \/ \E c \in Encodings : Once!Admit(w, c)
          \/ Once!Deliver(w) \/ Once!Free(w) \/ Once!Confirm(w)
      BY <2>1
    <3> HIDE DEF w
    <3> QED BY <1>0, <1>1, <1>3, <1>4, <2>1, <2>2, <3>1, <3>2, GoLocal
  <2>5. Sound(a, w)
    BY <1>1, <2>1, <2>2, <2>3, <2>4 DEF Sound, Active
  <2> QED BY <1>0, <2>1, <2>3, <2>4, <2>5, HandlerKeeps
<1>m. CASE Completes(a)
  <2> DEFINE full == [receipt[w] EXCEPT !.state = "completed"]
  <2>1. /\ HostStep /\ UNCHANGED once /\ ask[a].pc = "finish" /\ Go(a, "done", "ok")
        /\ receipt' = [receipt EXCEPT ![w] = full]
    BY <1>m DEF Completes, At
  <2>2. full \in Receipts /\ full.state = "completed" /\ full # NoReceipt
    BY <1>1, <2>1 DEF Active, Receipts, NoReceipt
  <2> HIDE DEF full
  <2>3. receipt'[w] = full /\ received'[w] = received[w] /\ ledger'[w] = ledger[w]
    BY <1>0, <1>2, <2>1 DEF once
  <2>4. /\ Local(a, w)
        /\ \/ ask'[a] = NoAsk /\ ask'[a].pc = "none" /\ ask'[a].answer = "none"
           \/ ask'[a].pc = "done" /\ ask'[a].answer = "ok"
    <3>1. receipt' = receipt \/ \E r \in Receipts \cup {NoReceipt} : receipt' = [receipt EXCEPT ![w] = r]
      BY <2>1, <2>2
    <3>2. \/ UNCHANGED once
          \/ \E c \in Encodings : Once!Admit(w, c)
          \/ Once!Deliver(w) \/ Once!Free(w) \/ Once!Confirm(w)
      BY <2>1
    <3> HIDE DEF w
    <3> QED BY <1>0, <1>1, <1>3, <1>4, <2>1, <3>1, <3>2, GoLocal
  <2>5. Sound(a, w)
    BY <1>1, <2>1, <2>2, <2>3, <2>4 DEF Sound, Active
  <2> QED BY <1>0, <2>1, <2>3, <2>4, <2>5, HandlerKeeps
<1>n. CASE ReceiptWriteFails(a)
  BY <1>0, <1>3, <1>n, QuietStep DEF ReceiptWriteFails
<1> HIDE DEF w
<1> QED BY <1>a, <1>b, <1>c, <1>d, <1>e, <1>f, <1>g, <1>h, <1>i, <1>j, <1>k, <1>l, <1>m, <1>n DEF HandlerNext

-----------------------------------------------------------------------------
(* A step of the app, or a crash *)

\* The Host has all of a message, or will keep an id of it.
Gone(m) == received[Text(m)] = 1 \/ \E k \in 1..Parts[m] : Fixed(<<m, k>>)

\* Handlers are left alone or gone, or a request for a part whose turn has come arrives.
Kin ==
  /\ ask' \in [Slots -> AskRecords \cup {NoAsk}]
  /\ \A b \in Slots :
       \/ ask'[b] = ask[b]
       \/ ask'[b] = NoAsk
       \/ /\ ask'[b].pc = "arrived" /\ ask'[b].answer = "none"
          /\ Before(ask'[b].what[1], ask'[b].what[2])

LEMMA AppKeeps ==
  ASSUME IInv, UNCHANGED <<receipt, once>>, Kin,
         online' \in BOOLEAN, encoding' \in Encodings, faults' \in Nat,
         outbox' \in [Messages -> OutboxStates], lane' \in Seq(Messages), attempt' \in AttemptRecords,
         AttemptInv',
         \A m \in Messages : outbox'[m] = "sent" => outbox[m] = "sent" \/ Gone(m),
         lane' # <<>> => Before(Head(lane'), attempt'.part)
  PROVE  IInv'
<1>0. UNCHANGED <<receipt, ledger, digest, received>>
  BY DEF once
<1>1. DeliveryTypeOK'
  BY <1>0 DEF IInv, DeliveryTypeOK, Kin, AttemptRecords
<1>2. \A b \in Slots :
        \/ ask'[b] = ask[b]
        \/ ask'[b].pc \in {"none", "arrived"} /\ ask'[b].answer = "none"
  BY DEF Kin, NoAsk
<1>3. OwnerInv'
  BY <1>0, <1>2 DEF IInv, OwnerInv, Active
<1>4. LedgerInv' /\ ReceiptTells' /\ PartsInOrder'
  BY <1>0 DEF IInv, LedgerInv, ReceiptTells, PartsInOrder
<1>5. ASSUME NEW w, Fixed(w) PROVE Fixed(w)'
  BY <1>0, <1>2, <1>5 DEF Fixed, Active
<1>6. HeldInv'
  <2>1. ASSUME NEW b \in Slots, ask'[b].answer = "held", NEW x, x = ask'[b].what PROVE Fixed(x)'
    BY <1>2, <1>5, <2>1 DEF IInv, HeldInv
  <2> QED BY <2>1 DEF HeldInv, Fixed, Active
<1>7. SentInv'
  <2> SUFFICES ASSUME NEW m \in Messages, outbox'[m] = "sent"
               PROVE  received'[Text(m)] = 1 \/ \E k \in 1..Parts[m] : Fixed(<<m, k>>)'
    BY DEF SentInv
  <2>1. Gone(m)
    BY DEF IInv, SentInv, Gone
  <2> QED BY <1>0, <1>5, <2>1 DEF Gone
<1>8. PartInv'
  <2>1. ASSUME NEW b \in Slots, ask'[b] # NoAsk
        PROVE  \A k \in 1..(ask'[b].what[2] - 1) : received[<<ask'[b].what[1], k>>] = 1
    BY <2>1 DEF Kin, IInv, PartInv, Before
  <2>2. lane' # <<>> => \A k \in 1..(attempt'.part - 1) : received[<<Head(lane'), k>>] = 1
    BY DEF Before
  <2> QED BY <1>0, <2>1, <2>2 DEF PartInv, Before
<1> QED BY <1>1, <1>3, <1>4, <1>6, <1>7, <1>8 DEF IInv

\* Before the first part of a message there is nothing.
LEMMA FirstPart ==
  ASSUME NEW s \in Seq(Messages)
  PROVE  /\ FreshAttempt \in AttemptRecords
         /\ s # <<>> => Head(s) \in Messages /\ FreshAttempt.part <= Parts[Head(s)]
                        /\ Before(Head(s), FreshAttempt.part)
<1>1. s # <<>> => Head(s) \in Messages
  OBVIOUS
<1>2. s # <<>> => Parts[Head(s)] \in Nat \ {0}
  BY <1>1, TextWire
<1> QED BY <1>1, <1>2 DEF FreshAttempt, AttemptRecords, Before

LEMMA SettleKeeps ==
  ASSUME IInv, UNCHANGED <<receipt, once>>, Kin,
         online' \in BOOLEAN, encoding' \in Encodings, faults' \in Nat,
         lane # <<>>, NEW state \in Kept \cup {"sent"}, Settle(state),
         state = "sent" => Gone(Head(lane))
  PROVE  IInv'
<1>1. lane \in Seq(Messages) /\ outbox \in [Messages -> OutboxStates]
  BY DEF IInv, DeliveryTypeOK
<1>2. Head(lane) \in Messages /\ lane' = Tail(lane) /\ Tail(lane) \in Seq(Messages) /\ attempt' = FreshAttempt
  BY <1>1 DEF Settle
<1>3. outbox' \in [Messages -> OutboxStates]
      /\ \A m \in Messages : outbox'[m] = "sent" => outbox[m] = "sent" \/ Gone(m)
  BY <1>1, <1>2 DEF Settle, OutboxStates
<1>4. AttemptInv'
  BY <1>2, FirstPart DEF AttemptInv, FreshAttempt
<1>5. attempt' \in AttemptRecords /\ (lane' # <<>> => Before(Head(lane'), attempt'.part))
  BY <1>2, FirstPart
<1> QED BY <1>2, <1>3, <1>4, <1>5, AppKeeps

LEMMA ReleasedKin ==
  ASSUME IInv, attempt.slot # 0, ask' = Released
  PROVE  Kin
<1>1. ask \in [Slots -> AskRecords \cup {NoAsk}] /\ attempt.slot \in Slots
  BY DEF IInv, DeliveryTypeOK
<1> QED BY <1>1 DEF Kin, Released

LEMMA SameKin ==
  ASSUME IInv, UNCHANGED ask
  PROVE  Kin
BY DEF Kin, IInv, DeliveryTypeOK

\* What an answer tells the app.
LEMMA AnswerTells ==
  ASSUME IInv, NEW kind \in Answers \ {"none"}, Answered(kind)
  PROVE  /\ Kin /\ UNCHANGED <<receipt, once, encoding, online, faults>> /\ lane # <<>>
         /\ Head(lane) \in Messages
         /\ attempt.part \in 1..Parts[Head(lane)] /\ <<Head(lane), attempt.part>> \in Wire
         /\ kind = "ok" => received[<<Head(lane), attempt.part>>] = 1
         /\ kind = "held" => Fixed(<<Head(lane), attempt.part>>)
<1>1. /\ lane # <<>> /\ attempt.slot # 0 /\ ask[attempt.slot].answer = kind /\ ask' = Released
      /\ UNCHANGED <<receipt, once, encoding, online, faults>>
  BY DEF Answered
<1>2. lane \in Seq(Messages) /\ attempt.slot \in Slots /\ attempt.part \in Nat \ {0}
  BY <1>1 DEF IInv, DeliveryTypeOK
<1>3. Head(lane) \in Messages /\ attempt.part <= Parts[Head(lane)] /\ Parts[Head(lane)] \in Nat
      /\ ask[attempt.slot].what = <<Head(lane), attempt.part>>
  BY <1>1, <1>2, TextWire DEF IInv, AttemptInv
<1>4. attempt.part \in 1..Parts[Head(lane)]
  BY <1>2, <1>3
<1>5. Kin
  BY <1>1, ReleasedKin
<1> QED BY <1>1, <1>2, <1>3, <1>4, <1>5, WirePart DEF IInv, OwnerInv, HeldInv

\* The attempt goes on with the same head: deliveries only join the lane behind it.
LEMMA JoinLane ==
  ASSUME IInv, NEW s \in Seq(Messages), lane' = lane \o s, UNCHANGED <<attempt, ask>>
  PROVE  /\ lane' \in Seq(Messages) /\ attempt' \in AttemptRecords /\ AttemptInv'
         /\ lane' # <<>> => Before(Head(lane'), attempt'.part)
<1>1. lane \in Seq(Messages) /\ attempt \in AttemptRecords
  BY DEF IInv, DeliveryTypeOK, AttemptRecords
<1>2. CASE lane = <<>>
  <2>1. lane' = s /\ attempt' = FreshAttempt /\ FreshAttempt.slot = 0
    BY <1>2 DEF IInv, AttemptInv, FreshAttempt
  <2> QED BY <1>1, <2>1, FirstPart DEF AttemptInv
<1>3. CASE lane # <<>>
  <2>1. lane' # <<>> /\ Head(lane') = Head(lane) /\ lane' \in Seq(Messages)
    BY <1>1, <1>3
  <2> QED BY <1>1, <1>3, <2>1 DEF IInv, AttemptInv, PartInv
<1> QED BY <1>2, <1>3

LEMMA InvStep == IInv /\ [DeliveryNext]_deliveryVars => IInv'
<1> SUFFICES ASSUME IInv, [DeliveryNext]_deliveryVars PROVE IInv'
  OBVIOUS
<1>0. /\ outbox \in [Messages -> OutboxStates] /\ lane \in Seq(Messages) /\ attempt \in AttemptRecords
      /\ encoding \in Encodings /\ online \in BOOLEAN /\ faults \in Nat
      /\ attempt.part \in Nat \ {0} /\ attempt.slot \in Slots \cup {0} /\ attempt.again \in BOOLEAN
  BY DEF IInv, DeliveryTypeOK, AttemptRecords
<1>1. /\ {"ok", "held", "unknown", "target", "refused"} \subseteq Answers \ {"none"}
      /\ Kept \subseteq OutboxStates /\ {"sending", "sent", "deleted"} \subseteq OutboxStates
      /\ {"sending", "waiting", "refused"} = Kept
  BY DEF Answers, Kept, OutboxStates
<1>a. ASSUME NEW m \in Messages, Press(m) PROVE IInv'
  <2>1. /\ lane' = lane \o <<m>> /\ outbox' = [outbox EXCEPT ![m] = "sending"]
        /\ UNCHANGED <<attempt, encoding, online, ask, receipt, once, faults>>
    BY <1>0, <1>a DEF Press
  <2>2. /\ lane' \in Seq(Messages) /\ attempt' \in AttemptRecords /\ AttemptInv'
        /\ lane' # <<>> => Before(Head(lane'), attempt'.part)
    <3>1. <<m>> \in Seq(Messages)
      OBVIOUS
    <3> QED BY <2>1, <3>1, JoinLane
  <2> QED BY <1>0, <1>1, <2>1, <2>2, SameKin, AppKeeps
<1>b. CASE Unreachable
  <2>1. lane # <<>> /\ Settle("waiting") /\ UNCHANGED <<encoding, online, ask, receipt, once, faults>>
    BY <1>b DEF Unreachable, Ready
  <2> QED BY <1>0, <1>1, <2>1, SameKin, SettleKeeps
<1>c. CASE SendPart
  <2>1. PICK a \in Slots, n \in Names :
          /\ ask' = [ask EXCEPT ![a] = [pc |-> "arrived", what |-> <<Head(lane), attempt.part>>,
                                        turn |-> n, encoding |-> encoding, answer |-> "none"]]
          /\ attempt' = [attempt EXCEPT !.slot = a]
    BY <1>c DEF SendPart
  <2>2. lane # <<>> /\ attempt.slot = 0 /\ UNCHANGED <<outbox, lane, encoding, online, receipt, once, faults>>
    BY <1>c DEF SendPart, Ready
  <2>3. Head(lane) \in Messages /\ attempt.part \in 1..Parts[Head(lane)]
    BY <1>0, <2>2, TextWire DEF IInv, AttemptInv
  <2> DEFINE r == [pc |-> "arrived", what |-> <<Head(lane), attempt.part>>,
                   turn |-> n, encoding |-> encoding, answer |-> "none"]
  <2>4. r \in AskRecords /\ r # NoAsk /\ r.what = <<Head(lane), attempt.part>>
        /\ r.pc = "arrived" /\ r.answer = "none"
    BY <1>0, <2>3, WirePart DEF AskRecords, Answers, NoAsk
  <2>5. ask \in [Slots -> AskRecords \cup {NoAsk}] /\ ask' = [ask EXCEPT ![a] = r]
    BY <2>1 DEF IInv, DeliveryTypeOK
  <2> HIDE DEF r
  <2>6. Before(r.what[1], r.what[2])
    BY <2>2, <2>4 DEF IInv, PartInv
  <2>7. Kin
    BY <2>4, <2>5, <2>6 DEF Kin
  <2>8. attempt' \in AttemptRecords /\ attempt'.slot = a /\ attempt'.part = attempt.part
    BY <1>0, <2>1 DEF AttemptRecords
  <2>9. AttemptInv'
    BY <2>2, <2>4, <2>5, <2>8 DEF IInv, AttemptInv
  <2>10. lane' # <<>> => Before(Head(lane'), attempt'.part)
    BY <2>2, <2>8 DEF IInv, PartInv
  <2> QED BY <1>0, <2>2, <2>7, <2>8, <2>9, <2>10, AppKeeps
<1>d. CASE PartAccepted
  <2>1. Answered("ok")
    BY <1>d DEF PartAccepted
  <2>2. /\ Kin /\ UNCHANGED <<receipt, once, encoding, online, faults>> /\ lane # <<>>
        /\ Head(lane) \in Messages
        /\ attempt.part \in 1..Parts[Head(lane)]
        /\ received[<<Head(lane), attempt.part>>] = 1
    BY <1>1, <2>1, AnswerTells
  <2>3. CASE attempt.part < Parts[Head(lane)]
    <3>1. UNCHANGED <<outbox, lane>> /\ attempt' = [FreshAttempt EXCEPT !.part = attempt.part + 1]
      BY <1>d, <2>3 DEF PartAccepted
    <3>2. attempt' \in AttemptRecords /\ attempt'.slot = 0 /\ attempt'.part = attempt.part + 1
      <4>1. attempt.part + 1 \in Nat \ {0}
        BY <1>0
      <4>2. attempt' = [part |-> attempt.part + 1, slot |-> 0, again |-> FALSE]
        BY <3>1 DEF FreshAttempt
      <4> QED BY <4>1, <4>2 DEF AttemptRecords
    <3>3. AttemptInv'
      BY <1>0, <2>2, <2>3, <3>1, <3>2, TextWire DEF AttemptInv
    <3>4. Before(Head(lane), attempt.part + 1)
      BY <1>0, <2>2 DEF IInv, PartInv, Before
    <3> QED BY <1>0, <2>2, <3>1, <3>2, <3>3, <3>4, AppKeeps
  <2>4. CASE ~(attempt.part < Parts[Head(lane)])
    <3>1. Settle("sent")
      BY <1>d, <2>4 DEF PartAccepted
    <3>2. attempt.part = Parts[Head(lane)]
      BY <1>0, <2>2, <2>4, TextWire
    <3>3. Gone(Head(lane))
      BY <2>2, <3>2 DEF Gone, Text
    <3> QED BY <1>0, <2>2, <3>1, <3>3, SettleKeeps
  <2> QED BY <2>3, <2>4
<1>e. CASE IdHeld
  <2>1. Answered("held")
    BY <1>e DEF IdHeld
  <2>2. /\ Kin /\ UNCHANGED <<receipt, once, encoding, online, faults>> /\ lane # <<>>
        /\ attempt.part \in 1..Parts[Head(lane)] /\ Fixed(<<Head(lane), attempt.part>>)
    BY <1>1, <2>1, AnswerTells
  <2>3. Gone(Head(lane))
    BY <2>2 DEF Gone
  <2>4. Settle("refused") \/ Settle("sent")
    BY <1>e DEF IdHeld
  <2> QED BY <1>0, <1>1, <2>2, <2>3, <2>4, SettleKeeps
<1>f. CASE TargetRefused
  <2>1. Answered("target")
    BY <1>f DEF TargetRefused
  <2>2. Kin /\ UNCHANGED <<receipt, once, encoding, online, faults>> /\ lane # <<>>
    BY <1>1, <2>1, AnswerTells
  <2>3. CASE Settle("refused")
    BY <1>0, <1>1, <2>2, <2>3, SettleKeeps
  <2>4. CASE attempt' = [attempt EXCEPT !.slot = 0, !.again = TRUE] /\ UNCHANGED <<outbox, lane>>
    <3>1. attempt' \in AttemptRecords /\ attempt'.slot = 0 /\ attempt'.part = attempt.part
      BY <1>0, <2>4 DEF AttemptRecords
    <3>2. AttemptInv' /\ (lane' # <<>> => Before(Head(lane'), attempt'.part))
      BY <2>2, <2>4, <3>1 DEF IInv, AttemptInv, PartInv
    <3> QED BY <1>0, <2>2, <2>4, <3>1, <3>2, AppKeeps
  <2> QED BY <1>f, <2>3, <2>4 DEF TargetRefused
<1>g. CASE Refused
  <2>1. Kin /\ UNCHANGED <<receipt, once, encoding, online, faults>> /\ lane # <<>>
    BY <1>1, <1>g, AnswerTells DEF Refused
  <2>2. Settle("refused")
    BY <1>g DEF Refused
  <2> QED BY <1>0, <1>1, <2>1, <2>2, SettleKeeps
<1>h. CASE AskTimesOut
  <2>1. /\ lane # <<>> /\ attempt.slot # 0 /\ Settle("waiting") /\ ask' = Released
        /\ UNCHANGED <<encoding, online, receipt, once, faults>>
    BY <1>h DEF AskTimesOut
  <2> QED BY <1>0, <1>1, <2>1, ReleasedKin, SettleKeeps
\* The outbox alone changes.
<1>2. ASSUME UNCHANGED <<lane, attempt, encoding, online, ask, receipt, once, faults>>,
             outbox' \in [Messages -> OutboxStates],
             \A m \in Messages : outbox'[m] = "sent" => outbox[m] = "sent" \/ Gone(m)
      PROVE  IInv'
  <2>1. AttemptInv' /\ (lane' # <<>> => Before(Head(lane'), attempt'.part))
    BY <1>2 DEF IInv, AttemptInv, PartInv
  <2> QED BY <1>0, <1>2, <2>1, SameKin, AppKeeps
<1>i. ASSUME NEW m \in Messages, RowArrives(m) PROVE IInv'
  <2>1. outbox' = [outbox EXCEPT ![m] = "sent"] /\ Gone(m)
        /\ UNCHANGED <<lane, attempt, encoding, online, ask, receipt, once, faults>>
    BY <1>i DEF RowArrives, Gone
  <2> QED BY <1>0, <1>1, <1>2, <2>1
<1>j. ASSUME NEW m \in Messages, Discard(m) PROVE IInv'
  <2>1. outbox' = [outbox EXCEPT ![m] = "deleted"]
        /\ UNCHANGED <<lane, attempt, encoding, online, ask, receipt, once, faults>>
    BY <1>j DEF Discard
  <2> QED BY <1>0, <1>1, <1>2, <2>1
<1>k. ASSUME NEW m \in Messages, RetrySend(m) PROVE IInv'
  <2>1. /\ lane' = lane \o <<m>> /\ outbox' = [outbox EXCEPT ![m] = "sending"] /\ faults' = faults + 1
        /\ UNCHANGED <<attempt, encoding, online, ask, receipt, once>>
    BY <1>0, <1>k DEF RetrySend, Fault
  <2>2. /\ lane' \in Seq(Messages) /\ attempt' \in AttemptRecords /\ AttemptInv'
        /\ lane' # <<>> => Before(Head(lane'), attempt'.part)
    <3>1. <<m>> \in Seq(Messages)
      OBVIOUS
    <3> QED BY <2>1, <3>1, JoinLane
  <2>3. faults' \in Nat
    BY <1>0, <2>1
  <2> QED BY <1>0, <1>1, <2>1, <2>2, <2>3, SameKin, AppKeeps
<1>l. CASE Reconnect
  <2>1. /\ online' = TRUE /\ outbox' = [m \in Messages |-> IF m \in Due THEN "sending" ELSE outbox[m]]
        /\ UNCHANGED <<attempt, encoding, ask, receipt, once, faults>>
    BY <1>l DEF Reconnect
  <2>2. PICK s \in InPressOrder(Due) : lane' = lane \o s
    BY <1>l DEF Reconnect
  <2>3. s \in Seq(Messages)
    <3>1. PICK n \in 0..NumMessages : s \in [1..n -> Due]
      BY DEF InPressOrder
    <3>2. Due \subseteq Messages
      BY DEF Due
    <3> QED BY <3>1, <3>2, DeliveryAssumption
  <2>4. /\ lane' \in Seq(Messages) /\ attempt' \in AttemptRecords /\ AttemptInv'
        /\ lane' # <<>> => Before(Head(lane'), attempt'.part)
    BY <2>1, <2>2, <2>3, JoinLane
  <2> QED BY <1>0, <1>1, <2>1, <2>4, SameKin, AppKeeps
\* A connection is lost, with what was asked or not.
<1>3. ASSUME Kin, UNCHANGED <<receipt, once>>, encoding' \in Encodings, online' \in BOOLEAN, faults' \in Nat,
             IF attempt.slot # 0 THEN Settle("waiting")
             ELSE UNCHANGED <<outbox, lane, attempt>>
      PROVE  IInv'
  <2>1. CASE attempt.slot # 0
    <3>1. lane # <<>>
      BY <2>1 DEF IInv, AttemptInv, FreshAttempt
    <3> QED BY <1>1, <1>3, <2>1, <3>1, SettleKeeps
  <2>2. CASE attempt.slot = 0
    <3>1. AttemptInv' /\ (lane' # <<>> => Before(Head(lane'), attempt'.part))
      BY <1>3, <2>2 DEF IInv, AttemptInv, PartInv
    <3> QED BY <1>0, <1>3, <2>2, <3>1, AppKeeps
  <2> QED BY <2>1, <2>2
<1>m. CASE LoseConnection
  <2>1. /\ faults' = faults + 1 /\ online' = FALSE /\ UNCHANGED <<encoding, receipt, once>>
        /\ IF attempt.slot # 0 THEN Settle("waiting") ELSE UNCHANGED <<outbox, lane, attempt>>
        /\ ask' = IF attempt.slot # 0 THEN Released ELSE ask
    BY <1>m DEF LoseConnection, Disconnect, Fault
  <2>2. Kin
    BY <2>1, ReleasedKin, SameKin
  <2>3. faults' \in Nat
    BY <1>0, <2>1
  <2> QED BY <1>0, <1>3, <2>1, <2>2, <2>3
<1>n. CASE AppRestart
  <2>1. /\ faults' = faults + 1 /\ online' = FALSE /\ lane' = <<>> /\ attempt' = FreshAttempt
        /\ encoding' \in Encodings /\ UNCHANGED <<outbox, receipt, once>>
        /\ ask' = IF attempt.slot # 0 THEN Released ELSE ask
    BY <1>n DEF AppRestart, Fault
  <2>2. Kin
    BY <2>1, ReleasedKin, SameKin
  <2>3. faults' \in Nat /\ lane' \in Seq(Messages) /\ attempt' \in AttemptRecords
    BY <1>0, <2>1, FirstPart
  <2>4. AttemptInv'
    BY <2>1 DEF AttemptInv, FreshAttempt
  <2> QED BY <1>0, <2>1, <2>2, <2>3, <2>4, AppKeeps
<1>o. CASE HostCrash
  <2>1. /\ faults' = faults + 1 /\ online' = FALSE /\ UNCHANGED <<encoding, receipt, once>>
        /\ IF attempt.slot # 0 THEN Settle("waiting") ELSE UNCHANGED <<outbox, lane, attempt>>
        /\ ask' = [a \in Slots |-> NoAsk]
    BY <1>o DEF HostCrash, Fault
  <2>2. Kin
    BY <2>1 DEF Kin
  <2>3. faults' \in Nat
    BY <1>0, <2>1
  <2> QED BY <1>0, <1>3, <2>1, <2>2, <2>3
<1>p. CASE UNCHANGED deliveryVars
  <2>1. UNCHANGED <<lane, attempt, encoding, online, ask, receipt, once, faults, outbox>>
    BY <1>p DEF deliveryVars
  <2> QED BY <1>0, <1>2, <2>1
<1> QED BY <1>a, <1>b, <1>c, <1>d, <1>e, <1>f, <1>g, <1>h, <1>i, <1>j, <1>k, <1>l, <1>m, <1>n, <1>o, <1>p,
           HandlerStep DEF DeliveryNext, AttemptNext

LEMMA InvInit == DeliveryInit => IInv
<1> SUFFICES ASSUME DeliveryInit PROVE IInv
  OBVIOUS
<1>1. /\ outbox \in [Messages -> OutboxStates] /\ \A m \in Messages : outbox[m] # "sent"
      /\ lane = <<>> /\ lane \in Seq(Messages) /\ attempt = FreshAttempt /\ attempt \in AttemptRecords
      /\ \A a \in Slots : ask[a] = NoAsk
      /\ ask \in [Slots -> AskRecords \cup {NoAsk}]
  <2>1. <<>> \in Seq(Messages)
    OBVIOUS
  <2>2. FreshAttempt \in AttemptRecords
    BY <2>1, FirstPart
  <2> QED BY <2>1, <2>2 DEF DeliveryInit, OutboxStates
<1>2. /\ receipt \in [Wire -> Receipts \cup {NoReceipt}] /\ \A w \in Wire : receipt[w].state = "absent"
      /\ ledger \in [Wire -> Once!States] /\ digest \in [Wire -> Encodings \cup {NoEncoding}]
      /\ received \in [Wire -> 0..1] /\ \A w \in Wire : received[w] = 0 /\ ledger[w] = "absent"
  BY DEF DeliveryInit, Once!OnceInit, Once!States, NoReceipt
<1>3. encoding \in Encodings /\ online \in BOOLEAN /\ faults \in Nat
  BY DEF DeliveryInit
<1>4. DeliveryTypeOK
  BY <1>1, <1>2, <1>3 DEF DeliveryTypeOK, AttemptRecords
<1>5. AttemptInv /\ SentInv
  BY <1>1 DEF AttemptInv, SentInv, FreshAttempt
<1>6. OwnerInv /\ HeldInv
  BY <1>1 DEF OwnerInv, HeldInv, Active, NoAsk
<1>7. LedgerInv /\ ReceiptTells
  BY <1>2 DEF LedgerInv, ReceiptTells
<1>8. PartInv
  BY <1>1 DEF PartInv
<1>9. PartsInOrder
  <2> SUFFICES ASSUME NEW m \in Messages, NEW k \in 1..(Parts[m] - 1), received[<<m, k + 1>>] = 1 PROVE FALSE
    BY DEF PartsInOrder
  <2>1. k + 1 \in 1..Parts[m]
    BY TextWire
  <2> QED BY <1>2, <2>1, WirePart
<1> QED BY <1>4, <1>5, <1>6, <1>7, <1>8, <1>9 DEF IInv

-----------------------------------------------------------------------------
(* Theorems *)

\* Every variable keeps its shape, whatever is lost, retried or restarted.
THEOREM DeliveryTypeCorrect == DeliverySpec => []DeliveryTypeOK
<1>1. IInv => DeliveryTypeOK
  BY DEF IInv
<1> QED BY <1>1, InvInit, InvStep, PTL DEF DeliverySpec

\* Receipts tell of the provider: for any number of requests with one key, in any order of their
\* lookups, writes, failures and crashes, no resend of a message the provider took is new to the Host
\* (MessageReceipts.send).
THEOREM ReceiptsTell == DeliverySpec => []ReceiptTells
<1>1. IInv => ReceiptTells
  BY DEF IInv
<1> QED BY <1>1, InvInit, InvStep, PTL DEF DeliverySpec

\* For any number of parts and messages in the lane, no part reaches the provider before those in
\* front of it (deliverAgentEntry).
THEOREM PartsKeepOrder == DeliverySpec => []PartsInOrder
<1>1. IInv => PartsInOrder
  BY DEF IInv
<1> QED BY <1>1, InvInit, InvStep, PTL DEF DeliverySpec

\* An entry leaves the outbox as sent only if the provider has its text or the Host keeps an id of it
\* that no handler removes any more.
THEOREM SentIsHeld == DeliverySpec => []SentHeld
<1>1. IInv => SentHeld
  BY DEF IInv, SentInv, SentHeld, Fixed
<1> QED BY <1>1, InvInit, InvStep, PTL DEF DeliverySpec

-----------------------------------------------------------------------------
(* The daemon is used as OnceDelivery promises *)

LEMMA HandlerUsesOnce ==
  ASSUME IInv, NEW a \in Slots, HandlerNext(a)
  PROVE  Once!OnceNext \/ UNCHANGED once
<1> DEFINE w == ask[a].what
<1>1. CASE Admitted(a) \/ Takes(a) \/ NotDelivered(a) \/ Records(a)
  <2>1. ask[a].pc # "none"
    BY <1>1 DEF Admitted, Takes, NotDelivered, Records, At
  <2>2. w \in Wire /\ ask[a].encoding \in Encodings
    BY <2>1, AskShape DEF IInv
  <2>3. CASE Admitted(a)
    BY <2>2, <2>3 DEF Admitted, Once!OnceNext
  <2>4. CASE Takes(a)
    BY <2>2, <2>4 DEF Takes, Once!OnceNext
  <2>5. CASE NotDelivered(a)
    BY <2>2, <2>5 DEF NotDelivered, Once!OnceNext
  <2>6. CASE Records(a)
    BY <2>2, <2>6 DEF Records, Once!OnceNext
  <2> QED BY <1>1, <2>3, <2>4, <2>5, <2>6
<1>2. CASE ~(Admitted(a) \/ Takes(a) \/ NotDelivered(a) \/ Records(a))
  BY <1>2 DEF HandlerNext, ReceiptAnswers, PrepareFails, WritePending, NotAdmitted, AnswersEarly,
     Fails, RecordingFails, FreeReceipt, Completes, ReceiptWriteFails
<1> QED BY <1>1, <1>2

LEMMA UsesOnce == IInv /\ [DeliveryNext]_deliveryVars => [Once!OnceNext]_(Once!onceVars)
<1> SUFFICES ASSUME IInv, [DeliveryNext]_deliveryVars
             PROVE  Once!OnceNext \/ UNCHANGED once
  BY DEF Once!onceVars, once
<1>1. CASE \E a \in Slots : HandlerNext(a)
  BY <1>1, HandlerUsesOnce
<1>2. CASE \E m \in Messages : Press(m) \/ RowArrives(m) \/ Discard(m) \/ RetrySend(m)
  BY <1>2 DEF Press, RowArrives, Discard, RetrySend
<1>3. CASE AttemptNext
  BY <1>3 DEF AttemptNext, Unreachable, SendPart, PartAccepted, IdHeld, TargetRefused, Refused,
     AskTimesOut, Answered
<1>4. CASE Reconnect \/ LoseConnection \/ AppRestart \/ HostCrash \/ UNCHANGED deliveryVars
  BY <1>4 DEF Reconnect, LoseConnection, AppRestart, HostCrash, deliveryVars, once
<1> QED BY <1>1, <1>2, <1>3, <1>4 DEF DeliveryNext

\* From the press to the provider, through receipts, retries and crashes of the Host, a message takes
\* only the steps of once-only delivery, which the dispatch is shown to implement.
THEOREM DeliveryUsesOnce == DeliverySpec => Once!OnceSpec
<1>1. DeliveryInit => Once!OnceInit
  BY DEF DeliveryInit
<1> QED BY <1>1, UsesOnce, InvInit, InvStep, PTL DEF DeliverySpec, Once!OnceSpec
=============================================================================
