----------------------- MODULE CampaignDelivery_proofs -----------------------
(***************************************************************************)
(* What holds of label campaigns for any number of runs, recipients and    *)
(* worker processes, of crashes, stalls and owner commands, and for every  *)
(* daily cap.  Only the bound that no tick stalls for a whole day is kept. *)
(*                                                                         *)
(* The claim of a recipient is fenced by a token in the row, the send is   *)
(* not: a tick whose row was expired in the meantime still sends.  What    *)
(* makes this safe is the row itself.  From the claim to the end of the    *)
(* tick it is IN_FLIGHT or UNKNOWN, never PENDING again, and it counts as  *)
(* a message of today, so that no other tick can claim the recipient, or   *)
(* the same phone in another run, before the day is over.                  *)
(***************************************************************************)
EXTENDS CampaignDelivery, FiniteSetTheorems, TLAPS

Resting    == {"asleep", "fence", "discard", "complete", "claim"}
BeforeSend == {"status", "check", "reserve", "recheck", "send", "backoff"}
Underway   == BeforeSend \union {"finish"}
AfterRow   == {"pause", "settle", "tidy"}
Busy(w)    == tick[w].pc \in Underway \union AfterRow

Statuses == {"NONE", "PENDING", "IN_FLIGHT", "SENT", "FAILED", "UNKNOWN", "SKIPPED"}
Outcomes == {"NONE", "SENT", "FAILED", "UNKNOWN", "SKIPPED"}
Held     == {"RESERVED", "CONSUMED", "UNCERTAIN"}
NotSent  == {"FAILED", "SKIPPED"}

ItemRow == [status : Statuses, token : Workers \union {Nobody},
            claimed : BOOLEAN, done : BOOLEAN, overdue : BOOLEAN]
TickLocal == [pc : Resting \union Underway \union AfterRow,
              item : Items \union {NoItem}, outcome : Outcomes,
              reserved : BOOLEAN, stale : SUBSET Items]
Ear == [from : [Runs -> Nat], today : Nat, afterStop : Nat]

TickTyped == /\ tick \in [Workers -> TickLocal]
             /\ \A w \in Workers : Busy(w) => tick[w].item \in Items

(* The rows, with the rule for the token.                                  *)
RowsOK == /\ item \in [Items -> ItemRow]
          /\ \A i \in Items : item[i].status = "IN_FLIGHT" <=> item[i].token # Nobody

OthersOK ==
  /\ run \in [Runs -> {"NONE", "QUEUED", "RUNNING", "PAUSED", "COMPLETED",
                       "CANCELLED"}]
  /\ current \in [Runs -> BOOLEAN]
  /\ quota \in [Items -> {"NONE", "RESERVED", "CONSUMED", "RELEASED",
                          "UNCERTAIN"}]
  /\ consent \in [Phones -> {"none", "in", "stopped"}]
  /\ channel \in BOOLEAN /\ throttle \in BOOLEAN
  /\ heard \in [Phones -> Ear]
  /\ calls \in Nat

TypeInv == RowsOK /\ OthersOK /\ TickTyped

Got(i) == heard[i[2]].from[i[1]]

(* A run that is not launched has no recipients, and a recipient that      *)
(* waits is not counted as an attempt.                                     *)
RowsAgree ==
  \A i \in Items :
    /\ run[i[1]] = "NONE" => item[i].status = "NONE"
    /\ item[i].status \in {"NONE", "PENDING"} => ~item[i].claimed

(* The row of a tick that may still send keeps its phone occupied.         *)
RowKept(w) ==
  LET s == item[tick[w].item] IN
  /\ tick[w].pc \in Underway =>
       /\ s.claimed
       /\ \/ s.status = "IN_FLIGHT" /\ s.token = w
          \/ s.status = "UNKNOWN" /\ s.done
  /\ tick[w].pc \in AfterRow => s.status \notin {"NONE", "PENDING", "IN_FLIGHT"}

RowIsKept == \A w \in Workers : RowKept(w)

(* No two ticks are at work on one row, or about to write to one phone.    *)
TicksApart ==
  \A v, w \in Workers :
    v # w /\ Busy(v) /\ Busy(w) =>
      /\ tick[v].item # tick[w].item
      /\ {tick[v].pc, tick[w].pc} \subseteq Underway =>
           tick[v].item[2] # tick[w].item[2]

(* Before its send, a tick's phone has got nothing: from the run, today,   *)
(* or since a STOP.                                                        *)
Unheard(w) ==
  tick[w].pc \in BeforeSend =>
    /\ Got(tick[w].item) = 0
    /\ heard[tick[w].item[2]].today = 0
    /\ heard[tick[w].item[2]].afterStop = 0

(* The outcome a tick is to settle is true.                                *)
OutcomeTrue(w) ==
  /\ tick[w].pc \in AfterRow \union {"finish"} =>
       /\ tick[w].outcome # "NONE"
       /\ tick[w].outcome \in NotSent => Got(tick[w].item) = 0
  /\ tick[w].pc = "finish" =>
       /\ tick[w].outcome \in NotSent => heard[tick[w].item[2]].today = 0
       /\ tick[w].outcome = "SENT" => Got(tick[w].item) > 0

(* A tick sends only what is paid for.                                     *)
Paid(w) == tick[w].pc \in {"recheck", "send"} => quota[tick[w].item] \in Held

TickKnows == \A w \in Workers : Unheard(w) /\ OutcomeTrue(w) /\ Paid(w)

(* What a phone got today is on a row of today; only a phone that said     *)
(* STOP has got a message since.                                           *)
PhonesKnown ==
  \A p \in Phones :
    /\ heard[p].today > 0 => RecentlyMessaged(p)
    /\ consent[p] # "stopped" => heard[p].afterStop = 0

(* The properties, row by row.                                             *)
RowsTrue ==
  \A i \in Items :
    /\ Got(i) <= 1
    /\ Got(i) > 0 => item[i].status \in {"IN_FLIGHT", "SENT", "UNKNOWN"}
    /\ item[i].status = "SENT" => Got(i) > 0
    /\ Got(i) > 0 => quota[i] \in Held

PhonesOnce == \A p \in Phones : heard[p].today <= 1 /\ heard[p].afterStop <= 1

Claimed == {i \in Items : item[i].claimed}
Waiting == {i \in Items : \E w \in Workers :
              tick[w].item = i /\ tick[w].pc \in BeforeSend}

(* A send request stands for a claim of today that no tick waits with.     *)
Counted ==
  /\ IsFiniteSet(Claimed) /\ Cardinality(Claimed) <= DailyCap
  /\ calls <= Cardinality(Claimed \ Waiting)

DeliveryInv ==
  /\ RowsAgree /\ RowIsKept /\ TicksApart /\ TickKnows
  /\ PhonesKnown /\ RowsTrue /\ PhonesOnce

CampaignInv == TypeInv /\ DeliveryInv /\ Counted

----------------------------------------------------------------------------
(* Types.                                                                  *)

LEMMA ItemsTyped ==
  ASSUME NEW i \in Items
  PROVE  i[1] \in Runs /\ i[2] \in Phones /\ i = <<i[1], i[2]>>
BY DEF Items

LEMMA VerdictTyped ==
  ASSUME NEW s \in ItemRow, NEW status \in Statuses
  PROVE  /\ Verdict(s, status) \in ItemRow
         /\ Verdict(s, status).status = status
         /\ Verdict(s, status).token = Nobody
         /\ Verdict(s, status).claimed = s.claimed
         /\ Verdict(s, status).done <=> status \in {"SENT", "UNKNOWN"}
<1> DEFINE done == status \in {"SENT", "UNKNOWN"}
<1>1. done \in BOOLEAN
  OBVIOUS
<1>2. Verdict(s, status) = [s EXCEPT !.status = status, !.done = done,
                                     !.token = Nobody, !.overdue = FALSE]
  BY DEF Verdict
<1>3. done <=> status \in {"SENT", "UNKNOWN"}
  OBVIOUS
<1> HIDE DEF done
<1>4. QED
  BY <1>1, <1>2, <1>3 DEF ItemRow

LEMMA RowsTyped ==
  /\ Absent \in ItemRow /\ Pending \in ItemRow /\ Asleep \in TickLocal
  /\ Absent.token = Nobody /\ Pending.token = Nobody
  /\ Absent.status = "NONE" /\ Pending.status = "PENDING"
  /\ Asleep.pc = "asleep" /\ ~Pending.claimed /\ ~Absent.claimed
BY DEF Absent, Pending, Asleep, ItemRow, TickLocal, Statuses, Outcomes, Resting

(* A message handed to WhatsApp is one more for its phone.                 *)
LEMMA WireStep ==
  ASSUME heard \in [Phones -> Ear], NEW i \in Items, OnTheWire(i)
  PROVE  /\ heard' \in [Phones -> Ear]
         /\ \A j \in Items : heard'[j[2]].from[j[1]] = IF j = i THEN Got(j) + 1 ELSE Got(j)
         /\ \A p \in Phones \ {i[2]} : heard'[p] = heard[p]
         /\ heard'[i[2]].today = heard[i[2]].today + 1
         /\ heard'[i[2]].afterStop = IF consent[i[2]] = "stopped"
                                       THEN heard[i[2]].afterStop + 1
                                       ELSE heard[i[2]].afterStop
<1> DEFINE from == [heard[i[2]].from EXCEPT ![i[1]] = @ + 1]
           after == IF consent[i[2]] = "stopped" THEN heard[i[2]].afterStop + 1
                    ELSE heard[i[2]].afterStop
<1>1. i[1] \in Runs /\ i[2] \in Phones /\ i = <<i[1], i[2]>>
  BY ItemsTyped
<1>2. heard[i[2]] \in Ear
  BY <1>1
<1>3. /\ from \in [Runs -> Nat] /\ after \in Nat
      /\ \A r \in Runs : from[r] = IF r = i[1] THEN heard[i[2]].from[r] + 1
                                   ELSE heard[i[2]].from[r]
  BY <1>1, <1>2 DEF Ear
<1>4. heard' = [heard EXCEPT ![i[2]] =
                  [from |-> from, today |-> heard[i[2]].today + 1, afterStop |-> after]]
  BY DEF OnTheWire
<1> HIDE DEF from, after
<1>5. [from |-> from, today |-> heard[i[2]].today + 1, afterStop |-> after] \in Ear
  BY <1>2, <1>3 DEF Ear
<1>6. /\ heard' \in [Phones -> Ear]
      /\ \A p \in Phones \ {i[2]} : heard'[p] = heard[p]
      /\ heard'[i[2]].from = from
      /\ heard'[i[2]].today = heard[i[2]].today + 1
      /\ heard'[i[2]].afterStop = after
  BY <1>1, <1>4, <1>5
<1>7. \A j \in Items : heard'[j[2]].from[j[1]] = IF j = i THEN Got(j) + 1 ELSE Got(j)
  <2>1. SUFFICES ASSUME NEW j \in Items
                 PROVE  heard'[j[2]].from[j[1]] = IF j = i THEN Got(j) + 1 ELSE Got(j)
    OBVIOUS
  <2>2. j[1] \in Runs /\ j[2] \in Phones /\ j = <<j[1], j[2]>>
    BY ItemsTyped
  <2>3. CASE j[2] # i[2]
    BY <1>6, <2>2, <2>3 DEF Got
  <2>4. CASE j[2] = i[2] /\ j[1] # i[1]
    BY <1>3, <1>6, <2>2, <2>4 DEF Got
  <2>5. CASE j[2] = i[2] /\ j[1] = i[1]
    BY <1>1, <1>3, <1>6, <2>2, <2>5 DEF Got
  <2>6. QED
    BY <2>3, <2>4, <2>5
<1>8. QED
  BY <1>6, <1>7 DEF after

(* A worker's tick takes another value, the others stay.                   *)
LEMMA TickMoves ==
  ASSUME TickTyped, NEW w \in Workers, NEW t \in TickLocal,
         tick' = [tick EXCEPT ![w] = t], t.pc \in Resting \/ t.item \in Items
  PROVE  TickTyped'
<1>1. tick' \in [Workers -> TickLocal]
  BY DEF TickTyped
<1>2. ASSUME NEW v \in Workers, tick'[v].pc \in Underway \union AfterRow
      PROVE  tick'[v].item \in Items
  <2>1. CASE v = w
    <3>1. tick'[v] = t
      BY <2>1 DEF TickTyped
    <3>2. t.pc \notin Resting
      BY <1>2, <3>1 DEF Resting, Underway, BeforeSend, AfterRow
    <3>3. QED
      BY <3>1, <3>2
  <2>2. CASE v # w
    BY <1>2, <2>2 DEF TickTyped, Busy
  <2>3. QED
    BY <2>1, <2>2
<1>3. QED
  BY <1>1, <1>2 DEF TickTyped, Busy

(* One row takes another value.                                            *)
LEMMA RowMoves ==
  ASSUME RowsOK, NEW i \in Items, NEW s \in ItemRow,
         item' = [item EXCEPT ![i] = s], s.status = "IN_FLIGHT" <=> s.token # Nobody
  PROVE  RowsOK'
BY DEF RowsOK

LEMMA TickOf ==
  ASSUME TickTyped, NEW w \in Workers
  PROVE  /\ tick[w] \in TickLocal
         /\ Busy(w) => tick[w].item \in Items
BY DEF TickTyped

----------------------------------------------------------------------------
(* The count of send requests.                                             *)

LEMMA Recounted ==
  ASSUME Counted, Claimed' \subseteq Claimed,
         Claimed \ Waiting \subseteq Claimed' \ Waiting', calls' = calls, calls \in Nat
  PROVE  Counted'
<1>1. IsFiniteSet(Claimed) /\ Cardinality(Claimed) <= DailyCap
  BY DEF Counted
<1>2. IsFiniteSet(Claimed') /\ Cardinality(Claimed') <= Cardinality(Claimed)
  BY <1>1, FS_Subset
<1>3. IsFiniteSet(Claimed' \ Waiting') /\ IsFiniteSet(Claimed \ Waiting)
  BY <1>1, <1>2, FS_Subset
<1>4. Cardinality(Claimed \ Waiting) <= Cardinality(Claimed' \ Waiting')
  BY <1>3, FS_Subset
<1>5. /\ Cardinality(Claimed) \in Nat /\ Cardinality(Claimed') \in Nat
      /\ Cardinality(Claimed \ Waiting) \in Nat /\ Cardinality(Claimed' \ Waiting') \in Nat
  BY <1>1, <1>2, <1>3, FS_CardinalityType
<1>6. DailyCap \in Nat
  BY CampaignAssumption
<1>7. Cardinality(Claimed') <= DailyCap
  BY <1>1, <1>2, <1>5, <1>6
<1>8. calls' <= Cardinality(Claimed' \ Waiting')
  BY <1>4, <1>5 DEF Counted
<1>9. QED
  BY <1>2, <1>7, <1>8 DEF Counted

----------------------------------------------------------------------------
(* Steps that move one tick and leave the rows alone.                      *)

(* What such a step must keep: the tick ends or has not begun, goes on to  *)
(* its send or gives up before it, or goes on after its row is settled.    *)
GoesOn(t, u) ==
  \/ u.pc \in Resting
  \/ /\ t.pc \in BeforeSend /\ u.item = t.item
     /\ u.pc \in BeforeSend \/ (u.pc = "finish" /\ u.outcome = "SKIPPED")
  \/ /\ t.pc \in AfterRow /\ u.pc \in AfterRow
     /\ u.item = t.item /\ u.outcome = t.outcome

LEMMA WorkerMoves ==
  ASSUME CampaignInv, OthersOK', NEW w \in Workers, NEW t \in TickLocal,
         tick' = [tick EXCEPT ![w] = t], GoesOn(tick[w], t),
         UNCHANGED <<item, consent, heard, calls>>,
         \A r \in Runs : run'[r] = "NONE" => run[r] = "NONE",
         \A i \in Items : quota[i] \in Held =>
            \/ quota'[i] \in Held
            \/ i = tick[w].item /\ tick[w].pc \in AfterRow /\ Got(i) = 0,
         t.pc \in {"recheck", "send"} => quota'[t.item] \in Held
  PROVE  CampaignInv'
<1> USE DEF CampaignInv, DeliveryInv
<1>0. RowsOK /\ OthersOK /\ TickTyped
  BY DEF TypeInv
<1>1. /\ t.pc \notin Resting => Busy(w) /\ t.item = tick[w].item /\ tick[w].item \in Items
      /\ t.pc \in Underway => tick[w].pc \in BeforeSend
      /\ t.pc \in AfterRow => tick[w].pc \in AfterRow /\ t.outcome = tick[w].outcome
      /\ t.pc = "finish" => t.outcome = "SKIPPED"
      /\ t.pc \in Resting <=> t.pc \notin Underway \union AfterRow
      /\ t.pc \in BeforeSend => tick[w].pc \in BeforeSend
  BY <1>0 DEF GoesOn, Resting, Underway, BeforeSend, AfterRow, Busy, TickTyped, TickLocal
<1>2. /\ tick'[w] = t
      /\ \A v \in Workers \ {w} : tick'[v] = tick[v]
  BY <1>0 DEF TickTyped
<1>3. TypeInv'
  <2>1. TickTyped'
    BY <1>0, <1>1, TickMoves
  <2>2. RowsOK'
    BY <1>0 DEF RowsOK
  <2>3. QED
    BY <2>1, <2>2 DEF TypeInv
<1>4. RowsAgree'
  BY ItemsTyped DEF RowsAgree
<1>5. RowIsKept'
  <2>1. ASSUME NEW v \in Workers \ {w} PROVE RowKept(v)'
    BY <1>2 DEF RowIsKept, RowKept
  <2>2. RowKept(w)'
    BY <1>1, <1>2 DEF RowIsKept, RowKept, Underway
  <2>3. QED
    BY <2>1, <2>2 DEF RowIsKept
<1>6. TicksApart'
  <2>1. ASSUME NEW u \in Workers, NEW v \in Workers, u # v, Busy(u)', Busy(v)'
        PROVE  /\ tick'[u].item # tick'[v].item
               /\ {tick'[u].pc, tick'[v].pc} \subseteq Underway =>
                    tick'[u].item[2] # tick'[v].item[2]
    <3>1. \A x \in {u, v} : /\ Busy(x) /\ tick'[x].item = tick[x].item
                            /\ tick'[x].pc \in Underway => tick[x].pc \in Underway
      BY <1>1, <1>2, <2>1 DEF Busy, Underway
    <3>2. QED
      BY <2>1, <3>1 DEF TicksApart
  <2>2. QED
    BY <2>1 DEF TicksApart
<1>7. TickKnows'
  <2>1. ASSUME NEW v \in Workers \ {w} PROVE Paid(v)'
    <3>1. SUFFICES ASSUME tick[v].pc \in {"recheck", "send"}
                   PROVE  quota'[tick[v].item] \in Held
      BY <1>2 DEF Paid
    <3>2. Busy(v) /\ tick[v].item \in Items /\ quota[tick[v].item] \in Held
      BY <1>0, <3>1 DEF Busy, Underway, BeforeSend, TickTyped, TickKnows, Paid
    <3>3. tick[w].pc \in AfterRow => tick[w].item # tick[v].item
      BY <3>2 DEF TicksApart, Busy
    <3>4. QED
      BY <3>2, <3>3
  <2>2. ASSUME NEW v \in Workers \ {w} PROVE Unheard(v)' /\ OutcomeTrue(v)'
    BY <1>2 DEF TickKnows, Unheard, OutcomeTrue, Got
  <2>3. Unheard(w)'
    BY <1>1, <1>2 DEF TickKnows, Unheard, Got, Resting, BeforeSend
  <2>4. OutcomeTrue(w)'
    BY <1>1, <1>2 DEF TickKnows, Unheard, OutcomeTrue, Got, Resting, BeforeSend, Underway,
       AfterRow
  <2>5. Paid(w)'
    BY <1>2 DEF Paid
  <2>6. QED
    BY <2>1, <2>2, <2>3, <2>4, <2>5 DEF TickKnows
<1>8. PhonesKnown'
  BY DEF PhonesKnown, RecentlyMessaged
<1>9. RowsTrue'
  <2>1. ASSUME NEW i \in Items, Got(i) > 0 PROVE quota'[i] \in Held
    BY <2>1 DEF RowsTrue
  <2>2. QED
    BY <2>1 DEF RowsTrue, Got
<1>10. PhonesOnce'
  BY DEF PhonesOnce
<1>11. Counted'
  <2>1. Claimed' = Claimed
    BY DEF Claimed
  <2>2. Waiting' \subseteq Waiting
    BY <1>1, <1>2 DEF Waiting, Resting, BeforeSend
  <2>3. QED
    BY <1>0, <2>1, <2>2, Recounted DEF OthersOK
<1>12. QED
  BY <1>3, <1>4, <1>5, <1>6, <1>7, <1>8, <1>9, <1>10, <1>11

----------------------------------------------------------------------------
(* Steps that change rows without a tick's part in it, or none.            *)

(* A row is launched, excluded or expired, or stays what it is.            *)
RowGoesOn(i) ==
  /\ item'[i].claimed = item[i].claimed
  /\ \/ /\ item'[i].status = item[i].status
        /\ item'[i].token = item[i].token /\ item'[i].done = item[i].done
     \/ item[i].status = "NONE" /\ item'[i].status = "PENDING"
     \/ item[i].status = "PENDING" /\ item'[i].status = "SKIPPED"
     \/ item[i].status = "IN_FLIGHT" /\ item'[i].status = "UNKNOWN" /\ item'[i].done
  /\ run'[i[1]] = "NONE" => run[i[1]] = "NONE" /\ item'[i].status = item[i].status

LEMMA RowsMove ==
  ASSUME CampaignInv, RowsOK', OthersOK',
         UNCHANGED <<consent, heard, calls, quota>>,
         tick' \in [Workers -> TickLocal],
         \A w \in Workers : \/ tick'[w] = tick[w]
                            \/ {tick[w].pc, tick'[w].pc} \subseteq Resting,
         \A i \in Items : RowGoesOn(i)
  PROVE  CampaignInv'
<1> USE DEF CampaignInv, DeliveryInv
<1>0. RowsOK /\ OthersOK /\ TickTyped
  BY DEF TypeInv
<1>1. ASSUME NEW w \in Workers, tick'[w].pc \in Underway \union AfterRow
      PROVE  tick'[w] = tick[w] /\ Busy(w) /\ tick[w].item \in Items
  BY <1>0, <1>1 DEF Resting, Underway, BeforeSend, AfterRow, TickTyped, Busy
<1>2. TypeInv'
  BY <1>0, <1>1 DEF TypeInv, TickTyped, Busy
<1>3. RowsAgree'
  BY DEF RowsAgree, RowGoesOn
<1>4. RowIsKept'
  BY <1>1 DEF RowIsKept, RowKept, RowGoesOn
<1>5. TicksApart'
  BY <1>1 DEF TicksApart, Busy
<1>6. TickKnows'
  <2>1. SUFFICES ASSUME NEW w \in Workers
                 PROVE  Unheard(w)' /\ OutcomeTrue(w)' /\ Paid(w)'
    BY DEF TickKnows
  <2>2. tick'[w].pc \in {"recheck", "send", "finish"} \union BeforeSend
          => tick'[w].pc \in Underway
    BY DEF Underway, BeforeSend
  <2>3. QED
    BY <1>1, <2>2 DEF TickKnows, Unheard, OutcomeTrue, Paid, Got
<1>7. PhonesKnown'
  <2>1. ASSUME NEW p \in Phones, RecentlyMessaged(p) PROVE RecentlyMessaged(p)'
    <3>1. PICK r \in Runs : Touched(item[r, p])
      BY <2>1 DEF RecentlyMessaged
    <3>2. <<r, p>> \in Items
      BY DEF Items
    <3>3. Touched(item'[r, p])
      BY <3>1, <3>2 DEF Touched, RowGoesOn
    <3>4. QED
      BY <3>3 DEF RecentlyMessaged
  <2>2. QED
    BY <2>1 DEF PhonesKnown
<1>8. RowsTrue'
  BY DEF RowsTrue, RowGoesOn, Got
<1>9. PhonesOnce'
  BY DEF PhonesOnce
<1>10. Counted'
  <2>1. Claimed' = Claimed
    BY DEF Claimed, RowGoesOn
  <2>2. Waiting' \subseteq Waiting
    BY <1>1 DEF Waiting, Underway
  <2>3. QED
    BY <1>0, <2>1, <2>2, Recounted DEF OthersOK
<1>11. QED
  BY <1>2, <1>3, <1>4, <1>5, <1>6, <1>7, <1>8, <1>9, <1>10

LEMMA OwnerStep ==
  ASSUME CampaignInv, NEW r \in Runs, ChangeRun(r) \/ EditDraft(r)
  PROVE  CampaignInv'
<1>0. RowsOK /\ OthersOK /\ TickTyped
  BY DEF CampaignInv, TypeInv
<1>1. UNCHANGED <<item, tick, consent, heard, calls, quota, throttle, channel>>
  BY DEF ChangeRun, EditDraft
<1>2. OthersOK' /\ \A q \in Runs : run'[q] = "NONE" => run[q] = "NONE"
  <2>1. CASE ChangeRun(r)
    BY <1>0, <1>1, <2>1 DEF ChangeRun, OthersOK
  <2>2. CASE EditDraft(r)
    <3>1. current' \in [Runs -> BOOLEAN]
      BY <1>0, <2>2 DEF EditDraft, OthersOK
    <3>2. QED
      BY <1>0, <1>1, <2>2, <3>1 DEF EditDraft, OthersOK
  <2>3. QED
    BY <2>1, <2>2
<1>3. \A i \in Items : RowGoesOn(i)
  BY <1>1, <1>2, ItemsTyped DEF RowGoesOn
<1>4. RowsOK' /\ tick' \in [Workers -> TickLocal]
  BY <1>0, <1>1 DEF RowsOK, TickTyped
<1>5. \A w \in Workers : tick'[w] = tick[w]
  BY <1>1
<1>6. QED
  BY <1>1, <1>2, <1>3, <1>4, <1>5, RowsMove

LEMMA ChannelStep ==
  ASSUME CampaignInv, SwitchChannel
  PROVE  CampaignInv'
<1>0. RowsOK /\ OthersOK /\ TickTyped
  BY DEF CampaignInv, TypeInv
<1>1. UNCHANGED <<run, current, item, tick, consent, heard, calls, quota, throttle>>
  BY DEF SwitchChannel
<1>2. channel' \in BOOLEAN
  BY DEF SwitchChannel
<1>3. OthersOK' /\ RowsOK' /\ \A i \in Items : RowGoesOn(i)
  BY <1>0, <1>1, <1>2 DEF OthersOK, RowsOK, RowGoesOn
<1>4. QED
  BY <1>0, <1>1, <1>3, RowsMove DEF TickTyped

LEMMA StutterStep ==
  ASSUME CampaignInv, UNCHANGED vars
  PROVE  CampaignInv'
<1>0. RowsOK /\ OthersOK /\ TickTyped
  BY DEF CampaignInv, TypeInv
<1>1. UNCHANGED <<run, current, item, tick, consent, heard, calls, quota, throttle, channel>>
  BY DEF vars
<1>2. OthersOK' /\ RowsOK' /\ \A i \in Items : RowGoesOn(i)
  BY <1>0, <1>1 DEF OthersOK, RowsOK, RowGoesOn
<1>3. QED
  BY <1>0, <1>1, <1>2, RowsMove DEF TickTyped

LEMMA LaunchStep ==
  ASSUME CampaignInv, NEW r \in Runs, Launch(r)
  PROVE  CampaignInv'
<1>0. RowsOK /\ OthersOK /\ TickTyped /\ RowsAgree
  BY DEF CampaignInv, TypeInv, DeliveryInv
<1>1. UNCHANGED <<tick, consent, heard, calls, quota, throttle, channel, current>>
  BY DEF Launch
<1>2. run[r] = "NONE" /\ run' = [run EXCEPT ![r] = "QUEUED"]
  BY DEF Launch
<1>3. item' \in [Items -> ItemRow]
      /\ \A i \in Items : item'[i] = item[i] \/ (i[1] = r /\ item'[i] = Pending)
  BY <1>0, RowsTyped DEF Launch, RowsOK
<1>4. RowsOK'
  BY <1>0, <1>3, RowsTyped DEF RowsOK
<1>5. OthersOK'
  BY <1>0, <1>1, <1>2 DEF OthersOK
<1>6. ASSUME NEW i \in Items PROVE RowGoesOn(i)
  <2>1. i[1] = r => item[i].status = "NONE" /\ ~item[i].claimed
    BY <1>0, <1>2 DEF RowsAgree
  <2>2. item[i].claimed \in BOOLEAN
    BY <1>0 DEF RowsOK, ItemRow
  <2>3. CASE item'[i] = item[i]
    BY <1>0, <1>2, <2>3, ItemsTyped DEF RowGoesOn, OthersOK
  <2>4. CASE i[1] = r /\ item'[i] = Pending
    BY <1>0, <1>2, <2>1, <2>2, <2>4, RowsTyped DEF RowGoesOn, OthersOK, Pending, Absent
  <2>5. QED
    BY <1>3, <2>3, <2>4
<1>7. QED
  BY <1>0, <1>1, <1>4, <1>5, <1>6, RowsMove DEF TickTyped

LEMMA ClockStep ==
  ASSUME CampaignInv, SpacingPasses \/ (\E i \in Items : GetsOverdue(i))
  PROVE  CampaignInv'
<1>0. RowsOK /\ OthersOK /\ TickTyped
  BY DEF CampaignInv, TypeInv
<1>1. UNCHANGED <<run, tick, consent, heard, calls, quota, channel, current>>
  BY DEF SpacingPasses, GetsOverdue
<1>2. OthersOK'
  <2>1. throttle' \in BOOLEAN
    BY <1>0 DEF SpacingPasses, GetsOverdue, OthersOK
  <2>2. QED
    BY <1>0, <1>1, <2>1 DEF OthersOK
<1>3. RowsOK' /\ \A i \in Items : RowGoesOn(i)
  <2>1. CASE SpacingPasses
    BY <1>0, <1>1, <2>1 DEF SpacingPasses, RowsOK, RowGoesOn
  <2>2. ASSUME NEW j \in Items, GetsOverdue(j)
        PROVE  RowsOK' /\ \A i \in Items : RowGoesOn(i)
    <3>1. item' = [item EXCEPT ![j] = [item[j] EXCEPT !.overdue = TRUE]]
      BY <2>2 DEF GetsOverdue
    <3>2. /\ [item[j] EXCEPT !.overdue = TRUE] \in ItemRow
          /\ [item[j] EXCEPT !.overdue = TRUE].status = item[j].status
          /\ [item[j] EXCEPT !.overdue = TRUE].token = item[j].token
          /\ [item[j] EXCEPT !.overdue = TRUE].done = item[j].done
          /\ [item[j] EXCEPT !.overdue = TRUE].claimed = item[j].claimed
      BY <1>0 DEF RowsOK, ItemRow
    <3>3. RowsOK'
      BY <1>0, <3>1, <3>2 DEF RowsOK
    <3>4. \A i \in Items : RowGoesOn(i)
      BY <1>0, <1>1, <3>1, <3>2 DEF RowsOK, RowGoesOn
    <3>5. QED
      BY <3>3, <3>4
  <2>3. QED
    BY <2>1, <2>2
<1>4. QED
  BY <1>0, <1>1, <1>2, <1>3, RowsMove DEF TickTyped

(* Rows are excluded and expired by ticks that have not claimed anything.  *)
LEMMA SweepStep ==
  ASSUME CampaignInv, NEW w \in Workers, MarkExpiredUnknown(w) \/ DiscardNotAllowed(w)
  PROVE  CampaignInv'
<1>0. RowsOK /\ OthersOK /\ TickTyped /\ RowsAgree
  BY DEF CampaignInv, TypeInv, DeliveryInv
<1>1. UNCHANGED <<run, consent, heard, calls, quota, throttle, channel, current>>
  BY DEF MarkExpiredUnknown, DiscardNotAllowed
<1>2. OthersOK'
  BY <1>0, <1>1 DEF OthersOK
<1>3. \A i \in Items : item[i] \in ItemRow
  BY <1>0 DEF RowsOK
<1>4. /\ tick' \in [Workers -> TickLocal]
      /\ \A v \in Workers : tick'[v] = tick[v] \/ {tick[v].pc, tick'[v].pc} \subseteq Resting
  <2>1. CASE MarkExpiredUnknown(w)
    <3>1. PICK stale \in SUBSET Items :
            tick' = [tick EXCEPT ![w] = [tick[w] EXCEPT !.pc = "fence", !.stale = stale]]
      BY <2>1 DEF MarkExpiredUnknown
    <3>2. tick[w].pc \in Resting
      BY <2>1 DEF MarkExpiredUnknown, At, Resting
    <3>3. /\ [tick[w] EXCEPT !.pc = "fence", !.stale = stale] \in TickLocal
          /\ [tick[w] EXCEPT !.pc = "fence", !.stale = stale].pc \in Resting
      BY <1>0, TickOf DEF TickLocal, Resting
    <3>4. QED
      BY <1>0, <3>1, <3>2, <3>3 DEF TickTyped
  <2>2. CASE DiscardNotAllowed(w)
    <3>1. tick' = [tick EXCEPT ![w] = [tick[w] EXCEPT !.pc = "complete"]]
      BY <2>2 DEF DiscardNotAllowed, Go
    <3>2. tick[w].pc \in Resting
      BY <2>2 DEF DiscardNotAllowed, At, Resting
    <3>3. /\ [tick[w] EXCEPT !.pc = "complete"] \in TickLocal
          /\ [tick[w] EXCEPT !.pc = "complete"].pc \in Resting
      BY <1>0, TickOf DEF TickLocal, Resting
    <3>4. QED
      BY <1>0, <3>1, <3>2, <3>3 DEF TickTyped
  <2>3. QED
    BY <2>1, <2>2
<1>5. RowsOK' /\ \A i \in Items : RowGoesOn(i)
  <2>1. CASE MarkExpiredUnknown(w)
    <3>1. \A i \in Items : \/ item'[i] = item[i]
                           \/ item[i].status = "IN_FLIGHT" /\ item'[i] = Verdict(item[i], "UNKNOWN")
      BY <2>1 DEF MarkExpiredUnknown, Stale, Expired
    <3>2. item' = [i \in Items |-> item'[i]]
      BY <2>1 DEF MarkExpiredUnknown
    <3>3. \A i \in Items : item'[i] \in ItemRow
      BY <1>3, <3>1, VerdictTyped DEF Statuses
    <3>4. RowsOK'
      BY <1>0, <1>3, <3>1, <3>2, <3>3, VerdictTyped DEF RowsOK, Statuses
    <3>5. ASSUME NEW i \in Items PROVE RowGoesOn(i)
      <4>1. CASE item'[i] = item[i]
        BY <1>1, <4>1 DEF RowGoesOn
      <4>2. CASE item[i].status = "IN_FLIGHT" /\ item'[i] = Verdict(item[i], "UNKNOWN")
        <5>1. run[i[1]] # "NONE"
          BY <1>0, <4>2 DEF RowsAgree
        <5>2. /\ item'[i].status = "UNKNOWN" /\ item'[i].done
              /\ item'[i].claimed = item[i].claimed
          BY <1>3, <4>2, VerdictTyped DEF Statuses
        <5>3. QED
          BY <1>1, <4>2, <5>1, <5>2 DEF RowGoesOn
      <4>3. QED
        BY <3>1, <4>1, <4>2
    <3>6. QED
      BY <3>4, <3>5
  <2>2. CASE DiscardNotAllowed(w)
    <3>1. \A i \in Items : \/ item'[i] = item[i]
                           \/ /\ item[i].status = "PENDING" /\ Live(i[1])
                              /\ item'[i] = Verdict(item[i], "SKIPPED")
      BY <2>2 DEF DiscardNotAllowed
    <3>2. item' = [i \in Items |-> item'[i]]
      BY <2>2 DEF DiscardNotAllowed
    <3>3. \A i \in Items : item'[i] \in ItemRow
      BY <1>3, <3>1, VerdictTyped DEF Statuses
    <3>4. RowsOK'
      BY <1>0, <1>3, <3>1, <3>2, <3>3, VerdictTyped DEF RowsOK, Statuses
    <3>5. \A i \in Items : RowGoesOn(i)
      BY <1>1, <1>3, <3>1, VerdictTyped DEF RowGoesOn, Statuses, Live
    <3>6. QED
      BY <3>4, <3>5
  <2>3. QED
    BY <2>1, <2>2
<1>6. QED
  BY <1>1, <1>2, <1>4, <1>5, RowsMove

----------------------------------------------------------------------------
(* The steps of one tick that leave the rows alone.                        *)

LedgerStates == {"NONE", "RESERVED", "CONSUMED", "RELEASED", "UNCERTAIN"}

LEMMA LedgerCalls ==
  ASSUME NEW q \in LedgerStates
  PROVE  /\ Reserved(q) \in Held /\ Reserved(q) \in LedgerStates
         /\ Consumed(q) \in LedgerStates /\ (q \in Held => Consumed(q) \in Held)
         /\ Uncertain(q) \in LedgerStates /\ (q \in Held => Uncertain(q) \in Held)
         /\ Released(q) \in LedgerStates
BY DEF LedgerStates, Held, Reserved, Consumed, Uncertain, Released

LEMMA CompletedRuns ==
  ASSUME OthersOK, run' = Completed
  PROVE  /\ run' \in [Runs -> {"NONE", "QUEUED", "RUNNING", "PAUSED", "COMPLETED",
                               "CANCELLED"}]
         /\ \A r \in Runs : run'[r] = "NONE" => run[r] = "NONE"
BY DEF OthersOK, Completed

LEMMA EndStep ==
  ASSUME CampaignInv, NEW w \in Workers,
         \/ FinishCompletedRuns(w) \/ NothingToClaim(w) \/ Tidy(w) \/ Dies(w)
  PROVE  CampaignInv'
<1>0. OthersOK /\ TickTyped /\ tick[w] \in TickLocal /\ Asleep \in TickLocal
  BY RowsTyped, TickOf DEF CampaignInv, TypeInv
<1>1. UNCHANGED <<item, consent, heard, calls, quota, channel, current>>
  BY DEF FinishCompletedRuns, NothingToClaim, Tidy, Dies
<1>2. PICK t \in TickLocal : tick' = [tick EXCEPT ![w] = t] /\ t.pc \in Resting
  <2>1. CASE FinishCompletedRuns(w)
    <3>1. [tick[w] EXCEPT !.pc = "claim"] \in TickLocal
      BY <1>0 DEF TickLocal, Resting
    <3>2. [tick[w] EXCEPT !.pc = "claim"].pc = "claim"
      BY <1>0 DEF TickLocal
    <3>3. QED
      BY <2>1, <3>1, <3>2 DEF FinishCompletedRuns, Go, Resting
  <2>2. CASE NothingToClaim(w) \/ Tidy(w) \/ Dies(w)
    BY <1>0, <2>2 DEF NothingToClaim, Tidy, Dies, Asleep, Resting
  <2>3. QED
    BY <2>1, <2>2
<1>3. OthersOK' /\ \A r \in Runs : run'[r] = "NONE" => run[r] = "NONE"
  <2>1. CASE FinishCompletedRuns(w) \/ Tidy(w)
    <3>1. run' = Completed /\ throttle' = throttle
      BY <2>1 DEF FinishCompletedRuns, Tidy
    <3>2. QED
      BY <1>0, <1>1, <3>1, CompletedRuns DEF OthersOK
  <2>2. CASE NothingToClaim(w)
    <3>1. throttle' \in BOOLEAN
      BY <2>2 DEF NothingToClaim
    <3>2. QED
      BY <1>0, <1>1, <2>2, <3>1 DEF NothingToClaim, OthersOK
  <2>3. CASE Dies(w)
    BY <1>0, <1>1, <2>3 DEF Dies, OthersOK
  <2>4. QED
    BY <2>1, <2>2, <2>3
<1>4. GoesOn(tick[w], t) /\ t.pc \notin {"recheck", "send"}
  BY <1>2 DEF GoesOn, Resting
<1>5. QED
  BY <1>1, <1>2, <1>3, <1>4, WorkerMoves

LEMMA FenceStep ==
  ASSUME CampaignInv, NEW w \in Workers, FenceStaleQuota(w)
  PROVE  CampaignInv'
<1>0. OthersOK /\ TickTyped /\ tick[w] \in TickLocal
  BY TickOf DEF CampaignInv, TypeInv
<1>1. /\ UNCHANGED <<run, item, consent, heard, calls, channel, current, throttle>>
      /\ tick[w].pc = "fence"
  BY DEF FenceStaleQuota, At
<1>2. PICK t \in TickLocal : tick' = [tick EXCEPT ![w] = t] /\ t.pc \in Resting
  <2>1. /\ [tick[w] EXCEPT !.pc = "discard"] \in TickLocal
        /\ [tick[w] EXCEPT !.pc = "discard"].pc = "discard"
    BY <1>0 DEF TickLocal, Resting
  <2>2. ASSUME NEW i \in Items
        PROVE  LET u == [tick[w] EXCEPT !.stale = tick[w].stale \ {i}] IN
               u \in TickLocal /\ u.pc = "fence"
    BY <1>0, <1>1 DEF TickLocal
  <2>3. \/ tick' = [tick EXCEPT ![w] = [tick[w] EXCEPT !.pc = "discard"]]
        \/ \E i \in tick[w].stale :
             tick' = [tick EXCEPT ![w] = [tick[w] EXCEPT !.stale = tick[w].stale \ {i}]]
    BY DEF FenceStaleQuota, Go
  <2>4. tick[w].stale \subseteq Items
    BY <1>0 DEF TickLocal
  <2>5. QED
    BY <2>1, <2>2, <2>3, <2>4 DEF Resting
<1>3. /\ quota' \in [Items -> LedgerStates]
      /\ \A i \in Items : quota[i] \in Held => quota'[i] \in Held
  <2>1. quota \in [Items -> LedgerStates]
    BY <1>0 DEF OthersOK, LedgerStates
  <2>2. \/ quota' = quota
        \/ \E i \in tick[w].stale : quota' = [quota EXCEPT ![i] = Uncertain(quota[i])]
    BY DEF FenceStaleQuota
  <2>3. tick[w].stale \subseteq Items
    BY <1>0 DEF TickLocal
  <2>4. QED
    BY <2>1, <2>2, <2>3, LedgerCalls
<1>4. OthersOK'
  BY <1>0, <1>1, <1>3 DEF OthersOK, LedgerStates
<1>5. GoesOn(tick[w], t) /\ t.pc \notin {"recheck", "send"}
  BY <1>2 DEF GoesOn, Resting
<1>6. QED
  BY <1>1, <1>2, <1>3, <1>4, <1>5, WorkerMoves

LEMMA ReadyStep ==
  ASSUME CampaignInv, NEW w \in Workers, AccountReady(w) \/ Recheck(w)
  PROVE  CampaignInv'
<1>0. /\ OthersOK /\ TickTyped /\ tick[w] \in TickLocal
      /\ Paid(w)
  BY TickOf DEF CampaignInv, TypeInv, DeliveryInv, TickKnows
<1>1. UNCHANGED <<run, item, consent, heard, calls, channel, current, throttle, quota>>
  BY DEF AccountReady, Recheck
<1>2. PICK t \in TickLocal :
        /\ tick' = [tick EXCEPT ![w] = t] /\ t.item = tick[w].item
        /\ tick[w].pc \in BeforeSend
        /\ \/ t.pc \in {"check", "reserve"}
           \/ t.pc = "send" /\ tick[w].pc = "recheck"
           \/ t.pc = "finish" /\ t.outcome = "SKIPPED"
  <2>1. ASSUME NEW l \in BeforeSend
        PROVE  LET u == [tick[w] EXCEPT !.pc = l] IN
               u \in TickLocal /\ u.pc = l /\ u.item = tick[w].item
    BY <1>0 DEF TickLocal, Underway
  <2>2. LET u == [tick[w] EXCEPT !.pc = "finish", !.outcome = "SKIPPED"] IN
        u \in TickLocal /\ u.pc = "finish" /\ u.item = tick[w].item /\ u.outcome = "SKIPPED"
    BY <1>0 DEF TickLocal, Underway, Outcomes
  <2>3. CASE AccountReady(w)
    BY <2>1, <2>3 DEF AccountReady, At, Go, BeforeSend
  <2>4. CASE Recheck(w)
    <3>1. tick[w].pc \in {"check", "recheck"}
      BY <2>4 DEF Recheck, At
    <3>2. \/ tick[w].pc = "check" /\ tick' = [tick EXCEPT ![w] = [tick[w] EXCEPT !.pc = "reserve"]]
          \/ tick[w].pc = "recheck" /\ tick' = [tick EXCEPT ![w] = [tick[w] EXCEPT !.pc = "send"]]
          \/ tick' = [tick EXCEPT ![w] = [tick[w] EXCEPT !.pc = "finish", !.outcome = "SKIPPED"]]
      BY <2>4 DEF Recheck, At, Go
    <3>3. QED
      BY <2>1, <2>2, <3>1, <3>2 DEF BeforeSend
  <2>5. QED
    BY <2>3, <2>4
<1>3. OthersOK'
  BY <1>0, <1>1 DEF OthersOK
<1>4. GoesOn(tick[w], t)
  BY <1>2 DEF GoesOn, BeforeSend
<1>5. t.pc \in {"recheck", "send"} => quota'[t.item] \in Held
  BY <1>0, <1>1, <1>2 DEF Paid
<1>6. QED
  BY <1>1, <1>2, <1>3, <1>4, <1>5, WorkerMoves

LEMMA ReserveStep ==
  ASSUME CampaignInv, NEW w \in Workers, Reserve(w) \/ ReserveFails(w)
  PROVE  CampaignInv'
<1>0. OthersOK /\ TickTyped /\ tick[w] \in TickLocal
  BY TickOf DEF CampaignInv, TypeInv
<1>1. /\ UNCHANGED <<item, consent, heard, calls, channel, current, throttle>>
      /\ tick[w].pc = "reserve"
  BY DEF Reserve, ReserveFails, At
<1>2. tick[w].item \in Items
  BY <1>0, <1>1 DEF TickTyped, Busy, Underway, BeforeSend
<1>3. PICK t \in TickLocal :
        /\ tick' = [tick EXCEPT ![w] = t] /\ t.item = tick[w].item
        /\ \/ t.pc = "recheck" /\ Reserve(w)
           \/ t.pc = "backoff"
  <2>1. LET u == [tick[w] EXCEPT !.pc = "recheck", !.reserved = TRUE] IN
        u \in TickLocal /\ u.pc = "recheck" /\ u.item = tick[w].item
    BY <1>0 DEF TickLocal, Underway, BeforeSend
  <2>2. LET u == [tick[w] EXCEPT !.pc = "backoff"] IN
        u \in TickLocal /\ u.pc = "backoff" /\ u.item = tick[w].item
    BY <1>0 DEF TickLocal, Underway, BeforeSend
  <2>3. CASE Reserve(w)
    BY <2>1, <2>3 DEF Reserve
  <2>4. CASE ReserveFails(w)
    BY <2>2, <2>4 DEF ReserveFails, Go
  <2>5. QED
    BY <2>3, <2>4
<1>4. quota \in [Items -> LedgerStates]
  BY <1>0 DEF OthersOK, LedgerStates
<1>5. \/ quota' = [quota EXCEPT ![tick[w].item] = Reserved(quota[tick[w].item])]
      \/ quota' = quota /\ ~Reserve(w)
  <2>1. CASE Reserve(w)
    BY <2>1 DEF Reserve
  <2>2. CASE ReserveFails(w)
    <3>1. ~Reserve(w)
      BY <2>2, <1>0 DEF Reserve, ReserveFails, Go, TickTyped, TickLocal
    <3>2. QED
      BY <2>2, <3>1 DEF ReserveFails
  <2>3. QED
    BY <2>1, <2>2
<1>6. /\ quota' \in [Items -> LedgerStates]
      /\ \A i \in Items : quota[i] \in Held => quota'[i] \in Held
      /\ t.pc = "recheck" => quota'[t.item] \in Held
  BY <1>2, <1>3, <1>4, <1>5, LedgerCalls
<1>7. OthersOK' /\ \A r \in Runs : run'[r] = "NONE" => run[r] = "NONE"
  <2>1. \/ run' = run
        \/ run' = [run EXCEPT ![tick[w].item[1]] = "PAUSED"]
    BY DEF Reserve, ReserveFails
  <2>2. QED
    BY <1>0, <1>1, <1>6, <2>1 DEF OthersOK, LedgerStates
<1>8. GoesOn(tick[w], t)
  BY <1>1, <1>3 DEF GoesOn, BeforeSend
<1>9. t.pc \in {"recheck", "send"} => quota'[t.item] \in Held
  BY <1>3, <1>6
<1>10. QED
  BY <1>1, <1>3, <1>6, <1>7, <1>8, <1>9, WorkerMoves

(* The release of a settlement meets no message that left.                 *)
LEMMA SettleStep ==
  ASSUME CampaignInv, NEW w \in Workers, PauseRun(w) \/ SettleQuota(w)
  PROVE  CampaignInv'
<1>0. /\ OthersOK /\ TickTyped /\ tick[w] \in TickLocal
      /\ OutcomeTrue(w)
  BY TickOf DEF CampaignInv, TypeInv, DeliveryInv, TickKnows
<1>1. /\ UNCHANGED <<item, consent, heard, calls, channel, current, throttle>>
      /\ tick[w].pc \in {"pause", "settle"}
  BY DEF PauseRun, SettleQuota, At
<1>2. tick[w].item \in Items /\ tick[w].pc \in AfterRow
  BY <1>0, <1>1 DEF TickTyped, Busy, AfterRow
<1>3. PICK t \in TickLocal :
        /\ tick' = [tick EXCEPT ![w] = t] /\ t.item = tick[w].item
        /\ t.outcome = tick[w].outcome /\ t.pc \in {"settle", "tidy"}
  <2>1. ASSUME NEW l \in {"settle", "tidy"}
        PROVE  LET u == [tick[w] EXCEPT !.pc = l] IN
               u \in TickLocal /\ u.pc = l /\ u.item = tick[w].item /\ u.outcome = tick[w].outcome
    BY <1>0 DEF TickLocal, AfterRow
  <2>2. QED
    BY <2>1 DEF PauseRun, SettleQuota, Go
<1>4. quota \in [Items -> LedgerStates]
  BY <1>0 DEF OthersOK, LedgerStates
<1>5. \/ quota' = quota
      \/ quota' = [quota EXCEPT ![tick[w].item] = Settled(tick[w].outcome, quota[tick[w].item])]
  BY DEF PauseRun, SettleQuota
<1>6. tick[w].outcome \notin NotSent =>
        \A q \in LedgerStates : q \in Held => Settled(tick[w].outcome, q) \in Held
  BY <1>0, <1>2, LedgerCalls DEF Settled, OutcomeTrue, TickLocal, Outcomes, NotSent
<1>7. \A q \in LedgerStates : Settled(tick[w].outcome, q) \in LedgerStates
  BY LedgerCalls DEF Settled
<1>8. quota' \in [Items -> LedgerStates]
  BY <1>2, <1>4, <1>5, <1>7
<1>9. \A i \in Items : quota[i] \in Held =>
         \/ quota'[i] \in Held
         \/ i = tick[w].item /\ tick[w].pc \in AfterRow /\ Got(i) = 0
  BY <1>0, <1>2, <1>4, <1>5, <1>6 DEF OutcomeTrue
<1>10. OthersOK' /\ \A r \in Runs : run'[r] = "NONE" => run[r] = "NONE"
  <2>1. run' = run \/ \E r \in Runs : run' = [run EXCEPT ![r] = "PAUSED"]
    BY <1>2, ItemsTyped DEF PauseRun, SettleQuota
  <2>2. QED
    BY <1>0, <1>1, <1>8, <2>1 DEF OthersOK, LedgerStates
<1>11. GoesOn(tick[w], t) /\ t.pc \notin {"recheck", "send"}
  BY <1>2, <1>3 DEF GoesOn, AfterRow
<1>12. QED
  BY <1>1, <1>3, <1>9, <1>10, <1>11, WorkerMoves

----------------------------------------------------------------------------
(* The claim.                                                              *)

LEMMA ClaimStep ==
  ASSUME CampaignInv, NEW w \in Workers, ClaimNext(w)
  PROVE  CampaignInv'
<1> USE DEF CampaignInv, DeliveryInv
<1>0. /\ RowsOK /\ OthersOK /\ TickTyped /\ tick[w] \in TickLocal
      /\ UNCHANGED <<consent, heard, calls, quota, current, channel>>
      /\ tick[w].pc = "claim"
  BY TickOf DEF TypeInv, ClaimNext, At
<1>1. PICK i \in Items :
        /\ item[i].status = "PENDING" /\ MayReceive(i[1], i[2])
        /\ item' = [item EXCEPT ![i].status = "IN_FLIGHT", ![i].token = w, ![i].claimed = TRUE]
        /\ run' = [run EXCEPT ![i[1]] = "RUNNING"]
        /\ tick' = [tick EXCEPT ![w].pc = "status", ![w].item = i]
  BY DEF ClaimNext, Claimable
<1>2. i[1] \in Runs /\ i[2] \in Phones /\ i = <<i[1], i[2]>>
  BY ItemsTyped
<1>3. PICK s \in ItemRow :
        /\ item' = [item EXCEPT ![i] = s]
        /\ s.status = "IN_FLIGHT" /\ s.token = w /\ s.claimed
  <2>1. item[i] \in ItemRow
    BY <1>0 DEF RowsOK
  <2>2. LET u == [item[i] EXCEPT !.status = "IN_FLIGHT", !.token = w, !.claimed = TRUE] IN
        u \in ItemRow /\ u.status = "IN_FLIGHT" /\ u.token = w /\ u.claimed
    BY <2>1 DEF ItemRow, Statuses
  <2>3. QED
    BY <1>1, <2>2
<1>4. PICK t \in TickLocal : tick' = [tick EXCEPT ![w] = t] /\ t.pc = "status" /\ t.item = i
  <2>1. LET u == [tick[w] EXCEPT !.pc = "status", !.item = i] IN
        u \in TickLocal /\ u.pc = "status" /\ u.item = i
    BY <1>0 DEF TickLocal, Underway, BeforeSend
  <2>2. QED
    BY <1>1, <2>1
<1>5. /\ item'[i] = s /\ \A j \in Items \ {i} : item'[j] = item[j]
      /\ tick'[w] = t /\ \A v \in Workers \ {w} : tick'[v] = tick[v]
  BY <1>0, <1>3, <1>4 DEF RowsOK, TickTyped
(* Nobody is at work on the row, or about to write to its phone.           *)
<1>6. ~Busy(w)
  BY <1>0 DEF Busy, Underway, BeforeSend, AfterRow
<1>7. ASSUME NEW v \in Workers, Busy(v)
      PROVE  /\ tick[v].item \in Items \ {i}
             /\ tick[v].pc \in Underway => tick[v].item[2] # i[2]
  <2>1. tick[v].item \in Items /\ RowKept(v)
    BY <1>0, <1>7 DEF TickTyped, RowIsKept
  <2>2. tick[v].item # i
    BY <1>1, <1>7, <2>1 DEF RowKept, Busy
  <2>3. ASSUME tick[v].pc \in Underway PROVE tick[v].item[2] # i[2]
    <3>1. Touched(item[tick[v].item])
      BY <2>1, <2>3 DEF RowKept, Touched
    <3>2. tick[v].item[1] \in Runs /\ tick[v].item = <<tick[v].item[1], tick[v].item[2]>>
      BY <2>1, ItemsTyped
    <3>3. RecentlyMessaged(tick[v].item[2])
      BY <3>1, <3>2 DEF RecentlyMessaged
    <3>4. ~RecentlyMessaged(i[2])
      BY <1>1 DEF MayReceive
    <3>5. QED
      BY <3>3, <3>4
  <2>4. QED
    BY <2>1, <2>2, <2>3
<1>8. TypeInv'
  <2>1. TickTyped'
    BY <1>0, <1>4, TickMoves
  <2>2. RowsOK'
    BY <1>0, <1>3, CampaignAssumption DEF RowsOK
  <2>3. OthersOK'
    <3>1. throttle' \in BOOLEAN
      BY DEF ClaimNext
    <3>2. QED
      BY <1>0, <1>1, <1>2, <3>1 DEF OthersOK
  <2>4. QED
    BY <2>1, <2>2, <2>3 DEF TypeInv
<1>9. RowsAgree'
  <2>1. \A j \in Items : run'[j[1]] = "NONE" => run[j[1]] = "NONE" /\ j # i
    BY <1>0, <1>1, <1>2, ItemsTyped DEF OthersOK
  <2>2. QED
    BY <1>3, <1>5, <2>1 DEF RowsAgree
<1>10. RowIsKept'
  <2>1. ASSUME NEW v \in Workers \ {w} PROVE RowKept(v)'
    BY <1>5, <1>7 DEF RowIsKept, RowKept, Busy
  <2>2. RowKept(w)'
    BY <1>3, <1>4, <1>5 DEF RowKept, AfterRow
  <2>3. QED
    BY <2>1, <2>2 DEF RowIsKept
<1>11. TicksApart'
  <2>1. ASSUME NEW u \in Workers, NEW v \in Workers, u # v, Busy(u)', Busy(v)'
        PROVE  /\ tick'[u].item # tick'[v].item
               /\ {tick'[u].pc, tick'[v].pc} \subseteq Underway =>
                    tick'[u].item[2] # tick'[v].item[2]
    <3>1. CASE u # w /\ v # w
      BY <1>5, <2>1, <3>1 DEF TicksApart, Busy
    <3>2. CASE u = w
      BY <1>4, <1>5, <1>7, <2>1, <3>2 DEF Busy
    <3>3. CASE v = w
      BY <1>4, <1>5, <1>7, <2>1, <3>3 DEF Busy
    <3>4. QED
      BY <3>1, <3>2, <3>3
  <2>2. QED
    BY <2>1 DEF TicksApart
<1>12. TickKnows'
  <2>1. ASSUME NEW v \in Workers \ {w} PROVE Unheard(v)' /\ OutcomeTrue(v)' /\ Paid(v)'
    BY <1>0, <1>5 DEF TickKnows, Unheard, OutcomeTrue, Paid, Got
  <2>2. Unheard(w)'
    <3>1. Got(i) = 0
      <4>1. Got(i) \in Nat
        BY <1>0, <1>2 DEF Got, OthersOK, Ear
      <4>2. QED
        BY <1>1, <4>1 DEF RowsTrue
    <3>2. heard[i[2]].today = 0
      <4>1. heard[i[2]].today \in Nat
        BY <1>0, <1>2 DEF OthersOK, Ear
      <4>2. QED
        BY <1>1, <1>2, <4>1 DEF PhonesKnown, MayReceive
    <3>3. heard[i[2]].afterStop = 0
      BY <1>1, <1>2 DEF PhonesKnown, MayReceive, Receptive
    <3>4. QED
      BY <1>0, <1>4, <1>5, <3>1, <3>2, <3>3 DEF Unheard, Got
  <2>3. OutcomeTrue(w)' /\ Paid(w)'
    BY <1>4, <1>5 DEF OutcomeTrue, Paid, AfterRow
  <2>4. QED
    BY <2>1, <2>2, <2>3 DEF TickKnows
<1>13. PhonesKnown'
  <2>1. ASSUME NEW p \in Phones, RecentlyMessaged(p) PROVE RecentlyMessaged(p)'
    <3>1. PICK r \in Runs : Touched(item[<<r, p>>])
      BY <2>1 DEF RecentlyMessaged
    <3>2. <<r, p>> \in Items
      BY DEF Items
    <3>3. Touched(item'[<<r, p>>])
      BY <1>3, <1>5, <3>1, <3>2 DEF Touched
    <3>4. QED
      BY <3>3 DEF RecentlyMessaged
  <2>2. QED
    BY <1>0, <2>1 DEF PhonesKnown
<1>14. RowsTrue'
  BY <1>0, <1>1, <1>3, <1>5 DEF RowsTrue, Got
<1>15. PhonesOnce'
  BY <1>0 DEF PhonesOnce
<1>16. Counted'
  <2>1. i \notin Claimed
    BY <1>1 DEF Claimed, RowsAgree
  <2>2. Claimed' = Claimed \union {i}
    BY <1>3, <1>5 DEF Claimed
  <2>3. i \notin Waiting
    BY <1>7 DEF Waiting, Busy, Underway
  <2>4. Waiting' = Waiting \union {i}
    BY <1>0, <1>4, <1>5 DEF Waiting, BeforeSend
  <2>5. Claimed' \ Waiting' = Claimed \ Waiting
    BY <2>1, <2>2, <2>4
  <2>6. Cardinality(Claimed) < DailyCap /\ IsFiniteSet(Claimed)
    BY DEF ClaimNext, AttemptsToday, Claimed, Counted
  <2>7. IsFiniteSet(Claimed') /\ Cardinality(Claimed') = Cardinality(Claimed) + 1
    BY <2>1, <2>2, <2>6, FS_AddElement
  <2>8. Cardinality(Claimed) \in Nat /\ DailyCap \in Nat
    BY <2>6, FS_CardinalityType, CampaignAssumption
  <2>9. QED
    BY <1>0, <2>5, <2>6, <2>7, <2>8 DEF Counted
<1>17. QED
  BY <1>8, <1>9, <1>10, <1>11, <1>12, <1>13, <1>14, <1>15, <1>16

----------------------------------------------------------------------------
(* The end of a claim: the row is settled, or goes back to the queue.      *)

LEMMA RowEnds ==
  ASSUME CampaignInv, NEW w \in Workers, NEW t \in TickLocal, NEW s \in ItemRow,
         tick[w].pc \in Underway,
         tick' = [tick EXCEPT ![w] = t], item' = [item EXCEPT ![tick[w].item] = s],
         UNCHANGED <<run, current, quota, consent, channel, throttle, heard, calls>>,
         s.status = "IN_FLIGHT" <=> s.token # Nobody,
         s.status # "NONE", s.status = "PENDING" => ~s.claimed,
         Touched(s) \/ heard[tick[w].item[2]].today = 0,
         Got(tick[w].item) > 0 => s.status \in {"IN_FLIGHT", "SENT", "UNKNOWN"},
         s.status = "SENT" => Got(tick[w].item) > 0,
         s.claimed => item[tick[w].item].claimed,
         tick[w].pc \in BeforeSend \/ (s.claimed = item[tick[w].item].claimed),
         \/ t.pc \in Resting
         \/ /\ tick[w].pc = "finish" /\ t.pc \in AfterRow
            /\ t.item = tick[w].item /\ t.outcome = tick[w].outcome
            /\ s.status \notin {"PENDING", "IN_FLIGHT"}
  PROVE  CampaignInv'
<1> USE DEF CampaignInv, DeliveryInv
<1>0. /\ RowsOK /\ OthersOK /\ TickTyped /\ tick[w] \in TickLocal
      /\ Busy(w) /\ tick[w].item \in Items
  BY TickOf DEF TypeInv, Busy
<1>1. PICK i \in Items : i = tick[w].item
  BY <1>0
<1>2. /\ item'[i] = s /\ \A j \in Items \ {i} : item'[j] = item[j]
      /\ tick'[w] = t /\ \A v \in Workers \ {w} : tick'[v] = tick[v]
  BY <1>0, <1>1 DEF RowsOK, TickTyped
<1>3. ASSUME NEW v \in Workers \ {w}, Busy(v)
      PROVE  tick[v].item \in Items \ {i}
  BY <1>0, <1>1, <1>3 DEF TickTyped, TicksApart
<1>4. t.pc \notin Underway /\ t.pc \notin BeforeSend
  BY DEF Resting, Underway, BeforeSend, AfterRow
<1>5. TypeInv'
  <2>1. TickTyped'
    BY <1>0, TickMoves
  <2>2. RowsOK'
    BY <1>0, <1>1, RowMoves
  <2>3. OthersOK'
    BY <1>0 DEF OthersOK
  <2>4. QED
    BY <2>1, <2>2, <2>3 DEF TypeInv
<1>6. RowsAgree'
  <2>1. run[i[1]] # "NONE"
    BY <1>0, <1>1 DEF RowsAgree, RowIsKept, RowKept
  <2>2. QED
    BY <1>2, <1>1, <2>1 DEF RowsAgree
<1>7. RowIsKept'
  <2>1. ASSUME NEW v \in Workers \ {w} PROVE RowKept(v)'
    BY <1>2, <1>3 DEF RowIsKept, RowKept, Busy
  <2>2. RowKept(w)'
    BY <1>1, <1>2, <1>4 DEF RowKept, AfterRow, Resting
  <2>3. QED
    BY <2>1, <2>2 DEF RowIsKept
<1>8. TicksApart'
  <2>1. ASSUME NEW u \in Workers, NEW v \in Workers, u # v, Busy(u)', Busy(v)'
        PROVE  /\ tick'[u].item # tick'[v].item
               /\ {tick'[u].pc, tick'[v].pc} \subseteq Underway =>
                    tick'[u].item[2] # tick'[v].item[2]
    <3>1. \A x \in {u, v} : /\ Busy(x) /\ tick'[x].item = tick[x].item
                            /\ tick'[x].pc \in Underway => tick[x].pc \in Underway
      BY <1>0, <1>2, <1>4, <2>1 DEF Busy, Resting, AfterRow
    <3>2. QED
      BY <2>1, <3>1 DEF TicksApart
  <2>2. QED
    BY <2>1 DEF TicksApart
<1>9. TickKnows'
  <2>1. ASSUME NEW v \in Workers \ {w} PROVE Unheard(v)' /\ OutcomeTrue(v)' /\ Paid(v)'
    BY <1>0, <1>2 DEF TickKnows, Unheard, OutcomeTrue, Paid, Got
  <2>2. Unheard(w)' /\ Paid(w)'
    BY <1>2, <1>4 DEF Unheard, Paid, BeforeSend
  <2>3. OutcomeTrue(w)'
    BY <1>0, <1>2, <1>4 DEF TickKnows, OutcomeTrue, Got, Resting, AfterRow, Underway
  <2>4. QED
    BY <2>1, <2>2, <2>3 DEF TickKnows
<1>10. PhonesKnown'
  <2>1. ASSUME NEW p \in Phones, heard[p].today > 0 PROVE RecentlyMessaged(p)'
    <3>1. PICK r \in Runs : Touched(item[<<r, p>>])
      BY <2>1 DEF PhonesKnown, RecentlyMessaged
    <3>2. <<r, p>> \in Items
      BY DEF Items
    <3>3. <<r, p>> = i => i[2] = p
      OBVIOUS
    <3>4. Touched(item'[<<r, p>>])
      BY <1>1, <1>2, <2>1, <3>1, <3>2, <3>3
    <3>5. QED
      BY <3>4 DEF RecentlyMessaged
  <2>2. QED
    BY <2>1 DEF PhonesKnown
<1>11. RowsTrue'
  BY <1>1, <1>2 DEF RowsTrue, Got
<1>12. PhonesOnce'
  BY DEF PhonesOnce
<1>13. Counted'
  <2>1. Claimed' \subseteq Claimed
    BY <1>1, <1>2 DEF Claimed
  <2>2. Waiting' \subseteq Waiting
    BY <1>2, <1>4 DEF Waiting
  <2>3. tick[w].pc \in BeforeSend => i \in Waiting
    BY <1>1 DEF Waiting
  <2>4. Claimed \ Waiting \subseteq Claimed' \ Waiting'
    BY <1>1, <1>2, <2>2, <2>3 DEF Claimed
  <2>5. QED
    BY <1>0, <2>1, <2>4, Recounted DEF OthersOK
<1>14. QED
  BY <1>5, <1>6, <1>7, <1>8, <1>9, <1>10, <1>11, <1>12, <1>13

LEMMA UnclaimStep ==
  ASSUME CampaignInv, NEW w \in Workers, Unclaim(w)
  PROVE  CampaignInv'
<1>0. /\ RowsOK /\ TickTyped /\ RowKept(w) /\ Unheard(w)
      /\ Asleep \in TickLocal /\ Asleep.pc = "asleep"
  BY RowsTyped DEF CampaignInv, TypeInv, DeliveryInv, RowIsKept, TickKnows
<1>1. tick[w].pc \in BeforeSend /\ tick[w].pc \in Underway
  BY DEF Unclaim, At, BeforeSend, Underway
<1>2. PICK i \in Items : i = tick[w].item
  BY <1>0, <1>1 DEF TickTyped, Busy
<1>3. item[i] \in ItemRow /\ (item[i].status = "IN_FLIGHT" <=> item[i].token # Nobody)
  BY <1>0 DEF RowsOK
<1>4. Got(i) = 0 /\ heard[i[2]].today = 0
  BY <1>0, <1>1, <1>2 DEF Unheard
<1>5. PICK s \in ItemRow :
        /\ item' = [item EXCEPT ![i] = s]
        /\ s.status = "IN_FLIGHT" <=> s.token # Nobody
        /\ s.status \in {"PENDING", "UNKNOWN"}
        /\ s.status = "PENDING" => ~s.claimed
        /\ s.claimed => item[i].claimed
  <2>1. CASE Owns(w)
    <3>1. LET u == [item[i] EXCEPT !.status = "PENDING", !.token = Nobody,
                                   !.claimed = FALSE, !.overdue = FALSE] IN
          u \in ItemRow /\ u.status = "PENDING" /\ u.token = Nobody /\ ~u.claimed
      BY <1>3 DEF ItemRow, Statuses
    <3>2. item' = [item EXCEPT ![i] =
                     [item[i] EXCEPT !.status = "PENDING", !.token = Nobody,
                                     !.claimed = FALSE, !.overdue = FALSE]]
      BY <1>2, <2>1 DEF Unclaim, Unclaimed
    <3>3. QED
      BY <3>1, <3>2
  <2>2. CASE ~Owns(w)
    <3>1. item' = [item EXCEPT ![i] = item[i]]
      BY <1>0, <2>2 DEF Unclaim, Unclaimed, RowsOK
    <3>2. item[i].status = "UNKNOWN"
      BY <1>0, <1>1, <1>2, <2>2 DEF RowKept, Owns
    <3>3. QED
      BY <1>3, <3>1, <3>2
  <2>3. QED
    BY <2>1, <2>2
<1>6. tick' = [tick EXCEPT ![w] = Asleep] /\ Asleep.pc \in Resting
  BY <1>0 DEF Unclaim, Resting
<1>7. UNCHANGED <<run, current, quota, consent, channel, throttle, heard, calls>>
  BY DEF Unclaim
<1>8. /\ s.status # "NONE" /\ s.status # "SENT"
      /\ Got(i) > 0 => s.status \in {"IN_FLIGHT", "SENT", "UNKNOWN"}
      /\ s.status = "SENT" => Got(i) > 0
  BY <1>4, <1>5
<1>9. QED
  BY <1>0, <1>1, <1>2, <1>4, <1>5, <1>6, <1>7, <1>8, RowEnds

LEMMA FinishStep ==
  ASSUME CampaignInv, NEW w \in Workers, Finish(w)
  PROVE  CampaignInv'
<1>0. /\ RowsOK /\ TickTyped /\ tick[w] \in TickLocal
      /\ RowKept(w) /\ OutcomeTrue(w) /\ RowsTrue
  BY TickOf DEF CampaignInv, TypeInv, DeliveryInv, RowIsKept, TickKnows
<1>1. tick[w].pc = "finish" /\ tick[w].pc \in Underway
  BY DEF Finish, At, Underway
<1>2. PICK i \in Items : i = tick[w].item
  BY <1>0, <1>1 DEF TickTyped, Busy
<1>3. item[i] \in ItemRow /\ (item[i].status = "IN_FLIGHT" <=> item[i].token # Nobody)
  BY <1>0 DEF RowsOK
<1>4. PICK o \in Outcomes \ {"NONE"} : o = tick[w].outcome
  BY <1>0, <1>1 DEF OutcomeTrue, TickLocal
<1>5. /\ o \in NotSent => Got(i) = 0 /\ heard[i[2]].today = 0
      /\ o = "SENT" => Got(i) > 0
  BY <1>0, <1>1, <1>2, <1>4 DEF OutcomeTrue
<1>6. PICK t \in TickLocal :
        /\ tick' = [tick EXCEPT ![w] = t] /\ t.pc \in AfterRow
        /\ t.item = i /\ t.outcome = o
  <2>1. AfterFinish(w) \in AfterRow
    BY DEF AfterFinish, AfterRow
  <2>2. LET u == [tick[w] EXCEPT !.pc = AfterFinish(w)] IN
        u \in TickLocal /\ u.pc = AfterFinish(w) /\ u.item = i /\ u.outcome = o
    BY <1>0, <1>2, <1>4, <2>1 DEF TickLocal
  <2>3. QED
    BY <2>1, <2>2 DEF Finish, Go
<1>7. item[i].claimed /\ (Owns(w) \/ (item[i].status = "UNKNOWN" /\ item[i].done))
  BY <1>0, <1>1, <1>2 DEF RowKept, Owns
<1>8. PICK s \in ItemRow :
        /\ item' = [item EXCEPT ![i] = s]
        /\ s.status \in {"SENT", "FAILED", "UNKNOWN", "SKIPPED"}
        /\ s.status = "IN_FLIGHT" <=> s.token # Nobody
        /\ s.claimed = item[i].claimed
        /\ \/ s.status \in NotSent /\ Got(i) = 0 /\ heard[i[2]].today = 0
           \/ s.status \in {"SENT", "UNKNOWN"} /\ s.done
        /\ s.status = "SENT" => Got(i) > 0
  <2>1. CASE Owns(w)
    <3>1. item' = [item EXCEPT ![i] = Verdict(item[i], o)]
      BY <1>2, <1>4, <2>1 DEF Finish
    <3>2. o \in {"SENT", "FAILED", "UNKNOWN", "SKIPPED"} /\ o \in Statuses
      BY DEF Outcomes, Statuses
    <3>3. LET u == Verdict(item[i], o) IN
          /\ u \in ItemRow /\ u.status = o /\ u.token = Nobody
          /\ u.claimed = item[i].claimed /\ (u.done <=> o \in {"SENT", "UNKNOWN"})
      BY <1>3, <3>2, VerdictTyped
    <3>4. QED
      BY <1>5, <3>1, <3>2, <3>3 DEF NotSent
  <2>2. CASE ~Owns(w)
    <3>1. item' = [item EXCEPT ![i] = item[i]]
      BY <1>0, <2>2 DEF Finish, RowsOK
    <3>2. QED
      BY <1>3, <1>7, <2>2, <3>1
  <2>3. QED
    BY <2>1, <2>2
<1>9. Touched(s) \/ heard[i[2]].today = 0
  BY <1>8 DEF Touched
<1>10. Got(i) > 0 => s.status \in {"IN_FLIGHT", "SENT", "UNKNOWN"}
  BY <1>8
<1>11. UNCHANGED <<run, current, quota, consent, channel, throttle, heard, calls>>
  BY DEF Finish
<1>12. s.status \notin {"NONE", "PENDING", "IN_FLIGHT"}
  BY <1>8
<1>13. QED
  BY <1>1, <1>2, <1>4, <1>6, <1>8, <1>9, <1>10, <1>11, <1>12, RowEnds

----------------------------------------------------------------------------
(* The send.                                                               *)

LEMMA SendStep ==
  ASSUME CampaignInv, NEW w \in Workers, Send(w)
  PROVE  CampaignInv'
<1> USE DEF CampaignInv, DeliveryInv
<1>0. /\ RowsOK /\ OthersOK /\ TickTyped /\ tick[w] \in TickLocal
      /\ tick[w].pc = "send" /\ tick[w].pc \in BeforeSend /\ tick[w].pc \in Underway
      /\ Busy(w) /\ calls' = calls + 1
      /\ UNCHANGED <<run, current, item, quota, consent, channel, throttle>>
  BY TickOf DEF TypeInv, Send, At, BeforeSend, Underway, Busy
<1>1. PICK i \in Items : i = tick[w].item
  BY <1>0 DEF TickTyped
<1>2. i[1] \in Runs /\ i[2] \in Phones /\ i = <<i[1], i[2]>>
  BY ItemsTyped
<1>3. PICK o \in {"SENT", "FAILED", "UNKNOWN"} :
        /\ tick' = [tick EXCEPT ![w].pc = "finish", ![w].outcome = o]
        /\ \/ o # "FAILED" /\ OnTheWire(i)
           \/ o # "SENT" /\ heard' = heard
  BY <1>1 DEF Send
<1>4. PICK t \in TickLocal :
        /\ tick' = [tick EXCEPT ![w] = t]
        /\ t.pc = "finish" /\ t.item = i /\ t.outcome = o
  <2>1. LET u == [tick[w] EXCEPT !.pc = "finish", !.outcome = o] IN
        u \in TickLocal /\ u.pc = "finish" /\ u.item = i /\ u.outcome = o
    BY <1>0, <1>1 DEF TickLocal, Underway, Outcomes
  <2>2. QED
    BY <1>3, <2>1
<1>5. tick'[w] = t /\ \A v \in Workers \ {w} : tick'[v] = tick[v]
  BY <1>0, <1>4 DEF TickTyped
<1>6. /\ Got(i) = 0 /\ heard[i[2]].today = 0 /\ heard[i[2]].afterStop = 0
      /\ quota[i] \in Held /\ item[i].claimed
      /\ Touched(item[i]) /\ item[i].status \in {"IN_FLIGHT", "UNKNOWN"}
  BY <1>0, <1>1 DEF TickKnows, Unheard, Paid, RowIsKept, RowKept, Touched
(* What the phone gets: one message more, or nothing.                      *)
<1>7. /\ heard' \in [Phones -> Ear]
      /\ \A j \in Items \ {i} : heard'[j[2]].from[j[1]] = Got(j)
      /\ \A p \in Phones \ {i[2]} : heard'[p] = heard[p]
      /\ heard'[i[2]].from[i[1]] \in {0, 1}
      /\ heard'[i[2]].today \in {0, 1} /\ heard'[i[2]].afterStop \in {0, 1}
      /\ consent[i[2]] # "stopped" => heard'[i[2]].afterStop = 0
      /\ o = "SENT" => heard'[i[2]].from[i[1]] = 1
      /\ o = "FAILED" => heard'[i[2]].from[i[1]] = 0 /\ heard'[i[2]].today = 0
  <2>0. heard \in [Phones -> Ear]
    BY <1>0 DEF OthersOK
  <2>1. CASE o # "FAILED" /\ OnTheWire(i)
    BY <1>2, <1>6, <2>0, <2>1, WireStep
  <2>2. CASE o # "SENT" /\ heard' = heard
    BY <1>2, <1>6, <2>0, <2>2 DEF Got
  <2>3. QED
    BY <1>3, <2>1, <2>2
<1>8. ASSUME NEW v \in Workers \ {w}, Busy(v)
      PROVE  /\ tick[v].item \in Items \ {i}
             /\ heard'[tick[v].item[2]].from[tick[v].item[1]] = Got(tick[v].item)
             /\ tick[v].pc \in Underway => heard'[tick[v].item[2]] = heard[tick[v].item[2]]
  <2>1. /\ tick[v].item \in Items \ {i}
        /\ tick[v].pc \in Underway => tick[v].item[2] # i[2]
    BY <1>0, <1>1, <1>8 DEF TickTyped, TicksApart
  <2>2. tick[v].item[2] \in Phones
    BY <2>1, ItemsTyped
  <2>3. QED
    BY <1>7, <2>1, <2>2
<1>9. TypeInv'
  <2>1. TickTyped'
    BY <1>0, <1>4, TickMoves
  <2>2. RowsOK'
    BY <1>0 DEF RowsOK
  <2>3. OthersOK'
    BY <1>0, <1>7 DEF OthersOK
  <2>4. QED
    BY <2>1, <2>2, <2>3 DEF TypeInv
<1>10. RowsAgree'
  BY <1>0 DEF RowsAgree
<1>11. RowIsKept'
  <2>1. ASSUME NEW v \in Workers \ {w} PROVE RowKept(v)'
    BY <1>0, <1>5 DEF RowIsKept, RowKept
  <2>2. RowKept(w)'
    BY <1>0, <1>1, <1>4, <1>5 DEF RowIsKept, RowKept, AfterRow
  <2>3. QED
    BY <2>1, <2>2 DEF RowIsKept
<1>12. TicksApart'
  <2>1. ASSUME NEW u \in Workers, NEW v \in Workers, u # v, Busy(u)', Busy(v)'
        PROVE  /\ tick'[u].item # tick'[v].item
               /\ {tick'[u].pc, tick'[v].pc} \subseteq Underway =>
                    tick'[u].item[2] # tick'[v].item[2]
    <3>1. \A x \in {u, v} : /\ Busy(x) /\ tick'[x].item = tick[x].item
                            /\ tick'[x].pc \in Underway => tick[x].pc \in Underway
      BY <1>0, <1>1, <1>4, <1>5, <2>1 DEF Busy
    <3>2. QED
      BY <2>1, <3>1 DEF TicksApart
  <2>2. QED
    BY <2>1 DEF TicksApart
<1>13. TickKnows'
  <2>1. ASSUME NEW v \in Workers \ {w} PROVE Unheard(v)'
    <3>1. SUFFICES ASSUME tick[v].pc \in BeforeSend
                   PROVE  /\ heard'[tick[v].item[2]].from[tick[v].item[1]] = 0
                          /\ heard'[tick[v].item[2]].today = 0
                          /\ heard'[tick[v].item[2]].afterStop = 0
      BY <1>5 DEF Unheard, Got
    <3>2. Busy(v) /\ tick[v].pc \in Underway
      BY <3>1 DEF Busy, Underway
    <3>3. QED
      BY <1>8, <3>1, <3>2 DEF TickKnows, Unheard
  <2>2. ASSUME NEW v \in Workers \ {w} PROVE OutcomeTrue(v)'
    <3>1. SUFFICES ASSUME tick[v].pc \in AfterRow \union {"finish"} PROVE OutcomeTrue(v)'
      BY <1>5 DEF OutcomeTrue
    <3>2. Busy(v) /\ (tick[v].pc = "finish" => tick[v].pc \in Underway)
      BY <3>1 DEF Busy, Underway
    <3>3. QED
      BY <1>5, <1>8, <3>1, <3>2 DEF TickKnows, OutcomeTrue, Got
  <2>3. ASSUME NEW v \in Workers \ {w} PROVE Paid(v)'
    BY <1>0, <1>5 DEF TickKnows, Paid
  <2>4. Unheard(w)' /\ Paid(w)'
    BY <1>4, <1>5 DEF Unheard, Paid, BeforeSend
  <2>5. OutcomeTrue(w)'
    BY <1>4, <1>5, <1>7 DEF OutcomeTrue, Got, NotSent, AfterRow
  <2>6. QED
    BY <2>1, <2>2, <2>3, <2>4, <2>5 DEF TickKnows
<1>14. PhonesKnown'
  <2>1. ASSUME NEW p \in Phones, RecentlyMessaged(p) PROVE RecentlyMessaged(p)'
    BY <1>0, <2>1 DEF RecentlyMessaged
  <2>2. RecentlyMessaged(i[2])
    BY <1>2, <1>6 DEF RecentlyMessaged
  <2>3. QED
    BY <1>0, <1>7, <2>1, <2>2 DEF PhonesKnown
<1>15. RowsTrue'
  <2>1. ASSUME NEW j \in Items \ {i}
        PROVE  /\ Got(j)' = Got(j) /\ item'[j] = item[j] /\ quota'[j] = quota[j]
    BY <1>0, <1>7 DEF Got
  <2>2. /\ Got(i)' \in {0, 1} /\ item'[i].status \in {"IN_FLIGHT", "UNKNOWN"}
        /\ quota'[i] \in Held
    BY <1>0, <1>6, <1>7 DEF Got
  <2>3. ASSUME NEW j \in Items
        PROVE  /\ Got(j)' <= 1
               /\ Got(j)' > 0 => item'[j].status \in {"IN_FLIGHT", "SENT", "UNKNOWN"}
               /\ item'[j].status = "SENT" => Got(j)' > 0
               /\ Got(j)' > 0 => quota'[j] \in Held
    <3>1. CASE j = i
      BY <2>2, <3>1
    <3>2. CASE j # i
      BY <2>1, <3>2 DEF RowsTrue
    <3>3. QED
      BY <3>1, <3>2
  <2>4. QED
    BY <2>3 DEF RowsTrue
<1>16. PhonesOnce'
  BY <1>7 DEF PhonesOnce
<1>17. Counted'
  <2>1. Claimed' = Claimed
    BY <1>0 DEF Claimed
  <2>2. i \in Claimed /\ i \in Waiting
    BY <1>0, <1>1, <1>6 DEF Claimed, Waiting
  <2>3. Waiting' = Waiting \ {i}
    <3>1. ASSUME NEW v \in Workers, tick'[v].pc \in BeforeSend
          PROVE  tick'[v] = tick[v] /\ tick[v].item # i
      <4>1. v # w
        BY <1>4, <1>5, <3>1 DEF BeforeSend
      <4>2. tick'[v] = tick[v] /\ Busy(v)
        BY <1>5, <3>1, <4>1 DEF Busy, Underway
      <4>3. QED
        BY <1>8, <4>1, <4>2
    <3>2. ASSUME NEW v \in Workers, tick[v].pc \in BeforeSend, tick[v].item # i
          PROVE  tick'[v] = tick[v]
      BY <1>1, <1>5, <3>2
    <3>3. QED
      BY <3>1, <3>2 DEF Waiting
  <2>4. Claimed' \ Waiting' = (Claimed \ Waiting) \union {i} /\ i \notin Claimed \ Waiting
    BY <2>1, <2>2, <2>3
  <2>5. IsFiniteSet(Claimed \ Waiting)
    BY FS_Subset DEF Counted
  <2>6. Cardinality(Claimed' \ Waiting') = Cardinality(Claimed \ Waiting) + 1
    BY <2>4, <2>5, FS_AddElement
  <2>7. Cardinality(Claimed \ Waiting) \in Nat /\ calls \in Nat
    BY <1>0, <2>5, FS_CardinalityType DEF OthersOK
  <2>8. QED
    BY <1>0, <2>1, <2>6, <2>7 DEF Counted
<1>18. QED
  BY <1>9, <1>10, <1>11, <1>12, <1>13, <1>14, <1>15, <1>16, <1>17

----------------------------------------------------------------------------
(* A day, and the words of the contacts.                                   *)

LEMMA DayStep ==
  ASSUME CampaignInv, DayPasses
  PROVE  CampaignInv'
<1> USE DEF CampaignInv, DeliveryInv
<1>0. /\ RowsOK /\ OthersOK /\ TickTyped
      /\ UNCHANGED <<run, current, quota, consent, channel, throttle, tick>>
      /\ calls' = 0 /\ \A w \in Workers : tick[w].pc = "asleep"
  BY RowsTyped DEF TypeInv, DayPasses
<1>1. ASSUME NEW i \in Items
      PROVE  /\ item'[i] \in ItemRow /\ item'[i].status = item[i].status
             /\ item'[i].token = item[i].token /\ ~item'[i].claimed /\ ~item'[i].done
  <2>1. PICK b \in BOOLEAN :
          item'[i] = [item[i] EXCEPT !.claimed = FALSE, !.done = FALSE, !.overdue = b]
    <3>1. (item[i].status = "IN_FLIGHT") \in BOOLEAN
      OBVIOUS
    <3>2. item'[i] = [item[i] EXCEPT !.claimed = FALSE, !.done = FALSE,
                                     !.overdue = item[i].status = "IN_FLIGHT"]
      BY DEF DayPasses
    <3>3. QED
      BY <3>1, <3>2
  <2>2. item[i] \in ItemRow
    BY <1>0 DEF RowsOK
  <2>3. QED
    BY <2>1, <2>2 DEF ItemRow
<1>2. ASSUME NEW p \in Phones
      PROVE  /\ heard'[p] \in Ear /\ heard'[p].from = heard[p].from
             /\ heard'[p].today = 0 /\ heard'[p].afterStop = heard[p].afterStop
  BY <1>0 DEF DayPasses, OthersOK, Ear
<1>3. \A i \in Items : Got(i)' = Got(i)
  BY <1>2, ItemsTyped DEF Got
<1>4. \A w \in Workers : /\ tick'[w].pc = "asleep"
                         /\ tick'[w].pc \notin Underway \union AfterRow
                         /\ tick'[w].pc \notin BeforeSend
  BY <1>0 DEF Underway, BeforeSend, AfterRow
<1>5. TypeInv'
  <2>1. RowsOK'
    <3>1. item' = [i \in Items |-> item'[i]]
      BY DEF DayPasses
    <3>2. QED
      BY <1>0, <1>1, <3>1 DEF RowsOK
  <2>2. OthersOK'
    <3>1. heard' = [p \in Phones |-> heard'[p]]
      BY DEF DayPasses
    <3>2. heard' \in [Phones -> Ear]
      BY <1>2, <3>1
    <3>3. QED
      BY <1>0, <3>2 DEF OthersOK
  <2>3. TickTyped'
    BY <1>0 DEF TickTyped, Busy
  <2>4. QED
    BY <2>1, <2>2, <2>3 DEF TypeInv
<1>6. RowsAgree'
  BY <1>0, <1>1 DEF RowsAgree
<1>7. RowIsKept' /\ TicksApart'
  BY <1>4 DEF RowIsKept, RowKept, TicksApart, Busy
<1>8. TickKnows'
  BY <1>4 DEF TickKnows, Unheard, OutcomeTrue, Paid, AfterRow
<1>9. PhonesKnown'
  BY <1>0, <1>2 DEF PhonesKnown
<1>10. RowsTrue'
  BY <1>0, <1>1, <1>3 DEF RowsTrue
<1>11. PhonesOnce'
  BY <1>2 DEF PhonesOnce
<1>12. Counted'
  <2>1. Claimed' = {} /\ Claimed' \ Waiting' = {}
    BY <1>1 DEF Claimed
  <2>2. IsFiniteSet({}) /\ Cardinality({}) = 0
    BY FS_EmptySet
  <2>3. QED
    BY <1>0, <2>1, <2>2, CampaignAssumption DEF Counted
<1>13. QED
  BY <1>5, <1>6, <1>7, <1>8, <1>9, <1>10, <1>11, <1>12

LEMMA WordStep ==
  ASSUME CampaignInv, NEW p \in Phones, OptIn(p) \/ Stop(p)
  PROVE  CampaignInv'
<1> USE DEF CampaignInv, DeliveryInv
<1>0. /\ RowsOK /\ OthersOK /\ TickTyped
      /\ UNCHANGED <<run, current, item, quota, channel, throttle, tick, calls>>
  BY DEF TypeInv, OptIn, Stop
<1>1. heard[p] \in Ear
  BY <1>0 DEF OthersOK
<1>2. PICK e \in Ear :
        /\ heard' = [heard EXCEPT ![p] = e] /\ e.from = heard[p].from
        /\ e.today = heard[p].today /\ e.afterStop \in {0, heard[p].afterStop}
        /\ consent'[p] # "stopped" => e.afterStop = 0
  <2>1. CASE OptIn(p)
    <3>1. LET e == [heard[p] EXCEPT !.afterStop = 0] IN
          /\ e \in Ear /\ e.from = heard[p].from
          /\ e.today = heard[p].today /\ e.afterStop = 0
      BY <1>1 DEF Ear
    <3>2. heard' = [heard EXCEPT ![p] = [heard[p] EXCEPT !.afterStop = 0]]
      BY <2>1 DEF OptIn
    <3>3. QED
      BY <3>1, <3>2
  <2>2. CASE Stop(p)
    <3>1. heard' = [heard EXCEPT ![p] = heard[p]] /\ consent'[p] = "stopped"
      BY <1>0, <2>2 DEF Stop, OthersOK
    <3>2. QED
      BY <1>1, <3>1
  <2>3. QED
    BY <2>1, <2>2
<1>3. /\ heard'[p] = e /\ \A q \in Phones \ {p} : heard'[q] = heard[q]
      /\ \A q \in Phones \ {p} : consent'[q] = consent[q]
  BY <1>0, <1>2 DEF OthersOK, OptIn, Stop
<1>4. \A q \in Phones : /\ heard'[q].from = heard[q].from
                        /\ heard'[q].today = heard[q].today
                        /\ heard'[q].afterStop \in {0, heard[q].afterStop}
  BY <1>2, <1>3
<1>5. \A i \in Items : Got(i)' = Got(i)
  BY <1>4, ItemsTyped DEF Got
<1>6. TypeInv'
  <2>1. OthersOK'
    <3>1. consent' \in [Phones -> {"none", "in", "stopped"}]
      BY <1>0 DEF OthersOK, OptIn, Stop
    <3>2. heard' \in [Phones -> Ear]
      BY <1>0, <1>2 DEF OthersOK
    <3>3. QED
      BY <1>0, <3>1, <3>2 DEF OthersOK
  <2>2. QED
    BY <1>0, <2>1 DEF TypeInv, RowsOK, TickTyped, Busy
<1>7. RowsAgree' /\ RowIsKept' /\ TicksApart'
  BY <1>0 DEF RowsAgree, RowIsKept, RowKept, TicksApart, Busy
<1>8. TickKnows'
  <2>1. SUFFICES ASSUME NEW w \in Workers
                 PROVE  Unheard(w)' /\ OutcomeTrue(w)' /\ Paid(w)'
    BY DEF TickKnows
  <2>2. tick[w].pc \in BeforeSend \union AfterRow \union {"finish"}
          => tick[w].item \in Items /\ tick[w].item[2] \in Phones
    BY <1>0, ItemsTyped DEF TickTyped, Busy, Underway
  <2>3. Paid(w)'
    BY <1>0 DEF TickKnows, Paid
  <2>4. Unheard(w)'
    BY <1>0, <1>4, <1>5, <2>2 DEF TickKnows, Unheard, Got
  <2>5. OutcomeTrue(w)'
    BY <1>0, <1>4, <1>5, <2>2 DEF TickKnows, OutcomeTrue, Got
  <2>6. QED
    BY <2>3, <2>4, <2>5
<1>9. PhonesKnown'
  <2>1. \A q \in Phones : RecentlyMessaged(q) => RecentlyMessaged(q)'
    BY <1>0 DEF RecentlyMessaged
  <2>2. QED
    BY <1>2, <1>3, <1>4, <2>1 DEF PhonesKnown
<1>10. RowsTrue'
  BY <1>0, <1>5 DEF RowsTrue
<1>11. PhonesOnce'
  BY <1>4 DEF PhonesOnce
<1>12. Counted'
  BY <1>0 DEF Counted, Claimed, Waiting
<1>13. QED
  BY <1>6, <1>7, <1>8, <1>9, <1>10, <1>11, <1>12

----------------------------------------------------------------------------
(* The invariant.                                                          *)

LEMMA CampaignStart ==
  Init => CampaignInv
<1> SUFFICES ASSUME Init PROVE CampaignInv
  OBVIOUS
<1>0. /\ item = [i \in Items |-> Absent] /\ tick = [w \in Workers |-> Asleep]
      /\ run = [r \in Runs |-> "NONE"] /\ calls = 0
      /\ heard = [p \in Phones |-> [from |-> [r \in Runs |-> 0], today |-> 0, afterStop |-> 0]]
  BY DEF Init
<1>1. /\ \A w \in Workers : tick[w].pc = "asleep"
      /\ \A w \in Workers : ~Busy(w) /\ tick[w].pc \notin Underway /\ tick[w].pc \notin BeforeSend
  BY <1>0, RowsTyped DEF Busy, Underway, BeforeSend, AfterRow
<1>2. TypeInv
  <2>1. RowsOK
    BY <1>0, RowsTyped DEF RowsOK
  <2>2. OthersOK
    BY DEF Init, OthersOK, Ear
  <2>3. TickTyped
    BY <1>0, <1>1, RowsTyped DEF TickTyped
  <2>4. QED
    BY <2>1, <2>2, <2>3 DEF TypeInv
<1>3. \A i \in Items : Got(i) = 0 /\ item[i].status = "NONE" /\ ~item[i].claimed
  BY <1>0, ItemsTyped, RowsTyped DEF Got
<1>4. RowsAgree /\ RowsTrue
  BY <1>3 DEF RowsAgree, RowsTrue
<1>5. RowIsKept /\ TicksApart /\ TickKnows
  BY <1>1 DEF RowIsKept, RowKept, TicksApart, TickKnows, Unheard, OutcomeTrue, Paid, Busy,
     AfterRow
<1>6. PhonesKnown /\ PhonesOnce
  BY <1>0 DEF PhonesKnown, PhonesOnce
<1>7. Counted
  <2>1. Claimed = {} /\ Claimed \ Waiting = {}
    BY <1>3 DEF Claimed
  <2>2. IsFiniteSet({}) /\ Cardinality({}) = 0
    BY FS_EmptySet
  <2>3. QED
    BY <1>0, <2>1, <2>2, CampaignAssumption DEF Counted
<1>8. QED
  BY <1>2, <1>4, <1>5, <1>6, <1>7 DEF CampaignInv, DeliveryInv

LEMMA CampaignStep ==
  CampaignInv /\ [Next]_vars => CampaignInv'
<1> SUFFICES ASSUME CampaignInv, [Next]_vars PROVE CampaignInv'
  OBVIOUS
<1>1. ASSUME NEW r \in Runs, Launch(r) \/ ChangeRun(r) \/ EditDraft(r) PROVE CampaignInv'
  BY <1>1, LaunchStep, OwnerStep
<1>2. ASSUME NEW p \in Phones, OptIn(p) \/ Stop(p) PROVE CampaignInv'
  BY <1>2, WordStep
<1>3. ASSUME SwitchChannel PROVE CampaignInv'
  BY <1>3, ChannelStep
<1>4. ASSUME SpacingPasses \/ \E i \in Items : GetsOverdue(i) PROVE CampaignInv'
  BY <1>4, ClockStep
<1>5. ASSUME DayPasses PROVE CampaignInv'
  BY <1>5, DayStep
<1>6. ASSUME NEW w \in Workers, Step(w) \/ Dies(w) PROVE CampaignInv'
  BY <1>6, SweepStep, FenceStep, EndStep, ClaimStep, ReadyStep, UnclaimStep, ReserveStep,
     SendStep, FinishStep, SettleStep DEF Step
<1>7. ASSUME UNCHANGED vars PROVE CampaignInv'
  BY <1>7, StutterStep
<1>8. QED
  BY <1>1, <1>2, <1>3, <1>4, <1>5, <1>6, <1>7 DEF Next

THEOREM CampaignInvariance == Spec => []CampaignInv
<1>1. QED
  BY CampaignStart, CampaignStep, PTL DEF Spec

----------------------------------------------------------------------------
(* The properties.                                                         *)

(* A launch, a tick or a crash leaves every field in the range of its      *)
(* column, and a row holds a token exactly while it is in flight.          *)
THEOREM CampaignTyped == Spec => []TypeOK
<1>1. CampaignInv => TypeOK
  <2>1. SUFFICES ASSUME RowsOK, OthersOK, TickTyped PROVE TypeOK
    BY DEF CampaignInv, TypeInv
  <2>2. ASSUME NEW w \in Workers
        PROVE  /\ tick[w].item \in Items \union {NoItem} /\ tick[w].stale \subseteq Items
               /\ tick[w].outcome \in {"NONE", "SENT", "FAILED", "UNKNOWN", "SKIPPED"}
    BY <2>1 DEF TickTyped, TickLocal, Outcomes
  <2>3. QED
    BY <2>1, <2>2 DEF TypeOK, RowsOK, OthersOK, ItemRow, Statuses, Ear
<1>2. QED
  BY <1>1, CampaignInvariance, PTL

LEMMA RowsTrueOf ==
  ASSUME RowsTrue, NEW r \in Runs, NEW p \in Phones
  PROVE  /\ heard[p].from[r] <= 1
         /\ heard[p].from[r] > 0 => item[r, p].status \in {"IN_FLIGHT", "SENT", "UNKNOWN"}
         /\ item[r, p].status = "SENT" => heard[p].from[r] > 0
         /\ heard[p].from[r] > 0 => quota[r, p] \in Held
<1>1. <<r, p>> \in Items /\ Got(<<r, p>>) = heard[p].from[r]
  BY DEF Items, Got
<1>2. QED
  BY <1>1 DEF RowsTrue

(* processNextCampaignDelivery never writes twice to one recipient of a    *)
(* run, nor to one phone on one day, whatever ticks die or stall.          *)
THEOREM NobodyHearsTwice == Spec => []HeardOnce
<1>1. CampaignInv => HeardOnce
  BY RowsTrueOf DEF CampaignInv, DeliveryInv, PhonesOnce, HeardOnce
<1>2. QED
  BY <1>1, CampaignInvariance, PTL

(* After a STOP at most the one message whose tick had made its last check *)
(* gets out.                                                               *)
THEOREM StopsAreHonoured == Spec => []StopIsHonoured
<1>1. CampaignInv => StopIsHonoured
  BY DEF CampaignInv, DeliveryInv, PhonesOnce, StopIsHonoured
<1>2. QED
  BY <1>1, CampaignInvariance, PTL

(* The status the owner is shown is true of the phone.                     *)
THEOREM VerdictsAreTrue == Spec => []VerdictIsTrue
<1>1. CampaignInv => VerdictIsTrue
  BY RowsTrueOf DEF CampaignInv, DeliveryInv, VerdictIsTrue
<1>2. QED
  BY <1>1, CampaignInvariance, PTL

(* A message that left holds its quota row, whoever settles it.            *)
THEOREM DeliveriesArePaid == Spec => []DeliveryIsMetered
<1>1. CampaignInv => DeliveryIsMetered
  BY RowsTrueOf DEF CampaignInv, DeliveryInv, DeliveryIsMetered, Held
<1>2. QED
  BY <1>1, CampaignInvariance, PTL

(* The send requests of a day stay within CAMPAIGN_MAX_ATTEMPTS_PER_24H,   *)
(* which the code enforces on the claims alone.                            *)
THEOREM CapHolds == Spec => []AccountStaysUnderCap
<1>1. ASSUME CampaignInv PROVE AccountStaysUnderCap
  <2>1. /\ IsFiniteSet(Claimed) /\ Cardinality(Claimed) <= DailyCap
        /\ calls <= Cardinality(Claimed \ Waiting) /\ calls \in Nat
    BY <1>1 DEF CampaignInv, Counted, TypeInv, OthersOK
  <2>2. /\ Cardinality(Claimed \ Waiting) <= Cardinality(Claimed)
        /\ IsFiniteSet(Claimed \ Waiting)
    BY <2>1, FS_Subset
  <2>3. Cardinality(Claimed) \in Nat /\ Cardinality(Claimed \ Waiting) \in Nat
    BY <2>1, <2>2, FS_CardinalityType
  <2>4. DailyCap \in Nat
    BY CampaignAssumption
  <2>5. QED
    BY <2>1, <2>2, <2>3, <2>4 DEF AccountStaysUnderCap
<1>2. QED
  BY <1>1, CampaignInvariance, PTL

----------------------------------------------------------------------------
(* The ledger as the campaigns use it.                                     *)

Ledger == INSTANCE Reservation WITH Keys <- Items, resv <- quota

LEMMA CallsAreLedgerCalls ==
  ASSUME NEW q \in LedgerStates
  PROVE  /\ Reserved(q) = Ledger!AfterReserve(q)
         /\ Released(q) = Ledger!AfterRelease(q)
         /\ Uncertain(q) = Ledger!AfterUncertain(q)
         /\ Consumed(q) = IF Ledger!Consumable(q) THEN "CONSUMED" ELSE q
BY DEF LedgerStates, Reserved, Released, Uncertain, Consumed, Ledger!AfterReserve,
   Ledger!AfterRelease, Ledger!AfterUncertain, Ledger!Consumable, Ledger!Committed

(* Every step is a call of the ledger for one recipient of a run, or none. *)
LEMMA LedgerStep ==
  ASSUME TypeInv, [Next]_vars
  PROVE  [Ledger!Next]_quota
<1>1. quota \in [Items -> LedgerStates] /\ \A w \in Workers : tick[w] \in TickLocal
  BY DEF TypeInv, OthersOK, TickTyped, LedgerStates
<1>2. ASSUME NEW i \in Items,
             \/ quota' = [quota EXCEPT ![i] = Reserved(@)]
             \/ quota' = [quota EXCEPT ![i] = Released(@)]
             \/ quota' = [quota EXCEPT ![i] = Uncertain(@)]
             \/ quota' = [quota EXCEPT ![i] = Consumed(@)]
      PROVE  [Ledger!Next]_quota
  <2>1. quota[i] \in LedgerStates
    BY <1>1
  <2>2. CASE quota' = [quota EXCEPT ![i] = Consumed(@)] /\ ~Ledger!Consumable(quota[i])
    <3>1. quota' = quota
      BY <1>1, <2>1, <2>2, CallsAreLedgerCalls
    <3>2. QED
      BY <3>1
  <2>3. CASE quota' = [quota EXCEPT ![i] = Consumed(@)] /\ Ledger!Consumable(quota[i])
    BY <2>1, <2>3, CallsAreLedgerCalls DEF Ledger!Next, Ledger!Set
  <2>4. CASE quota' # [quota EXCEPT ![i] = Consumed(@)]
    BY <1>2, <2>1, <2>4, CallsAreLedgerCalls DEF Ledger!Next, Ledger!Set
  <2>5. QED
    BY <2>2, <2>3, <2>4
<1>3. ASSUME NEW w \in Workers, FenceStaleQuota(w)
      PROVE  [Ledger!Next]_quota
  <2>1. tick[w].stale \subseteq Items
    BY <1>1 DEF TickLocal
  <2>2. QED
    BY <1>2, <1>3, <2>1 DEF FenceStaleQuota
<1>4. ASSUME NEW w \in Workers, Reserve(w) \/ ReserveFails(w) \/ SettleQuota(w)
      PROVE  [Ledger!Next]_quota
  <2>1. tick[w].item \in Items
    BY <1>4 DEF TypeInv, TickTyped, Busy, Underway, BeforeSend, AfterRow, Reserve,
       ReserveFails, SettleQuota, At
  <2>2. CASE Reserve(w) \/ ReserveFails(w)
    BY <1>2, <2>1, <2>2 DEF Reserve, ReserveFails
  <2>3. CASE SettleQuota(w)
    BY <1>2, <2>1, <2>3 DEF SettleQuota, Settled
  <2>4. QED
    BY <1>4, <2>2, <2>3
<1>5. CASE UNCHANGED quota
  BY <1>5
<1>6. ASSUME NEW w \in Workers, Step(w),
             ~(FenceStaleQuota(w) \/ Reserve(w) \/ ReserveFails(w) \/ SettleQuota(w))
      PROVE  UNCHANGED quota
  BY <1>6 DEF Step, MarkExpiredUnknown, DiscardNotAllowed, FinishCompletedRuns, ClaimNext,
     NothingToClaim, AccountReady, Unclaim, Recheck, Send, Finish, PauseRun, Tidy
<1>7. CASE ~\E w \in Workers : Step(w)
  BY <1>7 DEF Next, vars, Launch, ChangeRun, EditDraft, OptIn, Stop, SwitchChannel,
     SpacingPasses, DayPasses, GetsOverdue, Dies
<1>8. QED
  BY <1>3, <1>4, <1>5, <1>6, <1>7

(* The campaigns use their reservations as the ledger promises them: what  *)
(* a tick has made uncertain or consumed, no other tick and no sweep gives *)
(* back or reserves again (campaign-delivery-worker.ts,                    *)
(* billing/entitlements.ts).                                               *)
THEOREM CampaignsKeepReservations == Spec => Ledger!Spec
<1>1. Init => Ledger!Init
  BY DEF Init, Ledger!Init
<1>2. CampaignInv /\ [Next]_vars => [Ledger!Next]_quota
  BY LedgerStep DEF CampaignInv
<1>3. QED
  BY <1>1, <1>2, CampaignInvariance, PTL DEF Spec, Ledger!Spec
==============================================================================
