--------------------------- MODULE WorkloadProofs ---------------------------
(***************************************************************************)
(* What is proved of a workload and of the news of it: of the managed      *)
(* worker's registry (ManagedWorker), for any number of incarnations,      *)
(* handlers and keys; and of the provider's watch (ProviderWatch), for any *)
(* number of observers, executors and workers, any retention; and for every*)
(* bound.                                                                  *)
(*                                                                         *)
(* That a watch loop takes each event after the one before says nothing of *)
(* the events that are still in its channel, so it is not inductive. The   *)
(* invariant describes every channel exactly: it holds a run of            *)
(* consecutive events, which ends with the last one published or, while    *)
(* the publisher has still to serve the channel, with the one before it;   *)
(* and the loop that reads the channel has seen everything before that     *)
(* run. The provider's mutex is what makes one publisher's position enough *)
(* to know which channels lag.                                             *)
(***************************************************************************)
EXTENDS ManagedWorker, ProviderWatch, TLAPS

-----------------------------------------------------------------------------
(* The provider watch *)

PublisherStates == {"idle", "sandbox", "resource", "project"}

(* The last event a channel was sent. *)
Due(last, mu, at, missing, k, c) ==
  IF mu # "free" /\ at[mu] = k /\ c \in missing THEN last[k] - 1 ELSE last[k]

(* A channel's contents: consecutive events up to the last it was sent. *)
Holds(q, last) ==
  /\ q \in Seq(Nat) /\ Len(q) <= last /\ Len(q) <= Capacity
  /\ \A i \in 1..Len(q) : q[i] = last - Len(q) + i

LockInv ==
  /\ providerMu \in Publishers \cup {"free"} /\ publisher \in [Publishers -> PublisherStates]
  /\ \A p \in Publishers : publisher[p] \in Kinds <=> providerMu = p
  /\ providerMu = "free" => unsent = {}
  /\ providerMu # "free" => unsent \subseteq 1..Len(channels[publisher[providerMu]])

CountInv ==
  /\ published \in [Kinds -> 0..MaxEvents]
  /\ \A p \in Publishers : publisher[p] = "sandbox" => published["resource"] < MaxEvents

ChannelInv ==
  /\ channels \in [Kinds -> Seq(Seq(Nat))]
  /\ \A k \in Kinds : \A c \in 1..Len(channels[k]) :
       Holds(channels[k][c], Due(published, providerMu, publisher, unsent, k, c))

LoopInv ==
  /\ stream \in [Kinds -> Nat] /\ seen \in [Kinds -> Nat]
  /\ \A k \in Kinds :
       /\ stream[k] \in 1..Len(channels[k])
       /\ seen[k] = Due(published, providerMu, publisher, unsent, k, stream[k]) - Len(channels[k][stream[k]])

MarkInv ==
  /\ planMu \in Workers \cup {"free"} /\ malformed \subseteq 1..published["sandbox"]
  /\ healthy \subseteq Kinds /\ poisoned \subseteq Kinds /\ live \subseteq Kinds
  /\ PoisonedIsClosed

WatchInv == LockInv /\ CountInv /\ ChannelInv /\ LoopInv /\ MarkInv

-----------------------------------------------------------------------------
(* Order on the generations, and the records the worker's state starts from:  *)
(* the facts about numbers and record fields the long proofs below use.       *)
LEMMA Below == ASSUME NEW a \in Nat, NEW b \in Nat, ~(a > b), a # b PROVE a < b
BY SMT

LEMMA ElementOf == ASSUME NEW S, NEW q \in Seq(S), NEW i \in 1..Len(q) PROVE q[i] \in S
BY SMT

LEMMA NextIndex == ASSUME NEW S, NEW q \in Seq(S), NEW i \in 1..Len(q)
                   PROVE  i + 1 \in Nat /\ (i # Len(q) => i + 1 \in 1..Len(q))
BY SMT

LEMMA NaturalIsInteger == \A n \in Nat : n \in Int
BY SMT

LEMMA BlankReceipt == NoReceipt \in [op : {NoOp}, gen : Nat, done : {FALSE}, ok : {FALSE}] /\ NoReceipt.op = NoOp
BY SMT DEF NoReceipt

LEMMA BlankCall == NoCall.pc = "idle" /\ (\A S : <<>> \in Seq(S)) /\ 1 \in Nat
BY SMT DEF NoCall

(* A channel that has room takes the next event after the last one it is due. *)
LEMMA LongerHolds ==
  ASSUME NEW q \in Seq(Nat), NEW n \in Nat, Holds(q, n - 1), Len(q) < Capacity
  PROVE  Append(q, n) \in Seq(Nat) /\ Len(Append(q, n)) = Len(q) + 1 /\ Holds(Append(q, n), n)
<1> DEFINE longer == Append(q, n)
<1>1. Len(q) \in Nat /\ Len(q) <= n - 1 /\ Len(q) + 1 <= Capacity
      BY WatchAssumption DEF Holds, Capacity
<1>2. longer \in Seq(Nat) /\ Len(longer) = Len(q) + 1 /\ longer[Len(q) + 1] = n
      /\ \A i \in 1..Len(q) : longer[i] = q[i]
      OBVIOUS
<1>3. \A i \in 1..Len(q) : q[i] = n - 1 - Len(q) + i
      BY DEF Holds
<1> HIDE DEF longer
<1>4. \A i \in 1..(Len(q) + 1) : longer[i] = n - (Len(q) + 1) + i
  <2> SUFFICES ASSUME NEW i \in 1..(Len(q) + 1) PROVE longer[i] = n - (Len(q) + 1) + i
      OBVIOUS
  <2>1. CASE i = Len(q) + 1
        BY <1>1, <1>2, <2>1
  <2>2. CASE i \in 1..Len(q)
    <3>1. longer[i] = n - 1 - Len(q) + i
          BY <1>2, <1>3, <2>2
    <3> QED BY <1>1, <3>1
  <2> QED BY <1>1, <2>1, <2>2
<1> QED BY <1>1, <1>2, <1>4 DEF Holds, longer

LEMMA ReplayedHolds ==
  ASSUME NEW k \in Kinds, published[k] \in Nat
  PROVE  /\ Holds(Replayed(k), published[k]) /\ Oldest(k) - 1 = published[k] - Len(Replayed(k))
         /\ Oldest(k) - 1 \in Nat
<1> DEFINE n == published[k] - Oldest(k) + 1
<1>1. Oldest(k) \in Nat \ {0} /\ n \in Nat /\ n <= published[k] /\ n <= Capacity /\ Oldest(k) - 1 = published[k] - n
  <2>1. Retention \in Nat /\ Retention > 0 /\ published[k] \in Nat
        BY WatchAssumption
  <2>2. CASE published[k] > Retention
    <3>1. Oldest(k) = published[k] - Retention + 1
          BY <2>2 DEF Oldest
    <3> QED BY <2>1, <2>2, <3>1 DEF Capacity
  <2>3. CASE ~(published[k] > Retention)
    <3>1. Oldest(k) = 1
          BY <2>3 DEF Oldest
    <3> QED BY <2>1, <2>3, <3>1 DEF Capacity
  <2> QED BY <2>2, <2>3
<1>2. Replayed(k) = [i \in 1..n |-> Oldest(k) + i - 1]
      BY DEF Replayed
<1> HIDE DEF n
<1>3. Replayed(k) \in Seq(Nat) /\ Len(Replayed(k)) = n
      BY <1>1, <1>2
<1>4. \A i \in 1..n : Replayed(k)[i] = published[k] - n + i
  <2> SUFFICES ASSUME NEW i \in 1..n PROVE Replayed(k)[i] = published[k] - n + i
      OBVIOUS
  <2>1. Replayed(k)[i] = Oldest(k) + i - 1
        BY <1>2
  <2>2. i \in Int /\ n \in Int /\ Oldest(k) \in Int /\ published[k] \in Int
        BY <1>1
  <2>3. Oldest(k) = published[k] - n + 1
        BY <1>1, <2>2
  <2> HIDE DEF n
  <2> QED BY <2>1, <2>2, <2>3
<1> QED BY <1>1, <1>3, <1>4 DEF Holds

LEMMA WatchInit == Init => WatchInv
<1> SUFFICES ASSUME Init PROVE WatchInv
    OBVIOUS
<1>1. published \in [Kinds -> 0..MaxEvents] /\ \A k \in Kinds : published[k] \in Nat
      BY WatchAssumption DEF Init, Kinds
<1>2. \A k \in Kinds : /\ Holds(Replayed(k), published[k]) /\ Replayed(k) \in Seq(Nat)
                       /\ Oldest(k) - 1 = published[k] - Len(Replayed(k)) /\ Oldest(k) - 1 \in Nat
      BY <1>1, ReplayedHolds DEF Holds
<1>3. channels = [k \in Kinds |-> <<Replayed(k)>>]
      BY DEF Init
<1>4. channels \in [Kinds -> Seq(Seq(Nat))] /\ \A k \in Kinds : Len(channels[k]) = 1 /\ channels[k][1] = Replayed(k)
      BY <1>2, <1>3
<1>5. LockInv /\ CountInv /\ MarkInv
  <2>1. LockInv
        BY WatchAssumption DEF Init, LockInv, PublisherStates, Kinds, Publishers
  <2>2. CountInv
        BY <1>1 DEF Init, CountInv
  <2>3. MarkInv
        BY DEF Init, MarkInv, PoisonedIsClosed
  <2> QED BY <2>1, <2>2, <2>3
<1>6. \A k \in Kinds : Due(published, providerMu, publisher, unsent, k, 1) = published[k]
      BY DEF Due, Init
<1>7. ChannelInv
      BY <1>2, <1>4, <1>6, SMTT(30) DEF ChannelInv
<1>8. LoopInv
  <2>1. stream = [k \in Kinds |-> 1] /\ seen = [k \in Kinds |-> Oldest(k) - 1]
        BY DEF Init
  <2>2. \A k \in Kinds : stream[k] = 1 /\ seen[k] = published[k] - Len(channels[k][1]) /\ seen[k] \in Nat
        BY <1>2, <1>4, <2>1
  <2> QED BY <1>4, <1>6, <2>1, <2>2, SMTT(30) DEF LoopInv
<1> QED BY <1>5, <1>7, <1>8 DEF WatchInv

-----------------------------------------------------------------------------
(* The provider *)

DueNow(k, c) == Due(published, providerMu, publisher, unsent, k, c)

LEMMA SameDue ==
  ASSUME WatchInv, UNCHANGED <<channels, stream, seen>>,
         \A k \in Kinds : \A c \in 1..Len(channels[k]) :
           Due(published', providerMu', publisher', unsent', k, c) = DueNow(k, c)
  PROVE  ChannelInv' /\ LoopInv'
<1>1. ChannelInv'
      BY DEF WatchInv, ChannelInv, DueNow
<1>2. LoopInv'
  <2>1. \A k \in Kinds : stream[k] \in 1..Len(channels[k])
        BY DEF WatchInv, LoopInv
  <2> QED BY <2>1 DEF WatchInv, LoopInv, DueNow
<1> QED BY <1>1, <1>2

(* Only the holder of the provider's mutex is publishing. *)
LEMMA Holder ==
  ASSUME WatchInv, NEW p \in Publishers
  PROVE  /\ p # "free" /\ (publisher[p] \in Kinds => providerMu = p)
         /\ providerMu = "free" => publisher[p] \notin Kinds /\ unsent = {}
BY WatchAssumption DEF WatchInv, LockInv, Publishers

LEMMA PublishPreserves == ASSUME WatchInv, NEW p \in Publishers, NEW bad \in BOOLEAN, Publish(p, bad) PROVE WatchInv'
<1>1. /\ publisher[p] = "idle" /\ providerMu = "free" /\ providerMu' = p
      /\ publisher' = [publisher EXCEPT ![p] = "sandbox"]
      /\ published' = [published EXCEPT !["sandbox"] = @ + 1] /\ unsent' = 1..Len(channels["sandbox"])
      /\ published["sandbox"] < MaxEvents /\ published["resource"] < MaxEvents
      /\ UNCHANGED <<planMu, channels, stream, loop, event, seen, health>>
      BY DEF Publish, Append1
<1>2. p # "free" /\ publisher' \in [Publishers -> PublisherStates] /\ publisher'[p] = "sandbox"
      /\ \A r \in Publishers \ {p} : publisher'[r] = publisher[r] /\ publisher[r] \notin Kinds
      BY <1>1, Holder DEF WatchInv, LockInv, PublisherStates
<1>3. published' \in [Kinds -> 0..MaxEvents] /\ published'["sandbox"] = published["sandbox"] + 1
      /\ published'["resource"] = published["resource"]
      BY <1>1, WatchAssumption DEF WatchInv, CountInv, Kinds
<1>4. LockInv'
      BY <1>1, <1>2 DEF LockInv, Kinds
<1>5. CountInv'
      BY <1>1, <1>2, <1>3 DEF CountInv
<1>6. MarkInv'
  <2>1. malformed' \subseteq 1..published'["sandbox"]
    <3> DEFINE n == published["sandbox"]
    <3>1. n \in Nat /\ malformed \subseteq 1..n /\ published'["sandbox"] = n + 1
          BY <1>3 DEF WatchInv, MarkInv, CountInv, Kinds
    <3>2. malformed' = malformed \cup {n + 1} \/ malformed' = malformed
          BY DEF Publish
    <3> HIDE DEF n
    <3>3. 1..n \subseteq 1..(n + 1) /\ n + 1 \in 1..(n + 1)
          BY <3>1
    <3> QED BY <3>1, <3>2, <3>3, Zenon
  <2> QED BY <1>1, <2>1 DEF WatchInv, MarkInv, health, PoisonedIsClosed
<1>7. ASSUME NEW k \in Kinds, NEW c \in 1..Len(channels[k])
      PROVE  Due(published', providerMu', publisher', unsent', k, c) = DueNow(k, c)
  <2>1. DueNow(k, c) = published[k] /\ published[k] \in Int
        BY <1>1 DEF DueNow, Due, WatchInv, CountInv
  <2>2. CASE k = "sandbox"
        BY <1>1, <1>2, <1>3, <2>1, <2>2 DEF Due
  <2>3. CASE k = "resource"
        BY <1>1, <1>2, <1>3, <2>1, <2>3 DEF Due
  <2> QED BY <2>2, <2>3 DEF Kinds
<1>8. ChannelInv' /\ LoopInv'
      BY <1>1, <1>7, SameDue, Zenon
<1> QED BY <1>4, <1>5, <1>6, <1>8 DEF WatchInv

LEMMA SnapshotPreserves == ASSUME WatchInv, NEW p \in Publishers, PublishSnapshot(p) PROVE WatchInv'
<1>1. /\ publisher[p] = "sandbox" /\ unsent = {} /\ providerMu' = providerMu /\ malformed' = malformed
      /\ publisher' = [publisher EXCEPT ![p] = "resource"]
      /\ published' = [published EXCEPT !["resource"] = @ + 1] /\ unsent' = 1..Len(channels["resource"])
      /\ UNCHANGED <<planMu, channels, stream, loop, event, seen, health>>
      BY DEF PublishSnapshot, Append1
<1>2. p # "free" /\ providerMu = p /\ published["resource"] < MaxEvents
      BY <1>1, Holder DEF WatchInv, CountInv, Kinds
<1>3. publisher' \in [Publishers -> PublisherStates] /\ publisher'[p] = "resource"
      /\ \A r \in Publishers \ {p} : publisher'[r] = publisher[r] /\ publisher[r] \notin Kinds
      BY <1>1, <1>2 DEF WatchInv, LockInv, PublisherStates
<1>4. published' \in [Kinds -> 0..MaxEvents] /\ published'["resource"] = published["resource"] + 1
      /\ published'["sandbox"] = published["sandbox"]
      BY <1>1, <1>2, WatchAssumption DEF WatchInv, CountInv, Kinds
<1>5. LockInv'
      BY <1>1, <1>2, <1>3 DEF LockInv, Kinds
<1>6. CountInv'
      BY <1>3, <1>4 DEF CountInv, Kinds
<1>7. MarkInv'
      BY <1>1, <1>4 DEF WatchInv, MarkInv, health, PoisonedIsClosed
<1>8. ASSUME NEW k \in Kinds, NEW c \in 1..Len(channels[k])
      PROVE  Due(published', providerMu', publisher', unsent', k, c) = DueNow(k, c)
  <2>1. DueNow(k, c) = published[k] /\ published[k] \in Int
        BY <1>1 DEF DueNow, Due, WatchInv, CountInv
  <2>2. CASE k = "sandbox"
        BY <1>1, <1>2, <1>3, <1>4, <2>1, <2>2 DEF Due
  <2>3. CASE k = "resource"
        BY <1>1, <1>2, <1>3, <1>4, <2>1, <2>3 DEF Due
  <2> QED BY <2>2, <2>3 DEF Kinds
<1>9. ChannelInv' /\ LoopInv'
      BY <1>1, <1>8, SameDue, Zenon
<1> QED BY <1>5, <1>6, <1>7, <1>9 DEF WatchInv

LEMMA PublishedPreserves == ASSUME WatchInv, NEW p \in Publishers, Published(p) PROVE WatchInv'
<1> DEFINE to == IF p \in Observers THEN "project" ELSE "idle"
<1>1. /\ publisher[p] = "resource" /\ unsent = {} /\ providerMu' = "free"
      /\ publisher' = [publisher EXCEPT ![p] = to] /\ to \in PublisherStates \ Kinds
      /\ UNCHANGED <<published, malformed, unsent, planMu, channels, stream, loop, event, seen, health>>
      BY DEF Published, PublisherStates, Kinds
<1> HIDE DEF to
<1>2. p # "free" /\ providerMu = p
      BY <1>1, Holder DEF Kinds
<1>3. publisher' \in [Publishers -> PublisherStates] /\ \A r \in Publishers : publisher'[r] \notin Kinds
      BY <1>1, <1>2 DEF WatchInv, LockInv, PublisherStates
<1>4. LockInv'
      BY <1>1, <1>3, Holder DEF LockInv
<1>5. CountInv' /\ MarkInv'
      BY <1>1, <1>3 DEF WatchInv, CountInv, MarkInv, health, PoisonedIsClosed, Kinds
<1>6. ASSUME NEW k \in Kinds, NEW c \in 1..Len(channels[k])
      PROVE  Due(published', providerMu', publisher', unsent', k, c) = DueNow(k, c)
      BY <1>1 DEF Due, DueNow
<1>7. ChannelInv' /\ LoopInv'
      BY <1>1, <1>6, SameDue, Zenon
<1> QED BY <1>4, <1>5, <1>7 DEF WatchInv

LEMMA ReturnsPreserves == ASSUME WatchInv, NEW p \in Publishers, ObserveReturns(p) PROVE WatchInv'
<1>1. /\ publisher[p] = "project" /\ publisher' = [publisher EXCEPT ![p] = "idle"]
      /\ UNCHANGED <<providerMu, published, malformed, unsent, planMu, channels, stream, loop, event, seen, health>>
      BY DEF ObserveReturns
<1>2. publisher' \in [Publishers -> PublisherStates] /\ publisher'[p] = "idle" /\ providerMu # p
      /\ \A r \in Publishers \ {p} : publisher'[r] = publisher[r]
      BY <1>1 DEF WatchInv, LockInv, PublisherStates, Kinds
<1>3. LockInv'
      BY <1>1, <1>2 DEF WatchInv, LockInv, Kinds
<1>4. CountInv' /\ MarkInv'
      BY <1>1, <1>2 DEF WatchInv, CountInv, MarkInv, health, PoisonedIsClosed
<1>5. ASSUME NEW k \in Kinds, NEW c \in 1..Len(channels[k])
      PROVE  Due(published', providerMu', publisher', unsent', k, c) = DueNow(k, c)
      BY <1>1, <1>2 DEF Due, DueNow, WatchInv, LockInv
<1>6. ChannelInv' /\ LoopInv'
      BY <1>1, <1>5, SameDue, Zenon
<1> QED BY <1>3, <1>4, <1>6 DEF WatchInv

-----------------------------------------------------------------------------
(* The channels *)

Update(chs, k, c, q) == [chs EXCEPT ![k][c] = q]

LEMMA UpdatedChannels ==
  ASSUME channels \in [Kinds -> Seq(Seq(Nat))], NEW k \in Kinds, NEW c \in 1..Len(channels[k]), NEW q \in Seq(Nat),
         channels' = Update(channels, k, c, q)
  PROVE  /\ channels' \in [Kinds -> Seq(Seq(Nat))] /\ channels'[k][c] = q
         /\ \A j \in Kinds : Len(channels'[j]) = Len(channels[j])
         /\ \A j \in Kinds : \A d \in 1..Len(channels[j]) : (j # k \/ d # c) => channels'[j][d] = channels[j][d]
<1> DEFINE row == [channels[k] EXCEPT ![c] = q]
<1>1. channels' = [channels EXCEPT ![k] = row]
      BY DEF Update
<1>2. channels[k] \in Seq(Seq(Nat))
      OBVIOUS
<1>3. row \in Seq(Seq(Nat)) /\ Len(row) = Len(channels[k]) /\ row[c] = q
      /\ \A d \in 1..Len(channels[k]) : d # c => row[d] = channels[k][d]
      BY <1>2
<1> HIDE DEF row
<1>4. channels'[k] = row /\ \A j \in Kinds : j # k => channels'[j] = channels[j]
      BY <1>1
<1>5. channels' \in [Kinds -> Seq(Seq(Nat))]
      BY <1>1, <1>3
<1> QED BY <1>3, <1>4, <1>5, ZenonT(30)

LEMMA SendPreserves == ASSUME WatchInv, NEW p \in Publishers, NEW c \in unsent, Send(p, c) PROVE WatchInv'
<1> DEFINE k == publisher[p]
           q == channels[k][c]
           longer == Append(q, published[k])
<1>1. /\ k \in Kinds /\ Len(q) < Capacity /\ unsent' = unsent \ {c}
      /\ channels' = Update(channels, k, c, longer)
      /\ UNCHANGED <<providerMu, published, malformed, publisher, planMu, stream, loop, event, seen, health>>
      BY DEF Send, Update
<1>2. p # "free" /\ providerMu = p /\ c \in 1..Len(channels[k]) /\ published[k] \in Nat
      BY <1>1, Holder, SMTT(30) DEF WatchInv, LockInv, CountInv
<1>3. q \in Seq(Nat) /\ DueNow(k, c) = published[k] - 1 /\ Holds(q, published[k] - 1)
      BY <1>1, <1>2, SMTT(30) DEF WatchInv, ChannelInv, DueNow, Due
<1>4. longer \in Seq(Nat) /\ Len(longer) = Len(q) + 1 /\ Holds(longer, published[k])
  <2> HIDE DEF q
  <2> QED BY <1>1, <1>2, <1>3, LongerHolds
<1> HIDE DEF longer
<1>5. /\ channels' \in [Kinds -> Seq(Seq(Nat))] /\ channels'[k][c] = longer
      /\ \A j \in Kinds : Len(channels'[j]) = Len(channels[j])
      /\ \A j \in Kinds : \A d \in 1..Len(channels[j]) : (j # k \/ d # c) => channels'[j][d] = channels[j][d]
  <2>1. channels \in [Kinds -> Seq(Seq(Nat))]
        BY ZenonT(30) DEF WatchInv, ChannelInv
  <2> HIDE DEF k, q
  <2> QED BY <1>1, <1>2, <1>4, <2>1, UpdatedChannels, ZenonT(30)
<1>6. Due(published', providerMu', publisher', unsent', k, c) = published[k]
      BY <1>1, ZenonT(30) DEF Due
<1>7. \A j \in Kinds : \A d : (j # k \/ d # c) => Due(published', providerMu', publisher', unsent', j, d) = DueNow(j, d)
      BY <1>1, <1>2 DEF Due, DueNow
<1> HIDE DEF q
<1>8. LockInv'
      BY <1>1, <1>2, <1>5, ZenonT(30) DEF WatchInv, LockInv
<1>9. CountInv' /\ MarkInv'
      BY <1>1, ZenonT(30) DEF WatchInv, CountInv, MarkInv, health, PoisonedIsClosed
<1> HIDE DEF k
<1>10. ChannelInv'
  <2> SUFFICES ASSUME NEW j \in Kinds, NEW d \in 1..Len(channels[j])
               PROVE  Holds(channels'[j][d], Due(published', providerMu', publisher', unsent', j, d))
      BY <1>5, Zenon DEF ChannelInv
  <2>1. CASE j = k /\ d = c
        BY <1>4, <1>5, <1>6, <2>1, ZenonT(30)
  <2>2. CASE j # k \/ d # c
        BY <1>5, <1>7, <2>2 DEF WatchInv, ChannelInv, DueNow
  <2> QED BY <2>1, <2>2
<1>11. LoopInv'
  <2>1. ASSUME NEW j \in Kinds
        PROVE seen[j] = Due(published', providerMu', publisher', unsent', j, stream[j]) - Len(channels'[j][stream[j]])
    <3>1. stream[j] \in 1..Len(channels[j]) /\ seen[j] = DueNow(j, stream[j]) - Len(channels[j][stream[j]])
          BY ZenonT(30) DEF WatchInv, LoopInv, DueNow
    <3>2. CASE j = k /\ stream[j] = c
      <4>1. seen[j] = published[k] - 1 - Len(q)
            BY <1>3, <3>1, <3>2 DEF q
      <4>2. Len(q) \in Nat
            BY <1>3, SMTT(30)
      <4>3. Due(published', providerMu', publisher', unsent', j, stream[j]) = published[k]
            BY <1>6, <3>2, ZenonT(30)
      <4>4. Len(channels'[j][stream[j]]) = Len(q) + 1
            BY <1>4, <1>5, <3>2
      <4>5. published[k] \in Nat
            BY <1>2, ZenonT(30)
      <4> QED BY <4>1, <4>2, <4>3, <4>4, <4>5, SMTT(30)
    <3>3. CASE j # k \/ stream[j] # c
          BY <1>5, <1>7, <3>1, <3>3
    <3> QED BY <3>2, <3>3
  <2> QED BY <1>1, <1>5, <2>1, ZenonT(30) DEF WatchInv, LoopInv
<1> QED BY <1>8, <1>9, <1>10, <1>11, ZenonT(30) DEF WatchInv

LEMMA ReceivedEvent ==
  ASSUME WatchInv, NEW k \in Kinds, Receive(k)
  PROVE  /\ seen' = [seen EXCEPT ![k] = seen[k] + 1]
         /\ Holds(Tail(channels[k][stream[k]]), DueNow(k, stream[k]))
         /\ Len(Tail(channels[k][stream[k]])) = Len(channels[k][stream[k]]) - 1
         /\ channels[k][stream[k]] \in Seq(Nat) /\ Len(channels[k][stream[k]]) > 0
<1> DEFINE q == channels[k][stream[k]]
           n == DueNow(k, stream[k])
<1>1. stream[k] \in 1..Len(channels[k]) /\ q \in Seq(Nat) /\ q # <<>> /\ seen' = [seen EXCEPT ![k] = Head(q)]
      BY SMTT(30) DEF WatchInv, ChannelInv, LoopInv, Receive
<1>2. Holds(q, n) /\ seen[k] = n - Len(q) /\ n \in Int
      BY <1>1, SMTT(30) DEF WatchInv, ChannelInv, LoopInv, DueNow, Due, CountInv
<1> HIDE DEF q, n
<1>3. Len(q) \in Nat /\ Len(q) > 0 /\ Head(q) = q[1] /\ Tail(q) \in Seq(Nat) /\ Len(Tail(q)) = Len(q) - 1
      /\ \A i \in 1..(Len(q) - 1) : Tail(q)[i] = q[i + 1]
      BY <1>1
<1>4. q[1] = seen[k] + 1
      BY <1>2, <1>3 DEF Holds
<1>5. \A i \in 1..(Len(q) - 1) : q[i + 1] = n - Len(q) + (i + 1)
      BY <1>2, <1>3 DEF Holds
<1>6. \A i \in 1..(Len(q) - 1) : Tail(q)[i] = n - (Len(q) - 1) + i
      BY <1>2, <1>3, <1>5
<1>7. Holds(Tail(q), n)
  <2>1. Len(q) - 1 <= n /\ Len(q) - 1 <= Capacity
        BY <1>2, <1>3, WatchAssumption DEF Holds, Capacity
  <2> QED BY <1>3, <1>6, <2>1 DEF Holds
<1> QED BY <1>1, <1>3, <1>4, <1>7, ZenonT(30) DEF q, n

LEMMA ReceivePreserves == ASSUME WatchInv, NEW k \in Kinds, Receive(k) PROVE WatchInv'
<1> DEFINE c == stream[k]
           q == channels[k][c]
           rest == Tail(q)
<1>1. /\ channels' = Update(channels, k, c, rest) /\ c \in 1..Len(channels[k])
      /\ UNCHANGED <<providerMu, published, malformed, publisher, unsent, planMu, stream, health>>
      BY ZenonT(30) DEF Receive, Update, provider, WatchInv, LoopInv
<1>2. /\ seen' = [seen EXCEPT ![k] = seen[k] + 1] /\ Holds(rest, DueNow(k, c)) /\ rest \in Seq(Nat)
      /\ Len(rest) = Len(q) - 1 /\ Len(q) \in Nat
      BY ReceivedEvent, SMTT(30) DEF Holds
<1>3. seen[k] = DueNow(k, c) - Len(q) /\ DueNow(k, c) \in Int /\ seen \in [Kinds -> Nat]
      BY SMTT(30) DEF WatchInv, LoopInv, DueNow, Due, CountInv
<1>4. /\ channels' \in [Kinds -> Seq(Seq(Nat))] /\ channels'[k][c] = rest
      /\ \A j \in Kinds : Len(channels'[j]) = Len(channels[j])
      /\ \A j \in Kinds : \A d \in 1..Len(channels[j]) : (j # k \/ d # c) => channels'[j][d] = channels[j][d]
  <2>1. channels \in [Kinds -> Seq(Seq(Nat))]
        BY DEF WatchInv, ChannelInv
  <2> HIDE DEF c, q, rest
  <2> QED BY <1>1, <1>2, <2>1, UpdatedChannels, ZenonT(30)
<1>5. \A j \in Kinds : \A d : Due(published', providerMu', publisher', unsent', j, d) = DueNow(j, d)
      BY <1>1 DEF Due, DueNow
<1>6. LockInv'
      BY <1>1, <1>4, ZenonT(30) DEF WatchInv, LockInv
<1>7. CountInv' /\ MarkInv'
      BY <1>1, ZenonT(30) DEF WatchInv, CountInv, MarkInv, health, PoisonedIsClosed
<1> HIDE DEF rest, q
<1>8. ChannelInv'
  <2> SUFFICES ASSUME NEW j \in Kinds, NEW d \in 1..Len(channels[j])
               PROVE  Holds(channels'[j][d], Due(published', providerMu', publisher', unsent', j, d))
      BY <1>4, Zenon DEF ChannelInv
  <2>1. CASE j = k /\ d = c
        BY <1>2, <1>4, <1>5, <2>1, ZenonT(30)
  <2>2. CASE j # k \/ d # c
        BY <1>4, <1>5, <2>2 DEF WatchInv, ChannelInv, DueNow
  <2> QED BY <2>1, <2>2
<1>9. LoopInv'
  <2>1. ASSUME NEW j \in Kinds PROVE seen'[j] = DueNow(j, stream[j]) - Len(channels'[j][stream[j]])
    <3>1. CASE j = k
      <4>1. seen'[j] = seen[k] + 1 /\ Len(channels'[j][stream[j]]) = Len(q) - 1
            BY <1>2, <1>3, <1>4, <3>1, ZenonT(30)
      <4> QED BY <1>2, <1>3, <3>1, <4>1
    <3>2. CASE j # k
      <4>1. stream[j] \in 1..Len(channels[j]) /\ seen[j] = DueNow(j, stream[j]) - Len(channels[j][stream[j]])
            BY DEF WatchInv, LoopInv, DueNow
      <4> QED BY <1>2, <1>3, <1>4, <3>2, <4>1, ZenonT(30)
    <3> QED BY <3>1, <3>2
  <2>2. seen' \in [Kinds -> Nat]
        BY <1>2, <1>3
  <2> QED BY <1>1, <1>4, <1>5, <2>1, <2>2, ZenonT(30) DEF WatchInv, LoopInv
<1> QED BY <1>6, <1>7, <1>8, <1>9 DEF WatchInv

LEMMA ReopenPreserves == ASSUME WatchInv, NEW k \in Kinds, Reopen(k) PROVE WatchInv' /\ stream'[k] # stream[k]
<1> DEFINE row == Append(channels[k], Replayed(k))
           n == Len(channels[k]) + 1
<1>1. /\ providerMu = "free" /\ channels' = [channels EXCEPT ![k] = row] /\ stream' = [stream EXCEPT ![k] = n]
      /\ seen' = [seen EXCEPT ![k] = Oldest(k) - 1]
      /\ UNCHANGED <<providerMu, published, malformed, publisher, unsent, planMu, poisoned>>
      BY DEF Reopen, provider
<1>2. healthy' = SetHealthy(k) /\ live' = live \cup {k}
      BY DEF Reopen
<1>3. /\ published[k] \in Nat /\ channels \in [Kinds -> Seq(Seq(Nat))]
      /\ stream \in [Kinds -> Nat] /\ seen \in [Kinds -> Nat] /\ stream[k] \in 1..Len(channels[k])
      BY DEF WatchInv, CountInv, ChannelInv, LoopInv
<1>4. /\ Holds(Replayed(k), published[k]) /\ Replayed(k) \in Seq(Nat)
      /\ Oldest(k) - 1 = published[k] - Len(Replayed(k)) /\ Oldest(k) - 1 \in Nat
      BY <1>3, ReplayedHolds, ZenonT(30) DEF Holds
<1>5. /\ row \in Seq(Seq(Nat)) /\ Len(row) = n /\ n \in Nat /\ n # stream[k] /\ row[n] = Replayed(k)
      /\ \A d \in 1..Len(channels[k]) : row[d] = channels[k][d]
      BY <1>3, <1>4, SMTT(30)
<1>6. \A d \in 1..n : d \in 1..Len(channels[k]) \/ d = n
      BY <1>3
<1> HIDE DEF row, n
<1>7. channels' \in [Kinds -> Seq(Seq(Nat))] /\ channels'[k] = row /\ \A j \in Kinds \ {k} : channels'[j] = channels[j]
      BY <1>1, <1>3, <1>5, ZenonT(30)
<1>8. \A j \in Kinds : \A d : /\ Due(published', providerMu', publisher', unsent', j, d) = published[j]
                              /\ DueNow(j, d) = published[j]
      BY <1>1 DEF Due, DueNow
<1>9. LockInv' /\ CountInv'
      BY <1>1 DEF WatchInv, LockInv, CountInv
<1>10. MarkInv'
      BY <1>1, <1>2 DEF WatchInv, MarkInv, PoisonedIsClosed, SetHealthy
<1>11. ChannelInv'
  <2> SUFFICES ASSUME NEW j \in Kinds, NEW d \in 1..Len(channels'[j])
               PROVE  Holds(channels'[j][d], published[j])
      BY <1>7, <1>8, Zenon DEF ChannelInv
  <2>1. CASE j # k
        BY <1>7, <1>8, <2>1 DEF WatchInv, ChannelInv, DueNow
  <2>2. CASE j = k
    <3>1. CASE d = n
          BY <1>4, <1>5, <1>7, <2>2, <3>1
    <3>2. CASE d \in 1..Len(channels[k])
          BY <1>5, <1>7, <1>8, <2>2, <3>2, ZenonT(30) DEF WatchInv, ChannelInv, DueNow
    <3> QED BY <1>5, <1>6, <1>7, <2>2, <3>1, <3>2, ZenonT(30)
  <2> QED BY <2>1, <2>2
<1>12. LoopInv'
  <2>1. stream' \in [Kinds -> Nat] /\ seen' \in [Kinds -> Nat]
        BY <1>1, <1>3, <1>4, <1>5, ZenonT(30)
  <2>2. ASSUME NEW j \in Kinds
        PROVE stream'[j] \in 1..Len(channels'[j]) /\ seen'[j] = published[j] - Len(channels'[j][stream'[j]])
    <3>1. CASE j = k
      <4>1. stream'[j] = n /\ seen'[j] = Oldest(k) - 1 /\ n \in 1..n
            BY <1>1, <1>3, <1>5, <3>1, SMTT(30) DEF n
      <4> QED BY <1>4, <1>5, <1>7, <3>1, <4>1, ZenonT(30)
    <3>2. CASE j # k
      <4>1. stream'[j] = stream[j] /\ seen'[j] = seen[j] /\ channels'[j] = channels[j]
            BY <1>1, <1>3, <1>7, <3>2, ZenonT(30)
      <4> QED BY <1>8, <4>1 DEF WatchInv, LoopInv, DueNow
    <3> QED BY <3>1, <3>2, ZenonT(30)
  <2> QED BY <1>8, <2>1, <2>2 DEF LoopInv
<1> QED BY <1>1, <1>3, <1>5, <1>9, <1>10, <1>11, <1>12 DEF WatchInv

-----------------------------------------------------------------------------
(* The other steps of the loops and the workers leave the streams alone. *)

LEMMA QuietStep ==
  ASSUME WatchInv, UNCHANGED <<provider, channels, stream, seen>>, MarkInv' PROVE WatchInv'
<1>1. UNCHANGED <<providerMu, published, malformed, publisher, unsent, channels, stream, seen>>
      BY DEF provider
<1> QED BY <1>1, ZenonT(30) DEF WatchInv, LockInv, CountInv, ChannelInv, LoopInv

LEMMA LoopPreserves == ASSUME WatchInv, NEW k \in Kinds, WatchLoop(k) PROVE WatchInv'
<1>1. CASE Receive(k) \/ Reopen(k)
      BY <1>1, ReceivePreserves, ReopenPreserves
<1>2. CASE ~(Receive(k) \/ Reopen(k))
  <2>1. UNCHANGED <<provider, channels, stream, seen, planMu>>
        BY <1>2, ZenonT(30) DEF WatchLoop, Apply, Applied, Disconnect, Resync, ResyncFails
  <2>2. \/ UNCHANGED <<healthy, poisoned, live>>
        \/ healthy' = healthy \cup {k} /\ poisoned' = poisoned \ {k} /\ live' = live \cup {k}
        \/ healthy' = healthy \ {k} /\ poisoned' = poisoned \cup {k} /\ live' = live \ {k}
        \/ healthy' = healthy \ {k} /\ UNCHANGED <<poisoned, live>>
        BY <1>2 DEF WatchLoop, Apply, Applied, Disconnect, Resync, ResyncFails, health
  <2>3. published' = published /\ malformed' = malformed
        BY <2>1 DEF provider
  <2>4. MarkInv'
        BY <2>1, <2>2, <2>3 DEF WatchInv, MarkInv, PoisonedIsClosed
  <2> QED BY <2>1, <2>4, QuietStep, ZenonT(30)
<1> QED BY <1>1, <1>2

LEMMA WorkerPreserves == ASSUME WatchInv, NEW w \in Workers, Working(w) PROVE WatchInv'
<1>1. planMu' \in {w, "free"} /\ UNCHANGED <<provider, channels, stream, seen, health>>
      BY DEF Working, LockPlan, CheckHealth
<1>2. MarkInv'
      BY <1>1 DEF WatchInv, MarkInv, PoisonedIsClosed, provider, health
<1> QED BY <1>1, <1>2, QuietStep

LEMMA WatchInvStep == WatchInv /\ [Next]_vars => WatchInv'
<1> SUFFICES ASSUME WatchInv, [Next]_vars PROVE WatchInv'
    OBVIOUS
<1>1. CASE UNCHANGED vars
  <2>1. UNCHANGED <<provider, channels, stream, seen, planMu, healthy, poisoned, live, published, malformed>>
        BY <1>1 DEF vars, provider, health
  <2>2. MarkInv'
        BY <2>1 DEF WatchInv, MarkInv, PoisonedIsClosed
  <2> QED BY <2>1, <2>2, QuietStep
<1>2. ASSUME NEW p \in Publishers, (\E bad \in BOOLEAN : Publish(p, bad)) \/ Publishing(p) PROVE WatchInv'
      BY <1>2, PublishPreserves, SendPreserves, SnapshotPreserves, PublishedPreserves, ReturnsPreserves DEF Publishing
<1>3. CASE \E k \in Kinds : WatchLoop(k)
      BY <1>3, LoopPreserves
<1>4. CASE \E w \in Workers : Working(w)
      BY <1>4, WorkerPreserves
<1> QED BY <1>1, <1>2, <1>3, <1>4 DEF Next

(* The exact contents of every subscribed channel, and where its loop stands. *)
THEOREM WatchInvariant == Spec => []WatchInv
BY WatchInit, WatchInvStep, PTL DEF Spec

(* A watch poisoned by an event it could not apply is unhealthy until a later  *)
(* event is applied, whatever the reconnects do (setProviderWatchHealthy).     *)
THEOREM PoisonedAlwaysClosed == Spec => []PoisonedIsClosed
<1>1. WatchInv => PoisonedIsClosed
      BY DEF WatchInv, MarkInv
<1> QED BY <1>1, WatchInvariant, PTL

(* Between two reconnects a loop takes every event of the provider, in order:  *)
(* publishSandboxEventLocked blocks rather than drop, and WatchSandboxes       *)
(* replays what is retained before it subscribes, under the same mutex.        *)
THEOREM StreamAlwaysContiguous == Spec => StreamContiguous
<1> DEFINE Contiguous == \A k \in Kinds : stream'[k] = stream[k] => seen'[k] \in {seen[k], seen[k] + 1}
<1>1. WatchInv /\ [Next]_vars => [Contiguous]_vars
  <2> SUFFICES ASSUME WatchInv, Next PROVE Contiguous
      OBVIOUS
  <2>0. seen \in [Kinds -> Nat]
        BY DEF WatchInv, LoopInv
  <2>1. ASSUME NEW p \in Publishers, (\E bad \in BOOLEAN : Publish(p, bad)) \/ Publishing(p) PROVE Contiguous
    <3>1. seen' = seen
          BY <2>1, ZenonT(30) DEF Publishing, Publish, Send, PublishSnapshot, Published, ObserveReturns
    <3> QED BY <3>1
  <2>2. ASSUME NEW k \in Kinds, WatchLoop(k) PROVE Contiguous
    <3>1. CASE Receive(k)
      <4>1. seen' = [seen EXCEPT ![k] = seen[k] + 1]
            BY <3>1, ReceivedEvent, ZenonT(30)
      <4> QED BY <2>0, <4>1, ZenonT(30)
    <3>2. CASE Reopen(k)
      <4>1. stream'[k] # stream[k] /\ seen' = [seen EXCEPT ![k] = Oldest(k) - 1]
            BY <3>2, ReopenPreserves, Zenon DEF Reopen
      <4> QED BY <2>0, <4>1
    <3>3. CASE ~(Receive(k) \/ Reopen(k))
      <4>1. seen' = seen
            BY <2>2, <3>3, ZenonT(30) DEF WatchLoop, Apply, Applied, Disconnect, Resync, ResyncFails
      <4> QED BY <4>1, ZenonT(30)
    <3> QED BY <3>1, <3>2, <3>3, ZenonT(30)
  <2>3. ASSUME NEW w \in Workers, Working(w) PROVE Contiguous
    <3>1. seen' = seen
          BY <2>3 DEF Working, LockPlan, CheckHealth
    <3> QED BY <3>1, ZenonT(30)
  <2> QED BY <2>1, <2>2, <2>3 DEF Next
<1> QED BY <1>1, WatchInvariant, PTL DEF Spec, StreamContiguous

(* The watch's state keeps its types: no channel exceeds its buffer, and every *)
(* event in one has been published.                                            *)
THEOREM WatchTypeCorrect == Spec => []WatchTypeOK
<1>1. ASSUME WatchInv PROVE WatchTypeOK
  <2>1. ASSUME NEW k \in Kinds, NEW c \in 1..Len(channels[k])
        PROVE  Len(channels[k][c]) <= Capacity /\ Range(channels[k][c]) \subseteq 1..published[k]
    <3> DEFINE q == channels[k][c]
               n == DueNow(k, c)
    <3>1. q \in Seq(Nat) /\ Holds(q, n) /\ n \in Int /\ n <= published[k] /\ published[k] \in Nat
          BY <1>1 DEF WatchInv, ChannelInv, CountInv, DueNow, Due
    <3> HIDE DEF q, n
    <3>2. ASSUME NEW i \in 1..Len(q) PROVE q[i] \in 1..published[k]
      <4>1. q[i] = n - Len(q) + i /\ Len(q) <= n /\ Len(q) \in Nat
            BY <3>1 DEF Holds
      <4> QED BY <3>1, <4>1, SMTT(30)
    <3>3. DOMAIN q = 1..Len(q)
          BY <3>1
    <3>4. Range(q) \subseteq 1..published[k]
          BY <3>2, <3>3, ZenonT(30) DEF Range
    <3> QED BY <3>1, <3>4, ZenonT(30) DEF Holds, q
  <2>2. ASSUME NEW k \in Kinds PROVE stream[k] \in 1..Len(channels[k]) /\ seen[k] \in 0..published[k]
    <3> DEFINE c == stream[k]
    <3>1. c \in 1..Len(channels[k]) /\ seen[k] = DueNow(k, c) - Len(channels[k][c]) /\ seen[k] \in Nat
          BY <1>1, ZenonT(30) DEF WatchInv, LoopInv, DueNow
    <3>2. DueNow(k, c) \in Int /\ DueNow(k, c) <= published[k] /\ Len(channels[k][c]) \in Nat /\ published[k] \in Nat
          BY <1>1, <3>1, SMTT(30) DEF WatchInv, ChannelInv, CountInv, DueNow, Due
    <3> QED BY <3>1, <3>2, SMTT(30)
  <2> QED BY <1>1, <2>1, <2>2, ZenonT(30) DEF WatchInv, LockInv, CountInv, MarkInv, WatchTypeOK
<1> QED BY <1>1, WatchInvariant, PTL
-----------------------------------------------------------------------------
(* The managed worker and its registry *)

WkActions == {"prepare_pause", "pause", "sleep", "checkpoint", "offload", "reload", "resume", "stop"}
WkLifecycle == WkActions \ {"prepare_pause"}
Observations == [st : {"running", "paused", "sleeping", "terminated", "failed"},
                 safe : BOOLEAN, off : BOOLEAN, ckpt : BOOLEAN, ready : BOOLEAN]
BootRecords == [phase : {"absent", "launched", "authorized", "registered", "reporting", "gone"},
                alive : BOOLEAN, obs : Observations, verdict : WkTerminal, left : Int,
                acked : {"no", "yes", "excused"}]
WorkerRecords == [inc : WkIncarnations \cup {Nobody}, obs : Observations,
                  last : WkLifecycle \cup {NoOp}, exit : BOOLEAN]
ReceiptRecords == [op : WkLifecycle \cup {NoOp}, gen : Nat, done : BOOLEAN, ok : BOOLEAN]
CallRecords == [pc : {"idle", "refresh", "reconcile", "begin", "verify", "call", "fail", "done"},
                op : WkOps \cup {"status", NoOp}, key : WkKeys \cup {NoOp}, seen : WorkerRecords,
                head : WkKeys \cup {NoOp}, calls : Seq(WkActions), at : Nat]

(* The registry's types. *)
WkTypeOK ==
  /\ wkBoots \in [WkIncarnations -> BootRecords] /\ wkWorker \in WorkerRecords
  /\ wkReceipts \in [WkKeys -> ReceiptRecords] /\ wkHead \in WkKeys \cup {NoOp}
  /\ wkCalls \in [WkProcs -> CallRecords]

(* The pending or last operation was begun for the registered worker, and is  *)
(* counted as reached as soon as that worker is in the state it promises.     *)
HeadOK(boots, known, receipts, head, reached) ==
  head # NoOp =>
    /\ known.inc \in WkIncarnations /\ receipts[head].op # NoOp
    /\ receipts[head].gen = WkGeneration[known.inc]
    /\ Promised(receipts[head].op, boots[known.inc].obs) => head \in reached
HeadInv == HeadOK(wkBoots, wkWorker, wkReceipts, wkHead, wkReached)

(* What a handler has read of a worker is of the registered incarnation, or   *)
(* of one of an older generation.                                             *)
Precedes(s, w) == s.inc = w.inc \/ GenOfWorker(s) < GenOfWorker(w)

(* A handler's progress: the status it read shows an operation's target only  *)
(* if the operation has reached it; its own operation is the one recorded     *)
(* under its key; the last remote call is the operation itself; and after     *)
(* that call the operation, while it is still the head, has been reached.     *)
CallOK(c, known, receipts, head, reached) ==
  c.pc # "idle" =>
    /\ c.seen.inc \in WkIncarnations /\ Precedes(c.seen, known) /\ c.key \in WkKeys
    /\ c.pc \in {"refresh", "reconcile", "begin"} => c.at = 1
    /\ c.pc \in {"refresh", "reconcile"} /\ c.head # NoOp =>
         /\ receipts[c.head].op # NoOp
         /\ LifecycleObserved(receipts[c.head].op, c.seen.obs) => c.head \in reached
    /\ c.pc \in {"verify", "call", "fail", "done"} =>
         /\ c.op \in WkLifecycle /\ receipts[c.key].op = c.op
         /\ receipts[c.key].gen = WkGeneration[c.seen.inc]
    /\ c.pc \in {"verify", "call"} => c.at \in 1..Len(c.calls) /\ c.calls[Len(c.calls)] = c.op
    /\ c.pc = "done" /\ head = c.key => c.key \in reached
CallsInv == \A p \in WkProcs : CallOK(wkCalls[p], wkWorker, wkReceipts, wkHead, wkReached)

WkInv == WkTypeOK /\ HeadInv /\ CallsInv /\ SucceededIsReal /\ AckedEndIsPublished

(* Remote actions keep observations well-formed, and an operation's own       *)
(* action brings the worker into the state the operation promises.            *)
LEMMA EffectFacts ==
  ASSUME NEW o \in Observations, NEW a \in WkActions
  PROVE  Effect(o, a) \in Observations /\ (a \in WkLifecycle => Promised(a, Effect(o, a)))
<1>1. CASE a = "prepare_pause"
      BY <1>1, Zenon DEF Effect, Observations, WkLifecycle
<1>2. CASE a \in {"pause", "sleep"}
      BY <1>2, Zenon DEF Effect, Observations, Promised
<1>3. CASE a \in {"checkpoint", "offload"}
      BY <1>3, Zenon DEF Effect, Observations, Promised
<1>4. CASE a \in {"reload", "resume"}
      BY <1>4, Zenon DEF Effect, Observations, Promised
<1>5. CASE a = "stop"
      BY <1>5, Zenon DEF Effect, Observations, Promised
<1> QED BY <1>1, <1>2, <1>3, <1>4, <1>5, ZenonT(30) DEF WkActions

(* lifecycleObserved: a status that shows an operation's target shows the     *)
(* state it promises, and shows no ended worker.                              *)
LEMMA ObservedIsPromised ==
  ASSUME NEW op, NEW o, LifecycleObserved(op, o)
  PROVE  op \in WkLifecycle /\ Promised(op, o) /\ o.st \notin WkTerminal
BY ZenonT(30) DEF LifecycleObserved, Promised, WkLifecycle, WkActions, WkTerminal

(* Controller.apply: the last remote call of an operation is the operation. *)
LEMMA LastCallIsOperation ==
  ASSUME NEW op \in WkLifecycle, NEW o
  PROVE  /\ CallsOf(op, o) \in Seq(WkActions) /\ 1 \in 1..Len(CallsOf(op, o))
         /\ CallsOf(op, o)[Len(CallsOf(op, o))] = op
<1>0. ASSUME NEW B \in BOOLEAN, NEW a \in {"prepare_pause", "checkpoint", "reload"}
      PROVE  (IF B THEN <<a>> ELSE <<>>) \in Seq(WkActions)
  <2>1. a \in WkActions
        BY ZenonT(30) DEF WkActions
  <2>2. <<a>> \in Seq(WkActions) /\ <<>> \in Seq(WkActions)
        BY <2>1
  <2> QED BY <2>2, ZenonT(30)
<1>1. CASE op \in {"pause", "sleep"}
  <2>1. CallsOf(op, o) = <<"prepare_pause", op>>
        BY <1>1, ZenonT(30) DEF CallsOf
  <2> QED BY <2>1 DEF WkActions, WkLifecycle
<1>2. CASE op = "offload"
  <2> DEFINE first == IF o.st = "running" \/ ~o.safe THEN <<"prepare_pause">> ELSE <<>>
             second == IF ~o.ckpt THEN <<"checkpoint">> ELSE <<>>
  <2>1. first \in Seq(WkActions) /\ second \in Seq(WkActions)
        BY <1>0, Zenon
  <2>2. CallsOf(op, o) = (first \o second) \o <<"offload">>
        BY <1>2, ZenonT(30) DEF CallsOf
  <2> HIDE DEF first, second
  <2>3. first \o second \in Seq(WkActions) /\ Len(first \o second) \in Nat
        BY <2>1
  <2> DEFINE lead == first \o second
  <2>4. lead \in Seq(WkActions) /\ CallsOf(op, o) = lead \o <<"offload">>
        BY <2>2, <2>3, ZenonT(30)
  <2> HIDE DEF lead
  <2> QED BY <1>2, <2>4, SMTT(30) DEF WkActions
<1>3. CASE op = "resume"
  <2> DEFINE lead == IF o.off THEN <<"reload">> ELSE <<>>
  <2>1. lead \in Seq(WkActions)
        BY <1>0, Zenon
  <2>2. CallsOf(op, o) = lead \o <<"resume">>
        BY <1>3, ZenonT(30) DEF CallsOf
  <2> HIDE DEF lead
  <2> QED BY <1>3, <2>1, <2>2, SMTT(30) DEF WkActions
<1>4. CASE op \notin {"pause", "sleep", "offload", "resume"}
  <2>1. CallsOf(op, o) = <<op>>
        BY <1>4, ZenonT(30) DEF CallsOf
  <2> QED BY <2>1 DEF WkLifecycle
<1> QED BY <1>1, <1>2, <1>3, <1>4, ZenonT(30)

(* How the state file moves on: a receipt keeps its operation and generation, *)
(* the head stays, is cleared, or becomes a key without a receipt.            *)
KeepsReceipts(before, after) ==
  \A k \in WkKeys : before[k].op # NoOp => after[k].op = before[k].op /\ after[k].gen = before[k].gen
MovesHead(before, after, receipts) ==
  after = before \/ after = NoOp \/ receipts[after].op = NoOp

LEMMA GenerationsAreNatural ==
  ASSUME NEW w \in WorkerRecords
  PROVE  /\ GenOfWorker(w) \in Nat /\ (GenOfWorker(w) = 0 <=> w.inc = Nobody)
         /\ w.inc \in WkIncarnations => GenOfWorker(w) = WkGeneration[w.inc]
BY WkGenerations, WkAssumption, ZenonT(30) DEF GenOfWorker, WorkerRecords, Nobody

(* A worker record precedes what follows its successor, and one of its own    *)
(* generation only if it is of the same incarnation.                          *)
LEMMA PrecedesOrder ==
  ASSUME NEW s \in WorkerRecords, NEW w \in WorkerRecords, Precedes(s, w)
  PROVE  /\ \A w2 \in WorkerRecords : Precedes(w, w2) => Precedes(s, w2)
         /\ GenOfWorker(s) = GenOfWorker(w) => s.inc = w.inc
<1>1. \A v \in WorkerRecords : GenOfWorker(v) \in Nat
      BY GenerationsAreNatural, Zenon
<1>2. \A u, v \in WorkerRecords : u.inc = v.inc => GenOfWorker(u) = GenOfWorker(v)
      BY Zenon DEF GenOfWorker
<1> QED BY <1>1, <1>2, SMT DEF Precedes

(* What is true of a handler stays true when the state file moves on. *)
LEMMA CallKept ==
  ASSUME NEW c \in CallRecords, NEW w \in WorkerRecords, NEW w2 \in WorkerRecords,
         NEW r \in [WkKeys -> ReceiptRecords], NEW r2 \in [WkKeys -> ReceiptRecords],
         NEW h, NEW h2, NEW x, NEW x2,
         CallOK(c, w, r, h, x), Precedes(w, w2), KeepsReceipts(r, r2), MovesHead(h, h2, r), x \subseteq x2
  PROVE  CallOK(c, w2, r2, h2, x2)
<1> SUFFICES ASSUME c.pc # "idle" PROVE CallOK(c, w2, r2, h2, x2)
    BY ZenonT(30) DEF CallOK
<1>1. c.seen \in WorkerRecords /\ c.head \in WkKeys \cup {NoOp} /\ c.seen.inc \in WkIncarnations /\ c.key \in WkKeys
      BY ZenonT(30) DEF CallRecords, CallOK
<1>2. Precedes(c.seen, w2)
  <2>1. Precedes(c.seen, w)
        BY ZenonT(30) DEF CallOK
  <2> QED BY <1>1, <2>1, PrecedesOrder, ZenonT(30)
<1>3. /\ c.pc \in {"refresh", "reconcile"} /\ c.head # NoOp =>
         /\ r2[c.head].op # NoOp
         /\ LifecycleObserved(r2[c.head].op, c.seen.obs) => c.head \in x2
  <2> SUFFICES ASSUME c.pc \in {"refresh", "reconcile"}, c.head # NoOp
               PROVE  /\ r2[c.head].op # NoOp
                      /\ LifecycleObserved(r2[c.head].op, c.seen.obs) => c.head \in x2
      BY ZenonT(30)
  <2>1. r[c.head].op # NoOp /\ (LifecycleObserved(r[c.head].op, c.seen.obs) => c.head \in x)
        BY ZenonT(30) DEF CallOK
  <2>2. r2[c.head].op = r[c.head].op
        BY <1>1, <2>1, ZenonT(30) DEF KeepsReceipts
  <2> QED BY <2>1, <2>2, ZenonT(30)
<1>4. c.pc \in {"verify", "call", "fail", "done"} =>
         /\ c.op \in WkLifecycle /\ r[c.key].op = c.op /\ r[c.key].op # NoOp
         /\ r[c.key].gen = WkGeneration[c.seen.inc]
      BY ZenonT(30) DEF CallOK, WkLifecycle, WkActions, NoOp
<1>5. c.pc \in {"verify", "call", "fail", "done"} =>
         /\ c.op \in WkLifecycle /\ r2[c.key].op = c.op /\ r2[c.key].gen = WkGeneration[c.seen.inc]
      BY <1>1, <1>4, ZenonT(30) DEF KeepsReceipts
<1>6. c.pc = "done" /\ h2 = c.key => c.key \in x2
  <2> SUFFICES ASSUME c.pc = "done", h2 = c.key PROVE c.key \in x2
      BY ZenonT(30)
  <2>1. h2 = h
        BY <1>1, <1>4, WkAssumption, ZenonT(30) DEF MovesHead
  <2> QED BY <2>1, ZenonT(30) DEF CallOK
<1>7. c.pc \in {"refresh", "reconcile", "begin"} => c.at = 1
      BY ZenonT(30) DEF CallOK
<1>8. c.pc \in {"verify", "call"} => c.at \in 1..Len(c.calls) /\ c.calls[Len(c.calls)] = c.op
      BY ZenonT(30) DEF CallOK
<1>9. c.seen.inc \in WkIncarnations /\ c.key \in WkKeys
      BY <1>1, ZenonT(30)
<1> QED BY <1>2, <1>3, <1>5, <1>6, <1>7, <1>8, <1>9, ZenonT(30) DEF CallOK

(* So a step that moves the state file on has only to account for the handler *)
(* that takes it.                                                             *)
LEMMA OtherHandlersKept ==
  ASSUME WkTypeOK, CallsInv, WkTypeOK',
         Precedes(wkWorker, wkWorker'), KeepsReceipts(wkReceipts, wkReceipts'),
         MovesHead(wkHead, wkHead', wkReceipts), wkReached \subseteq wkReached',
         \A q \in WkProcs : \/ wkCalls'[q] = wkCalls[q]
                            \/ CallOK(wkCalls'[q], wkWorker', wkReceipts', wkHead', wkReached')
  PROVE  CallsInv'
<1> SUFFICES ASSUME NEW q \in WkProcs, wkCalls'[q] = wkCalls[q]
             PROVE  CallOK(wkCalls[q], wkWorker', wkReceipts', wkHead', wkReached')
    BY ZenonT(30) DEF CallsInv
<1>1. wkCalls[q] \in CallRecords /\ CallOK(wkCalls[q], wkWorker, wkReceipts, wkHead, wkReached)
      BY ZenonT(30) DEF WkTypeOK, CallsInv
<1>2. /\ wkWorker \in WorkerRecords /\ wkWorker' \in WorkerRecords
      /\ wkReceipts \in [WkKeys -> ReceiptRecords] /\ wkReceipts' \in [WkKeys -> ReceiptRecords]
      BY ZenonT(30) DEF WkTypeOK
<1> QED BY <1>1, <1>2, CallKept, ZenonT(30)

(* A bootstrap's own progress changes neither what its worker shows nor,      *)
(* except for an acknowledged report, what was acknowledged.                  *)
LEMMA BootKeeps ==
  ASSUME WkInv, wkBoots' \in [WkIncarnations -> BootRecords],
         \A i \in WkIncarnations : /\ wkBoots'[i].obs = wkBoots[i].obs
                                   /\ wkBoots'[i].acked = "yes" => wkBoots[i].acked = "yes",
         UNCHANGED <<storeVars, wkPublished, wkReached>>,
         wkCalls' = wkCalls \/ wkCalls' = [p \in WkProcs |-> NoCall]
  PROVE  WkInv'
<1>1. UNCHANGED <<wkWorker, wkReceipts, wkHead, wkPublished, wkReached>>
      BY ZenonT(30) DEF storeVars
<1>2. NoCall \in CallRecords
      BY DEF NoCall, CallRecords, NoWorker, WorkerRecords, Observations, Fresh, Nobody, NoOp
<1>3. WkTypeOK'
      BY <1>1, <1>2, ZenonT(30) DEF WkInv, WkTypeOK
<1>4. CallsInv'
  <2>1. \A w, r, h, x : CallOK(NoCall, w, r, h, x)
        BY BlankCall, ZenonT(30) DEF CallOK
  <2> QED BY <1>1, <2>1, ZenonT(30) DEF WkInv, CallsInv
<1>5. HeadInv'
      BY <1>1, ZenonT(30) DEF WkInv, HeadInv, HeadOK
<1>6. SucceededIsReal' /\ AckedEndIsPublished'
      BY <1>1, ZenonT(30) DEF WkInv, SucceededIsReal, AckedEndIsPublished
<1> QED BY <1>3, <1>4, <1>5, <1>6, ZenonT(30) DEF WkInv

(* Launching, authorizing, refused registrations, ends and refused reports,   *)
(* and a restart of the registry, which loses its handlers.                   *)
LEMMA BootActions ==
  ASSUME WkInv,
         \/ \E i \in WkIncarnations : \/ Launch(i) \/ Authorize(i) \/ RegisterRefused(i)
                                      \/ Ends(i) \/ RegistrationFails(i) \/ ReportRefused(i)
         \/ Rebind \/ RegistryCrash
  PROVE  WkInv'
<1>0. wkBoots \in [WkIncarnations -> BootRecords]
      BY ZenonT(30) DEF WkInv, WkTypeOK
<1>1. ASSUME NEW i \in WkIncarnations, NEW b \in BootRecords, Boot(i, b), b.obs = wkBoots[i].obs,
             b.acked = "yes" => wkBoots[i].acked = "yes",
             UNCHANGED <<storeVars, wkCalls, wkPublished, wkReached>>
      PROVE  WkInv'
      BY <1>0, <1>1, BootKeeps, ZenonT(30) DEF Boot
<1>2. ASSUME NEW i \in WkIncarnations, Launch(i) \/ Authorize(i) \/ RegisterRefused(i) PROVE WkInv'
  <2>1. PICK b : /\ b \in {[wkBoots[i] EXCEPT !.phase = "launched", !.alive = TRUE],
                           [wkBoots[i] EXCEPT !.phase = "authorized"], [wkBoots[i] EXCEPT !.phase = "launched"]}
                 /\ Boot(i, b) /\ UNCHANGED <<storeVars, wkCalls, wkPublished, wkReached>>
        BY <1>2, Zenon DEF Launch, Authorize, RegisterRefused
  <2>2. b \in BootRecords /\ b.obs = wkBoots[i].obs /\ b.acked = wkBoots[i].acked
    <3>1. wkBoots[i] \in BootRecords
          BY <1>0, ZenonT(30)
    <3> QED BY <2>1, <3>1, Zenon DEF BootRecords
  <2> QED BY <1>1, <2>1, <2>2, ZenonT(30)
<1>3. ASSUME NEW i \in WkIncarnations, Ends(i) \/ RegistrationFails(i) PROVE WkInv'
  <2>0. wkBoots[i] \in BootRecords /\ UNCHANGED <<storeVars, wkCalls, wkPublished, wkReached>>
        BY <1>0, <1>3, ZenonT(30) DEF Ends, RegistrationFails
  <2>1. CASE Ends(i)
    <3>1. PICK v \in WkTerminal :
               Boot(i, [wkBoots[i] EXCEPT !.phase = "reporting", !.alive = FALSE, !.verdict = v])
          BY <2>1, Zenon DEF Ends
    <3> DEFINE b == [wkBoots[i] EXCEPT !.phase = "reporting", !.alive = FALSE, !.verdict = v]
    <3>2. b \in BootRecords /\ b.obs = wkBoots[i].obs /\ b.acked = wkBoots[i].acked
          BY <2>0, Zenon DEF BootRecords
    <3>3. Boot(i, b)
          BY <3>1, ZenonT(30)
    <3> HIDE DEF b
    <3> QED BY <1>1, <2>0, <3>2, <3>3, ZenonT(30)
  <2>2. CASE RegistrationFails(i)
    <3> DEFINE one == 1
               b == [wkBoots[i] EXCEPT !.phase = "reporting", !.alive = FALSE, !.verdict = "failed", !.left = one]
    <3>1. Boot(i, b)
          BY <2>2, Zenon DEF RegistrationFails
    <3>2. one \in Int /\ "failed" \in WkTerminal
          BY DEF WkTerminal
    <3> HIDE DEF one
    <3>3. b \in BootRecords /\ b.obs = wkBoots[i].obs /\ b.acked = wkBoots[i].acked
          BY <2>0, <3>2, ZenonT(30) DEF BootRecords
    <3> HIDE DEF b
    <3> QED BY <1>1, <2>0, <3>1, <3>3, ZenonT(30)
  <2> QED BY <1>3, <2>1, <2>2, ZenonT(30)
<1>4. ASSUME NEW i \in WkIncarnations, ReportRefused(i) PROVE WkInv'
  <2> DEFINE left == wkBoots[i].left - 1
             phase == IF "no" # "no" \/ wkBoots[i].left = 1 THEN "gone" ELSE "reporting"
             b == [wkBoots[i] EXCEPT !.left = left, !.acked = "no", !.phase = phase]
  <2>1. wkBoots[i] \in BootRecords
        BY <1>0, ZenonT(30)
  <2>2. left \in Int /\ phase \in {"gone", "reporting"}
        BY <2>1 DEF BootRecords
  <2>3. Boot(i, b) /\ UNCHANGED <<storeVars, wkCalls, wkPublished, wkReached>>
        BY <1>4, Zenon DEF ReportRefused, ReportAttempt
  <2> HIDE DEF left, phase
  <2>4. b \in BootRecords /\ b.obs = wkBoots[i].obs /\ b.acked = "no"
        BY <2>1, <2>2, ZenonT(30) DEF BootRecords
  <2> HIDE DEF b
  <2> QED BY <1>1, <2>3, <2>4, ZenonT(30)
<1>5. CASE Rebind
      BY <1>0, <1>5, BootKeeps, ZenonT(30) DEF Rebind
<1>6. CASE RegistryCrash
  <2>1. \A i \in WkIncarnations : wkBoots'[i] = [wkBoots[i] EXCEPT !.phase = IF @ = "authorized" THEN "launched" ELSE @]
        BY <1>6, ZenonT(30) DEF RegistryCrash
  <2>2. ASSUME NEW i \in WkIncarnations
        PROVE  wkBoots'[i] \in BootRecords /\ wkBoots'[i].obs = wkBoots[i].obs /\ wkBoots'[i].acked = wkBoots[i].acked
    <3> DEFINE phase == IF wkBoots[i].phase = "authorized" THEN "launched" ELSE wkBoots[i].phase
    <3>1. wkBoots[i] \in BootRecords /\ wkBoots'[i] = [wkBoots[i] EXCEPT !.phase = phase]
          BY <1>0, <2>1, ZenonT(30)
    <3>2. phase \in {"absent", "launched", "authorized", "registered", "reporting", "gone"}
          BY <3>1, ZenonT(30) DEF BootRecords
    <3> HIDE DEF phase
    <3> QED BY <3>1, <3>2, ZenonT(30) DEF BootRecords
  <2>3. wkBoots' \in [WkIncarnations -> BootRecords]
        BY <1>6, <2>2, ZenonT(30) DEF RegistryCrash
  <2>4. UNCHANGED <<storeVars, wkPublished, wkReached>> /\ wkCalls' = [p \in WkProcs |-> NoCall]
        BY <1>6, ZenonT(30) DEF RegistryCrash
  <2> QED BY <2>2, <2>3, <2>4, BootKeeps, ZenonT(30)
<1> QED BY <1>2, <1>3, <1>4, <1>5, <1>6, ZenonT(30)

(* Store.Register: the worker of a newer generation takes the place of the    *)
(* registered one, when no operation of that one is pending.                  *)
LEMMA RegisterKeeps ==
  ASSUME WkInv, NEW i \in WkIncarnations, RegisterWorker(i)
  PROVE  WkInv'
<1>0. WkTypeOK /\ HeadInv /\ CallsInv /\ SucceededIsReal /\ AckedEndIsPublished
      BY ZenonT(30) DEF WkInv
<1>1. PICK answered \in BOOLEAN :
           /\ wkPublished' = IF answered THEN wkPublished \cup {<<i, wkWorker'.obs.st>>} ELSE wkPublished
           /\ Boot(i, [wkBoots[i] EXCEPT !.phase = IF answered THEN "registered" ELSE "launched"])
      BY Zenon DEF RegisterWorker
<1>2. /\ ~StoreRefuses(i) /\ UNCHANGED <<wkCalls, wkReached>>
      /\ IF wkWorker.inc = i THEN UNCHANGED storeVars
         ELSE /\ wkWorker' = [NoWorker EXCEPT !.inc = i, !.obs = wkBoots[i].obs]
              /\ wkHead' = NoOp /\ UNCHANGED wkReceipts
      BY Zenon DEF RegisterWorker
<1>3. /\ wkBoots' \in [WkIncarnations -> BootRecords]
      /\ \A j \in WkIncarnations : wkBoots'[j].obs = wkBoots[j].obs /\ wkBoots'[j].acked = wkBoots[j].acked
  <2> DEFINE phase == IF answered THEN "registered" ELSE "launched"
             b == [wkBoots[i] EXCEPT !.phase = phase]
  <2>1. wkBoots[i] \in BootRecords /\ phase \in {"registered", "launched"}
        BY <1>0, ZenonT(30) DEF WkTypeOK
  <2> HIDE DEF phase
  <2>2. b \in BootRecords /\ b.obs = wkBoots[i].obs /\ b.acked = wkBoots[i].acked
        BY <2>1, ZenonT(30) DEF BootRecords
  <2>3. wkBoots' = [wkBoots EXCEPT ![i] = b]
        BY <1>1, ZenonT(30) DEF Boot, phase
  <2> HIDE DEF b
  <2> QED BY <1>0, <2>2, <2>3, ZenonT(30) DEF WkTypeOK
<1>4. /\ wkWorker' \in WorkerRecords /\ wkHead' \in WkKeys \cup {NoOp} /\ UNCHANGED wkReceipts
      /\ Precedes(wkWorker, wkWorker')
  <2>1. CASE wkWorker.inc = i
        BY <1>0, <1>2, <2>1, ZenonT(30) DEF storeVars, WkTypeOK, Precedes
  <2>2. CASE wkWorker.inc # i
    <3>1. wkBoots[i].obs \in Observations
          BY <1>0, ZenonT(30) DEF WkTypeOK, BootRecords
    <3>2. wkWorker' \in WorkerRecords /\ wkWorker'.inc = i
          BY <1>2, <2>2, <3>1, ZenonT(30) DEF NoWorker, WorkerRecords, NoOp
    <3>3. GenOfWorker(wkWorker) \in Nat /\ WkGeneration[i] \in Nat /\ GenOfWorker(wkWorker') = WkGeneration[i]
          BY <1>0, <3>2, GenerationsAreNatural, WkGenerations, ZenonT(30) DEF WkTypeOK
    <3>4. GenOfWorker(wkWorker) < WkGeneration[i]
      <4>1. ~(GenOfWorker(wkWorker) > WkGeneration[i]) /\ GenOfWorker(wkWorker) # WkGeneration[i]
            BY <1>2, <2>2, ZenonT(30) DEF StoreRefuses
      <4> QED BY <3>3, <4>1, Below, ZenonT(30)
    <3> QED BY <1>2, <2>2, <3>2, <3>3, <3>4, ZenonT(30) DEF Precedes
  <2> QED BY <2>1, <2>2, ZenonT(30)
<1>5. WkTypeOK'
      BY <1>0, <1>2, <1>3, <1>4, ZenonT(30) DEF WkTypeOK
<1>6. CallsInv'
  <2>1. KeepsReceipts(wkReceipts, wkReceipts')
        BY <1>4, ZenonT(30) DEF KeepsReceipts
  <2>2. MovesHead(wkHead, wkHead', wkReceipts)
        BY <1>2, ZenonT(30) DEF MovesHead, storeVars
  <2> QED BY <1>0, <1>2, <1>4, <1>5, <2>1, <2>2, OtherHandlersKept, ZenonT(30)
<1>7. HeadInv'
  <2>1. CASE wkWorker.inc = i
    <3>1. UNCHANGED <<wkWorker, wkReceipts, wkHead, wkReached>>
          BY <1>2, <2>1, ZenonT(30) DEF storeVars
    <3> QED BY <1>0, <1>3, <3>1, ZenonT(30) DEF HeadInv, HeadOK
  <2>2. CASE wkWorker.inc # i
        BY <1>2, <2>2, ZenonT(30) DEF HeadInv, HeadOK
  <2> QED BY <2>1, <2>2, ZenonT(30)
<1>8. SucceededIsReal' /\ AckedEndIsPublished'
  <2>1. wkPublished \subseteq wkPublished'
        BY <1>1, ZenonT(30)
  <2> QED BY <1>0, <1>2, <1>3, <1>4, <2>1, ZenonT(30) DEF SucceededIsReal, AckedEndIsPublished
<1> QED BY <1>5, <1>6, <1>7, <1>8, ZenonT(30) DEF WkInv

(* Store.ReportExit: the end is stored, published unless it was commanded,    *)
(* and acknowledged only then.                                                *)
LEMMA ReportKeeps ==
  ASSUME WkInv, NEW i \in WkIncarnations, ReportExit(i)
  PROVE  WkInv'
<1>0. WkTypeOK /\ HeadInv /\ CallsInv /\ SucceededIsReal /\ AckedEndIsPublished
      BY ZenonT(30) DEF WkInv
<1> DEFINE answer(told) == IF ~told THEN "no" ELSE IF Matches(i) /\ ~CommandedStop THEN "yes" ELSE "excused"
<1>1. PICK told \in BOOLEAN :
           /\ wkPublished' = IF told /\ PublishesExit(i)
                             THEN wkPublished \cup {<<i, wkWorker'.obs.st>>} ELSE wkPublished
           /\ ReportAttempt(i, answer(told))
      BY Zenon DEF ReportExit
<1>2. /\ UNCHANGED <<wkReceipts, wkHead, wkCalls, wkReached>>
      /\ wkWorker' = IF ~Matches(i) THEN wkWorker
                     ELSE IF wkWorker.obs.st \in WkTerminal
                          THEN [wkWorker EXCEPT !.exit = TRUE]
                          ELSE Exited(wkWorker, i)
      BY Zenon DEF ReportExit
<1>3. wkBoots[i] \in BootRecords /\ wkWorker \in WorkerRecords
      BY <1>0, ZenonT(30) DEF WkTypeOK
<1>4. /\ wkWorker' \in WorkerRecords /\ wkWorker'.inc = wkWorker.inc
      /\ Matches(i) => wkWorker'.obs.st \in WkTerminal
  <2>1. CASE ~Matches(i)
        BY <1>2, <1>3, <2>1, ZenonT(30)
  <2>2. CASE Matches(i) /\ wkWorker.obs.st \in WkTerminal
        BY <1>2, <1>3, <2>2, Zenon DEF WorkerRecords
  <2>3. CASE Matches(i) /\ wkWorker.obs.st \notin WkTerminal
    <3> DEFINE obs == [Fresh EXCEPT !.st = wkBoots[i].verdict, !.ready = FALSE, !.ckpt = wkWorker.obs.ckpt]
    <3>1. wkBoots[i].verdict \in WkTerminal /\ wkWorker.obs.ckpt \in BOOLEAN
          BY <1>3, ZenonT(30) DEF BootRecords, WorkerRecords, Observations
    <3>2. obs \in Observations /\ obs.st \in WkTerminal
          BY <3>1, Zenon DEF Fresh, Observations, WkTerminal
    <3>3. wkWorker' = [wkWorker EXCEPT !.obs = obs, !.exit = TRUE]
          BY <1>2, <2>3, ZenonT(30) DEF Exited
    <3> HIDE DEF obs
    <3> QED BY <1>3, <3>2, <3>3, ZenonT(30) DEF WorkerRecords
  <2> QED BY <2>1, <2>2, <2>3, ZenonT(30)
<1> DEFINE left == wkBoots[i].left - 1
           acked == answer(told)
           phase == IF acked # "no" \/ wkBoots[i].left = 1 THEN "gone" ELSE "reporting"
           b == [wkBoots[i] EXCEPT !.left = left, !.acked = acked, !.phase = phase]
<1>5. left \in Int /\ acked \in {"no", "yes", "excused"} /\ phase \in {"gone", "reporting"}
      BY <1>3 DEF BootRecords
<1>6. acked = "yes" => told /\ PublishesExit(i) /\ Matches(i)
      BY ZenonT(30) DEF PublishesExit
<1>7. wkBoots' = [wkBoots EXCEPT ![i] = b]
      BY <1>1, ZenonT(30) DEF ReportAttempt, Boot
<1> HIDE DEF left, acked, phase
<1>8. b \in BootRecords /\ b.obs = wkBoots[i].obs /\ b.acked = acked
      BY <1>3, <1>5, ZenonT(30) DEF BootRecords
<1> HIDE DEF b
<1>9. /\ wkBoots' \in [WkIncarnations -> BootRecords] /\ \A j \in WkIncarnations : wkBoots'[j].obs = wkBoots[j].obs
      /\ wkBoots'[i].acked = acked /\ \A j \in WkIncarnations \ {i} : wkBoots'[j].acked = wkBoots[j].acked
      BY <1>0, <1>7, <1>8, ZenonT(30) DEF WkTypeOK
<1>10. WkTypeOK'
      BY <1>0, <1>2, <1>4, <1>9, ZenonT(30) DEF WkTypeOK
<1>11. CallsInv'
  <2>1. KeepsReceipts(wkReceipts, wkReceipts') /\ MovesHead(wkHead, wkHead', wkReceipts) /\ Precedes(wkWorker, wkWorker')
        BY <1>2, <1>4, ZenonT(30) DEF KeepsReceipts, MovesHead, Precedes
  <2> QED BY <1>0, <1>2, <1>10, <2>1, OtherHandlersKept, ZenonT(30)
<1>12. HeadInv' /\ SucceededIsReal'
      BY <1>0, <1>2, <1>4, <1>9, ZenonT(30) DEF HeadInv, HeadOK, SucceededIsReal
<1>13. AckedEndIsPublished'
  <2>1. wkPublished \subseteq wkPublished'
        BY <1>1, ZenonT(30)
  <2>2. acked = "yes" => <<i, wkWorker'.obs.st>> \in wkPublished' /\ wkWorker'.obs.st \in WkTerminal
        BY <1>1, <1>4, <1>6, ZenonT(30)
  <2> SUFFICES ASSUME NEW j \in WkIncarnations, wkBoots'[j].acked = "yes"
               PROVE  \E v \in WkTerminal : <<j, v>> \in wkPublished'
      BY ZenonT(30) DEF AckedEndIsPublished
  <2>3. CASE j = i
        BY <1>9, <2>2, <2>3, ZenonT(30)
  <2>4. CASE j # i
        BY <1>0, <1>9, <2>1, <2>4, ZenonT(30) DEF AckedEndIsPublished
  <2> QED BY <2>3, <2>4, Zenon
<1> QED BY <1>10, <1>11, <1>12, <1>13, ZenonT(30) DEF WkInv

(* Store.Complete: it settles the head's receipt, for the registered worker. *)
LEMMA CompleteFacts ==
  ASSUME WkInv, NEW k \in WkKeys, NEW w \in WorkerRecords, w.inc \in WkIncarnations, Precedes(w, wkWorker),
         NEW ok \in BOOLEAN, Complete(k, w, ok), ok /\ wkHead = k => k \in wkReached
  PROVE  /\ wkReceipts' \in [WkKeys -> ReceiptRecords] /\ wkWorker' \in WorkerRecords
         /\ wkWorker'.inc = wkWorker.inc /\ KeepsReceipts(wkReceipts, wkReceipts')
         /\ \A j \in WkKeys : wkReceipts'[j].ok => j \in wkReached
<1>0. /\ wkReceipts \in [WkKeys -> ReceiptRecords] /\ wkWorker \in WorkerRecords
      /\ \A j \in WkKeys : wkReceipts[j].ok => j \in wkReached
      BY ZenonT(30) DEF WkInv, WkTypeOK, SucceededIsReal
<1>1. CASE ~Completable(k, w)
      BY <1>0, <1>1, ZenonT(30) DEF Complete, KeepsReceipts
<1>2. CASE Completable(k, w)
  <2> DEFINE r == [wkReceipts[k] EXCEPT !.done = TRUE, !.ok = ok]
  <2>1. wkReceipts' = [wkReceipts EXCEPT ![k] = r] /\ wkWorker' = IF ok THEN w ELSE wkWorker
        BY <1>0, <1>2, Zenon DEF Complete
  <2>2. r \in ReceiptRecords /\ r.op = wkReceipts[k].op /\ r.gen = wkReceipts[k].gen /\ r.ok = ok
    <3>1. wkReceipts[k] \in ReceiptRecords
          BY <1>0, ZenonT(30)
    <3> QED BY <3>1, ZenonT(30) DEF ReceiptRecords
  <2> HIDE DEF r
  <2>3. w.inc = wkWorker.inc
    <3>1. wkHead = k /\ GenOfWorker(w) = wkReceipts[k].gen /\ k # NoOp
          BY <1>2, WkAssumption, ZenonT(30) DEF Completable
    <3>2. wkWorker.inc \in WkIncarnations /\ wkReceipts[k].gen = WkGeneration[wkWorker.inc]
          BY <3>1, ZenonT(30) DEF WkInv, HeadInv, HeadOK
    <3>3. GenOfWorker(w) = GenOfWorker(wkWorker) /\ GenOfWorker(w) \in Nat
          BY <1>0, <3>1, <3>2, GenerationsAreNatural, ZenonT(30)
    <3> QED BY <1>0, <3>3, PrecedesOrder, ZenonT(30)
  <2>4. wkHead = k
        BY <1>2, ZenonT(30) DEF Completable
  <2> QED BY <1>0, <2>1, <2>2, <2>3, <2>4, ZenonT(30) DEF KeepsReceipts
<1> QED BY <1>1, <1>2, ZenonT(30)

(* A handler's step that leaves the bootstraps and the head alone. *)
LEMMA HandlerKeeps ==
  ASSUME WkInv, NEW p \in WkProcs, NEW c \in CallRecords, Proc(p, c),
         UNCHANGED <<wkBoots, wkHead, wkPublished, wkReached>>,
         wkReceipts' \in [WkKeys -> ReceiptRecords], wkWorker' \in WorkerRecords,
         wkWorker'.inc = wkWorker.inc, KeepsReceipts(wkReceipts, wkReceipts'),
         \A j \in WkKeys : wkReceipts'[j].ok => j \in wkReached,
         CallOK(c, wkWorker', wkReceipts', wkHead, wkReached)
  PROVE  WkInv'
<1>1. WkTypeOK /\ HeadInv /\ CallsInv /\ AckedEndIsPublished
      BY ZenonT(30) DEF WkInv
<1>2. WkTypeOK' /\ \A q \in WkProcs : wkCalls'[q] = IF q = p THEN c ELSE wkCalls[q]
      BY <1>1, ZenonT(30) DEF WkTypeOK, Proc
<1>3. CallsInv'
  <2>1. Precedes(wkWorker, wkWorker') /\ MovesHead(wkHead, wkHead', wkReceipts)
        BY ZenonT(30) DEF Precedes, MovesHead
  <2>2. \A q \in WkProcs : \/ wkCalls'[q] = wkCalls[q]
                           \/ CallOK(wkCalls'[q], wkWorker', wkReceipts', wkHead', wkReached')
        BY <1>2, ZenonT(30)
  <2> QED BY <1>1, <1>2, <2>1, <2>2, OtherHandlersKept, ZenonT(30)
<1>4. HeadInv'
  <2> SUFFICES ASSUME wkHead # NoOp PROVE HeadInv'
      BY ZenonT(30) DEF HeadInv, HeadOK
  <2>1. wkHead \in WkKeys /\ wkReceipts[wkHead].op # NoOp
        BY <1>1, ZenonT(30) DEF WkTypeOK, HeadInv, HeadOK
  <2>2. wkReceipts'[wkHead].op = wkReceipts[wkHead].op /\ wkReceipts'[wkHead].gen = wkReceipts[wkHead].gen
        BY <2>1, ZenonT(30) DEF KeepsReceipts
  <2> QED BY <1>1, <2>2, ZenonT(30) DEF HeadInv, HeadOK
<1>5. SucceededIsReal' /\ AckedEndIsPublished'
      BY <1>1, ZenonT(30) DEF SucceededIsReal, AckedEndIsPublished
<1> QED BY <1>2, <1>3, <1>4, <1>5, ZenonT(30) DEF WkInv

(* A handler that returns. *)
LEMMA NoCallFacts ==
  /\ NoCall \in CallRecords
  /\ \A w, r, h, x : CallOK(NoCall, w, r, h, x)
<1>1. NoCall \in CallRecords
  <2>1. Fresh \in Observations
        BY Zenon DEF Fresh, Observations
  <2>2. NoWorker \in WorkerRecords
        BY <2>1, Zenon DEF NoWorker, WorkerRecords
  <2> QED BY <2>2, BlankCall, Zenon DEF NoCall, CallRecords
<1>2. ASSUME NEW w, NEW r, NEW h, NEW x PROVE CallOK(NoCall, w, r, h, x)
      BY ZenonT(30) DEF CallOK, NoCall
<1> QED BY <1>1, <1>2, ZenonT(30)

(* DiscoverWorker: the status read is the worker's own, or shows its end. *)
LEMMA DiscoverKeeps ==
  ASSUME WkInv, NEW p \in WkProcs, Discover(p)
  PROVE  WkInv'
<1>0. WkTypeOK /\ HeadInv /\ SucceededIsReal
      BY ZenonT(30) DEF WkInv
<1> DEFINE head == IF Pending THEN wkHead ELSE NoOp
           heard(reached) == IF wkWorker.obs.st \in WkTerminal THEN wkWorker ELSE Probe(wkWorker, reached)
           pc == IF wkWorker.obs.st \in WkTerminal THEN "reconcile" ELSE "refresh"
<1>1. PICK op \in WkOps \cup {"status"}, k \in WkKeys, reached \in BOOLEAN :
           Proc(p, [NoCall EXCEPT !.op = op, !.key = k, !.head = head, !.seen = heard(reached), !.pc = pc])
      BY ZenonT(30) DEF Discover
<1>2. wkWorker.inc \in WkIncarnations /\ UNCHANGED <<wkBoots, wkWorker, wkReceipts, wkHead, wkPublished, wkReached>>
  <2>1. wkWorker.inc # Nobody /\ UNCHANGED <<wkBoots, storeVars, wkPublished, wkReached>>
        BY ZenonT(30) DEF Discover
  <2> QED BY <1>0, <2>1, ZenonT(30) DEF WkTypeOK, WorkerRecords, storeVars
<1> DEFINE s == heard(reached)
<1>3. /\ s \in WorkerRecords /\ s.inc = wkWorker.inc
      /\ s.obs.st \in WkTerminal \/ s.obs = wkBoots[wkWorker.inc].obs
  <2>0. wkWorker \in WorkerRecords
        BY <1>0, ZenonT(30) DEF WkTypeOK
  <2>1. CASE wkWorker.obs.st \in WkTerminal
        BY <2>0, <2>1, ZenonT(30)
  <2>2. CASE wkWorker.obs.st \notin WkTerminal
    <3> DEFINE o == IF reached /\ Serving(wkWorker.inc) /\ wkBoots[wkWorker.inc].alive THEN wkBoots[wkWorker.inc].obs
                    ELSE [Unreachable EXCEPT !.ckpt = wkWorker.obs.ckpt]
               lost == [Unreachable EXCEPT !.ckpt = wkWorker.obs.ckpt]
    <3>1. wkBoots[wkWorker.inc].obs \in Observations /\ wkWorker.obs.ckpt \in BOOLEAN
          BY <1>0, <1>2, <2>0, ZenonT(30) DEF WkTypeOK, BootRecords, WorkerRecords, Observations
    <3>2. lost \in Observations /\ lost.st \in WkTerminal
          BY <3>1, Zenon DEF Unreachable, Fresh, Observations, WkTerminal
    <3>3. o = wkBoots[wkWorker.inc].obs \/ o = lost
          BY ZenonT(30)
    <3>4. s = [wkWorker EXCEPT !.obs = o]
          BY <2>2, ZenonT(30) DEF Probe
    <3> HIDE DEF o, lost
    <3>5. o \in Observations /\ (o.st \in WkTerminal \/ o = wkBoots[wkWorker.inc].obs)
          BY <3>1, <3>2, <3>3, ZenonT(30)
    <3> HIDE DEF s
    <3> QED BY <2>0, <3>4, <3>5, ZenonT(30) DEF WorkerRecords
  <2> QED BY <2>1, <2>2, ZenonT(30)
<1>4. head \in WkKeys \cup {NoOp} /\ (head # NoOp => head = wkHead) /\ pc \in {"reconcile", "refresh"}
      BY <1>0, ZenonT(30) DEF WkTypeOK
<1> HIDE DEF head, pc, s
<1> DEFINE c == [NoCall EXCEPT !.op = op, !.key = k, !.head = head, !.seen = s, !.pc = pc]
<1>5. Proc(p, c)
      BY <1>1, ZenonT(30) DEF s
<1>6. c.pc = pc /\ c.key = k /\ c.head = head /\ c.seen = s /\ c.at = 1 /\ c \in CallRecords
  <2>1. NoCall \in CallRecords /\ NoCall.at = 1
        BY NoCallFacts, ZenonT(30) DEF NoCall
  <2>2. op \in WkOps \cup {"status", NoOp} /\ k \in WkKeys \cup {NoOp}
        BY ZenonT(30)
  <2> QED BY <1>3, <1>4, <2>1, <2>2, ZenonT(30) DEF CallRecords
<1> HIDE DEF c
<1>7. CallOK(c, wkWorker', wkReceipts', wkHead, wkReached)
  <2>1. Precedes(s, wkWorker)
        BY <1>3, ZenonT(30) DEF Precedes
  <2>2. ASSUME head # NoOp
        PROVE  /\ wkReceipts[head].op # NoOp
               /\ LifecycleObserved(wkReceipts[head].op, s.obs) => head \in wkReached
    <3>1. /\ wkReceipts[wkHead].op # NoOp
          /\ Promised(wkReceipts[wkHead].op, wkBoots[wkWorker.inc].obs) => wkHead \in wkReached
          BY <1>0, <1>4, <2>2, ZenonT(30) DEF HeadInv, HeadOK
    <3>2. LifecycleObserved(wkReceipts[head].op, s.obs) =>
             Promised(wkReceipts[head].op, s.obs) /\ s.obs.st \notin WkTerminal
          BY ObservedIsPromised, ZenonT(30)
    <3> QED BY <1>3, <1>4, <2>2, <3>1, <3>2, ZenonT(30)
  <2> QED BY <1>2, <1>3, <1>4, <1>6, <2>1, <2>2, ZenonT(30) DEF CallOK
<1>8. /\ wkReceipts' \in [WkKeys -> ReceiptRecords] /\ wkWorker' \in WorkerRecords /\ wkWorker'.inc = wkWorker.inc
      /\ KeepsReceipts(wkReceipts, wkReceipts') /\ \A j \in WkKeys : wkReceipts'[j].ok => j \in wkReached
      BY <1>0, <1>2, ZenonT(30) DEF WkTypeOK, KeepsReceipts, SucceededIsReal
<1> QED BY <1>2, <1>5, <1>6, <1>7, <1>8, HandlerKeeps, ZenonT(30)

(* What is known of the handler that takes a step. *)
LEMMA HandlerFacts ==
  ASSUME WkInv, NEW p \in WkProcs, wkCalls[p].pc # "idle"
  PROVE  /\ wkCalls[p] \in CallRecords /\ CallOK(wkCalls[p], wkWorker, wkReceipts, wkHead, wkReached)
         /\ wkCalls[p].seen \in WorkerRecords /\ wkCalls[p].seen.inc \in WkIncarnations
         /\ Precedes(wkCalls[p].seen, wkWorker) /\ wkCalls[p].key \in WkKeys
         /\ wkWorker \in WorkerRecords /\ wkReceipts \in [WkKeys -> ReceiptRecords]
         /\ \A j \in WkKeys : wkReceipts[j].ok => j \in wkReached
<1>1. wkCalls[p] \in CallRecords /\ CallOK(wkCalls[p], wkWorker, wkReceipts, wkHead, wkReached)
      BY ZenonT(30) DEF WkInv, WkTypeOK, CallsInv
<1> QED BY <1>1, ZenonT(30) DEF CallOK, CallRecords, WkInv, WkTypeOK, SucceededIsReal

(* Store.Refresh writes back what was read of the same incarnation. *)
LEMMA RefreshKeeps ==
  ASSUME WkInv, NEW p \in WkProcs, Refresh(p)
  PROVE  WkInv'
<1> DEFINE c == wkCalls[p]
           next == [c EXCEPT !.pc = "reconcile"]
<1>1. /\ c.pc = "refresh" /\ UNCHANGED <<wkBoots, wkReceipts, wkHead, wkPublished, wkReached>>
      /\ IF wkWorker.inc = c.seen.inc THEN wkWorker' = c.seen /\ Proc(p, next)
         ELSE UNCHANGED wkWorker /\ Proc(p, NoCall)
      BY ZenonT(30) DEF Refresh
<1>2. /\ c \in CallRecords /\ CallOK(c, wkWorker, wkReceipts, wkHead, wkReached)
      /\ c.seen \in WorkerRecords /\ c.seen.inc \in WkIncarnations
      /\ Precedes(c.seen, wkWorker) /\ c.key \in WkKeys
      /\ wkWorker \in WorkerRecords /\ wkReceipts \in [WkKeys -> ReceiptRecords]
      /\ \A j \in WkKeys : wkReceipts[j].ok => j \in wkReached
      BY <1>1, HandlerFacts, ZenonT(30)
<1>3. KeepsReceipts(wkReceipts, wkReceipts') /\ wkWorker' \in WorkerRecords /\ wkWorker'.inc = wkWorker.inc
      BY <1>1, <1>2, ZenonT(30) DEF KeepsReceipts
<1>4. CASE wkWorker.inc = c.seen.inc
  <2> HIDE DEF c
  <2>1. /\ next \in CallRecords /\ next.pc = "reconcile" /\ next.seen = c.seen
        /\ next.key = c.key /\ next.head = c.head /\ next.at = c.at
        BY <1>2, ZenonT(30) DEF CallRecords
  <2> HIDE DEF next
  <2>2. CallOK(next, c.seen, wkReceipts, wkHead, wkReached)
        BY <1>1, <1>2, <2>1, ZenonT(30) DEF CallOK, Precedes
  <2> QED BY <1>1, <1>2, <1>3, <1>4, <2>1, <2>2, HandlerKeeps, ZenonT(30)
<1>5. CASE wkWorker.inc # c.seen.inc
  <2> HIDE DEF c
  <2> QED BY <1>1, <1>2, <1>3, <1>5, NoCallFacts, HandlerKeeps, ZenonT(30)
<1> QED BY <1>4, <1>5, ZenonT(30)

(* reconcilePending settles the operation that was pending when the status    *)
(* was read: as succeeded only when the status shows its target.              *)
LEMMA ReconcileKeeps ==
  ASSUME WkInv, NEW p \in WkProcs, ReconcilePending(p)
  PROVE  WkInv'
<1> DEFINE c == wkCalls[p]
           op == IF c.head = NoOp THEN NoOp ELSE wkReceipts[c.head].op
           next == IF c.op = "status" THEN NoCall ELSE [c EXCEPT !.pc = "begin"]
           succeeded == [c.seen EXCEPT !.last = op]
<1>1. /\ c.pc = "reconcile" /\ UNCHANGED <<wkBoots, wkHead, wkPublished, wkReached>>
      /\ IF c.head = NoOp THEN UNCHANGED <<wkReceipts, wkWorker>> /\ Proc(p, next)
         ELSE IF c.seen.obs.st = "failed"
         THEN /\ Complete(c.head, c.seen, FALSE)
              /\ Proc(p, IF Completable(c.head, c.seen) THEN next ELSE NoCall)
         ELSE IF LifecycleObserved(op, c.seen.obs)
         THEN /\ Complete(c.head, succeeded, TRUE)
              /\ Proc(p, IF Completable(c.head, c.seen) THEN next ELSE NoCall)
         ELSE UNCHANGED <<wkReceipts, wkWorker>> /\ Proc(p, next)
      BY ZenonT(30) DEF ReconcilePending
<1>2. /\ c \in CallRecords /\ CallOK(c, wkWorker, wkReceipts, wkHead, wkReached)
      /\ c.seen \in WorkerRecords /\ c.seen.inc \in WkIncarnations
      /\ Precedes(c.seen, wkWorker) /\ c.key \in WkKeys
      /\ wkWorker \in WorkerRecords /\ wkReceipts \in [WkKeys -> ReceiptRecords]
      /\ \A j \in WkKeys : wkReceipts[j].ok => j \in wkReached
      BY <1>1, HandlerFacts, ZenonT(30)
<1> HIDE DEF c
<1>3. c.head \in WkKeys \cup {NoOp} /\ c.at = 1
      BY <1>1, <1>2, ZenonT(30) DEF CallRecords, CallOK
<1>4. next \in CallRecords /\ \A w : Precedes(c.seen, w) => CallOK(next, w, wkReceipts', wkHead, wkReached)
  <2>1. CASE c.op = "status"
        BY <2>1, NoCallFacts, ZenonT(30)
  <2>2. CASE c.op # "status"
    <3> DEFINE n == [c EXCEPT !.pc = "begin"]
    <3>1. n \in CallRecords /\ n.pc = "begin" /\ n.seen = c.seen /\ n.key = c.key /\ n.at = c.at
          BY <1>2, ZenonT(30) DEF CallRecords
    <3>2. next = n
          BY <2>2, ZenonT(30)
    <3> HIDE DEF n, next
    <3> QED BY <1>2, <1>3, <3>1, <3>2, ZenonT(30) DEF CallOK
  <2> QED BY <2>1, <2>2, ZenonT(30)
<1>5. ASSUME UNCHANGED <<wkReceipts, wkWorker>>, Proc(p, next) PROVE WkInv'
  <2> HIDE DEF next
  <2>1. KeepsReceipts(wkReceipts, wkReceipts')
        BY <1>5, ZenonT(30) DEF KeepsReceipts
  <2> QED BY <1>1, <1>2, <1>4, <1>5, <2>1, HandlerKeeps, ZenonT(30)
<1>6. ASSUME NEW w \in WorkerRecords, w.inc = c.seen.inc, NEW ok \in BOOLEAN, Complete(c.head, w, ok),
             c.head # NoOp, ok /\ wkHead = c.head => c.head \in wkReached,
             Proc(p, next) \/ Proc(p, NoCall)
      PROVE  WkInv'
  <2> HIDE DEF next
  <2>1. Precedes(w, wkWorker)
        BY <1>2, <1>6, ZenonT(30) DEF Precedes, GenOfWorker
  <2>2. /\ wkReceipts' \in [WkKeys -> ReceiptRecords] /\ wkWorker' \in WorkerRecords
        /\ wkWorker'.inc = wkWorker.inc /\ KeepsReceipts(wkReceipts, wkReceipts')
        /\ \A j \in WkKeys : wkReceipts'[j].ok => j \in wkReached
        BY <1>2, <1>3, <1>6, <2>1, CompleteFacts, ZenonT(30)
  <2>3. Precedes(c.seen, wkWorker')
        BY <1>2, <2>2, ZenonT(30) DEF Precedes, GenOfWorker
  <2>4. CASE Proc(p, next)
        BY <1>1, <1>4, <2>2, <2>3, <2>4, HandlerKeeps, ZenonT(30)
  <2>5. CASE Proc(p, NoCall)
        BY <1>1, <2>2, <2>5, NoCallFacts, HandlerKeeps, ZenonT(30)
  <2> QED BY <1>6, <2>4, <2>5, ZenonT(30)
<1>7. CASE c.head # NoOp /\ c.seen.obs.st = "failed"
  <2>1. Complete(c.head, c.seen, FALSE) /\ (Proc(p, next) \/ Proc(p, NoCall))
    <3> HIDE DEF next, succeeded
    <3> QED BY <1>1, <1>7, Zenon
  <2> HIDE DEF next
  <2> QED BY <1>2, <1>6, <1>7, <2>1, Zenon
<1>8. CASE c.head # NoOp /\ c.seen.obs.st # "failed" /\ LifecycleObserved(op, c.seen.obs)
  <2>1. Complete(c.head, succeeded, TRUE) /\ (Proc(p, next) \/ Proc(p, NoCall))
    <3> HIDE DEF next, succeeded, op
    <3> QED BY <1>1, <1>8, ZenonT(30)
  <2>2. op \in WkLifecycle /\ op = wkReceipts[c.head].op
        BY <1>8, ObservedIsPromised, ZenonT(30)
  <2>3. c.head \in wkReached
        BY <1>1, <1>2, <1>8, <2>2, ZenonT(30) DEF CallOK
  <2> HIDE DEF op
  <2>4. succeeded \in WorkerRecords /\ succeeded.inc = c.seen.inc
        BY <1>2, <2>2, ZenonT(30) DEF WorkerRecords
  <2> HIDE DEF next, succeeded
  <2> QED BY <1>6, <1>8, <2>1, <2>3, <2>4, ZenonT(30)
<1>9. CASE c.head = NoOp \/ (c.seen.obs.st # "failed" /\ ~LifecycleObserved(op, c.seen.obs))
  <2>1. UNCHANGED <<wkReceipts, wkWorker>> /\ Proc(p, next)
    <3> HIDE DEF next, succeeded, op
    <3> QED BY <1>1, <1>9, Zenon
  <2> HIDE DEF next
  <2> QED BY <1>5, <2>1, ZenonT(30)
<1> QED BY <1>7, <1>8, <1>9, ZenonT(30)

(* verifyWorker, and the end of an operation: failed, or recorded as         *)
(* succeeded after its last remote call was confirmed.                        *)
LEMMA VerifyKeeps ==
  ASSUME WkInv, NEW p \in WkProcs, Verify(p)
  PROVE  WkInv'
<1> DEFINE c == wkCalls[p]
<1>1. /\ c.pc = "verify" /\ UNCHANGED <<wkBoots, wkWorker, wkReceipts, wkHead, wkPublished, wkReached>>
      /\ \E pc \in {"call", "fail"} : Proc(p, [c EXCEPT !.pc = pc])
      BY ZenonT(30) DEF Verify, storeVars
<1>2. PICK pc \in {"call", "fail"} : Proc(p, [c EXCEPT !.pc = pc])
      BY <1>1, ZenonT(30)
<1>3. /\ c \in CallRecords /\ CallOK(c, wkWorker, wkReceipts, wkHead, wkReached)
      /\ wkWorker \in WorkerRecords /\ wkReceipts \in [WkKeys -> ReceiptRecords]
      /\ \A j \in WkKeys : wkReceipts[j].ok => j \in wkReached
      BY <1>1, HandlerFacts, ZenonT(30)
<1> HIDE DEF c
<1> DEFINE n == [c EXCEPT !.pc = pc]
<1>4. /\ n \in CallRecords /\ n.pc = pc /\ n.seen = c.seen /\ n.key = c.key /\ n.op = c.op
      /\ n.calls = c.calls /\ n.at = c.at
      BY <1>3, ZenonT(30) DEF CallRecords
<1>5. Proc(p, n)
      BY <1>2, ZenonT(30)
<1> HIDE DEF n
<1>6. CallOK(n, wkWorker, wkReceipts, wkHead, wkReached)
      BY <1>1, <1>3, <1>4, ZenonT(30) DEF CallOK
<1>7. KeepsReceipts(wkReceipts, wkReceipts')
      BY <1>1, ZenonT(30) DEF KeepsReceipts
<1> QED BY <1>1, <1>3, <1>4, <1>5, <1>6, <1>7, HandlerKeeps, ZenonT(30)

LEMMA EndKeeps ==
  ASSUME WkInv, NEW p \in WkProcs, Fail(p) \/ Finish(p)
  PROVE  WkInv'
<1> DEFINE c == wkCalls[p]
           finished == [c.seen EXCEPT !.last = c.op]
<1>1. /\ c.pc \in {"fail", "done"} /\ Proc(p, NoCall) /\ UNCHANGED <<wkBoots, wkHead, wkPublished, wkReached>>
      /\ c.pc = "fail" => Complete(c.key, c.seen, FALSE)
      /\ c.pc = "done" => Complete(c.key, finished, TRUE)
  <2>1. CASE Fail(p)
        BY <2>1, Zenon DEF Fail
  <2>2. CASE Finish(p)
        BY <2>2, Zenon DEF Finish
  <2> QED BY <2>1, <2>2, Zenon
<1>2. /\ c \in CallRecords /\ CallOK(c, wkWorker, wkReceipts, wkHead, wkReached)
      /\ c.seen \in WorkerRecords /\ c.seen.inc \in WkIncarnations
      /\ Precedes(c.seen, wkWorker) /\ c.key \in WkKeys
      BY <1>1, HandlerFacts, ZenonT(30)
<1> HIDE DEF c
<1>3. finished \in WorkerRecords /\ finished.inc = c.seen.inc
  <2>1. c.pc = "done" \/ c.pc = "fail" => c.op \in WkLifecycle
        BY <1>2, ZenonT(30) DEF CallOK
  <2> QED BY <1>1, <1>2, <2>1, ZenonT(30) DEF WorkerRecords
<1> HIDE DEF finished
<1>4. Precedes(finished, wkWorker)
      BY <1>2, <1>3, ZenonT(30) DEF Precedes, GenOfWorker
<1>5. c.pc = "done" /\ wkHead = c.key => c.key \in wkReached
      BY <1>2, ZenonT(30) DEF CallOK
<1>6. /\ wkReceipts' \in [WkKeys -> ReceiptRecords] /\ wkWorker' \in WorkerRecords
      /\ wkWorker'.inc = wkWorker.inc /\ KeepsReceipts(wkReceipts, wkReceipts')
      /\ \A j \in WkKeys : wkReceipts'[j].ok => j \in wkReached
  <2>1. CASE c.pc = "fail"
        BY <1>1, <1>2, <2>1, CompleteFacts, Zenon
  <2>2. CASE c.pc = "done"
        BY <1>1, <1>2, <1>3, <1>4, <1>5, <2>2, CompleteFacts, ZenonT(30)
  <2> QED BY <1>1, <2>1, <2>2, ZenonT(30)
<1> QED BY <1>1, <1>6, NoCallFacts, HandlerKeeps, ZenonT(30)

(* Store.Begin: a fresh key becomes the head, for the registered worker. *)
LEMMA BeginKeeps ==
  ASSUME WkInv, NEW p \in WkProcs, Begin(p)
  PROVE  WkInv'
<1> DEFINE c == wkCalls[p]
           receipt == [op |-> c.op, gen |-> GenOfWorker(c.seen), done |-> FALSE, ok |-> FALSE]
           begins == /\ wkReceipts[c.key] = NoReceipt /\ GenOfWorker(wkWorker) = GenOfWorker(c.seen)
                     /\ ~Pending /\ ValidTransition(wkWorker.obs, c.op)
           next == [c EXCEPT !.pc = "verify", !.seen = wkWorker, !.calls = CallsOf(c.op, wkWorker.obs)]
<1>1. /\ c.pc = "begin" /\ UNCHANGED <<wkBoots, wkWorker, wkPublished>>
      /\ IF begins
         THEN /\ wkReceipts' = [wkReceipts EXCEPT ![c.key] = receipt] /\ wkHead' = c.key
              /\ wkReached' = wkReached \cup Reaches(wkBoots, wkHead', wkReceipts') /\ Proc(p, next)
         ELSE UNCHANGED <<wkReceipts, wkHead, wkReached>> /\ Proc(p, NoCall)
      BY Zenon DEF Begin
<1>2. /\ c \in CallRecords /\ CallOK(c, wkWorker, wkReceipts, wkHead, wkReached)
      /\ c.seen \in WorkerRecords /\ c.seen.inc \in WkIncarnations
      /\ Precedes(c.seen, wkWorker) /\ c.key \in WkKeys
      /\ wkWorker \in WorkerRecords /\ wkReceipts \in [WkKeys -> ReceiptRecords]
      /\ \A j \in WkKeys : wkReceipts[j].ok => j \in wkReached
      BY <1>1, HandlerFacts, ZenonT(30)
<1>0. WkTypeOK /\ CallsInv /\ AckedEndIsPublished
      BY ZenonT(30) DEF WkInv
<1> HIDE DEF c
<1>3. CASE ~begins
  <2>1. UNCHANGED <<wkReceipts, wkHead, wkReached>> /\ Proc(p, NoCall)
        BY <1>1, <1>3, ZenonT(30)
  <2>2. KeepsReceipts(wkReceipts, wkReceipts')
        BY <2>1, ZenonT(30) DEF KeepsReceipts
  <2> QED BY <1>1, <1>2, <2>1, <2>2, NoCallFacts, HandlerKeeps, ZenonT(30)
<1>4. CASE begins
  <2>1. /\ wkReceipts' = [wkReceipts EXCEPT ![c.key] = receipt] /\ wkHead' = c.key
        /\ wkReached' = wkReached \cup Reaches(wkBoots, wkHead', wkReceipts') /\ Proc(p, next)
    <3> HIDE DEF receipt, next
    <3> QED BY <1>1, <1>4, ZenonT(30)
  <2>2. c.op \in WkLifecycle /\ c.op # NoOp
        BY <1>4, ZenonT(30) DEF ValidTransition, WkLifecycle, WkActions, NoOp
  <2>3. /\ wkWorker.inc \in WkIncarnations /\ GenOfWorker(c.seen) = WkGeneration[wkWorker.inc]
        /\ GenOfWorker(c.seen) \in Nat
    <3>1. GenOfWorker(c.seen) \in Nat /\ GenOfWorker(c.seen) # 0
          BY <1>2, GenerationsAreNatural, WkAssumption, ZenonT(30)
    <3>2. wkWorker.inc # Nobody
          BY <1>2, <1>4, <3>1, GenerationsAreNatural, ZenonT(30)
    <3>3. wkWorker.inc \in WkIncarnations
          BY <1>2, <3>2, ZenonT(30) DEF WorkerRecords
    <3> QED BY <1>2, <1>4, <3>1, <3>3, GenerationsAreNatural, ZenonT(30)
  <2>4. /\ receipt \in ReceiptRecords /\ receipt.op = c.op /\ receipt.gen = WkGeneration[wkWorker.inc]
        /\ receipt.ok = FALSE
        BY <2>2, <2>3, ZenonT(30) DEF ReceiptRecords
  <2>5. wkReceipts[c.key].op = NoOp
        BY <1>4, BlankReceipt, ZenonT(30)
  <2> HIDE DEF receipt
  <2>6. /\ wkReceipts' \in [WkKeys -> ReceiptRecords] /\ wkReceipts'[c.key] = receipt
        /\ \A j \in WkKeys \ {c.key} : wkReceipts'[j] = wkReceipts[j]
        BY <1>2, <2>1, <2>4, ZenonT(30)
  <2>7. /\ CallsOf(c.op, wkWorker.obs) \in Seq(WkActions) /\ 1 \in 1..Len(CallsOf(c.op, wkWorker.obs))
        /\ CallsOf(c.op, wkWorker.obs)[Len(CallsOf(c.op, wkWorker.obs))] = c.op
        BY <2>2, LastCallIsOperation, ZenonT(30)
  <2> DEFINE calls == CallsOf(c.op, wkWorker.obs)
  <2>8. /\ next \in CallRecords /\ next.pc = "verify" /\ next.seen = wkWorker /\ next.calls = calls
        /\ next.op = c.op /\ next.key = c.key /\ next.at = 1
    <3>1. c.at = 1
          BY <1>1, <1>2, ZenonT(30) DEF CallOK
    <3>2. next = [c EXCEPT !.pc = "verify", !.seen = wkWorker, !.calls = calls] /\ calls \in Seq(WkActions)
          BY <2>7, ZenonT(30)
    <3> HIDE DEF calls, next
    <3> QED BY <1>2, <3>1, <3>2, Zenon DEF CallRecords
  <2> HIDE DEF next, begins
  <2>9. CallOK(next, wkWorker', wkReceipts', wkHead', wkReached')
    <3>1. wkReceipts'[c.key].op = c.op /\ wkReceipts'[c.key].gen = WkGeneration[wkWorker.inc]
          BY <2>4, <2>6, ZenonT(30)
    <3>2. next.at \in 1..Len(next.calls) /\ next.calls[Len(next.calls)] = next.op
          BY <2>7, <2>8, ZenonT(30)
    <3> HIDE DEF calls
    <3> QED BY <1>1, <1>2, <2>2, <2>3, <2>8, <3>1, <3>2, ZenonT(30) DEF CallOK, Precedes
  <2> HIDE DEF calls
  <2>10. WkTypeOK' /\ \A q \in WkProcs : wkCalls'[q] = IF q = p THEN next ELSE wkCalls[q]
        BY <1>0, <1>1, <1>2, <2>1, <2>6, <2>8, ZenonT(30) DEF WkTypeOK, Proc
  <2>11. CallsInv'
    <3>1. KeepsReceipts(wkReceipts, wkReceipts')
          BY <2>5, <2>6, ZenonT(30) DEF KeepsReceipts
    <3>2. MovesHead(wkHead, wkHead', wkReceipts) /\ Precedes(wkWorker, wkWorker') /\ wkReached \subseteq wkReached'
          BY <1>1, <2>1, <2>5, ZenonT(30) DEF MovesHead, Precedes
    <3>3. \A q \in WkProcs : \/ wkCalls'[q] = wkCalls[q]
                             \/ CallOK(wkCalls'[q], wkWorker', wkReceipts', wkHead', wkReached')
          BY <2>9, <2>10, ZenonT(30)
    <3> QED BY <1>0, <2>10, <3>1, <3>2, <3>3, OtherHandlersKept, ZenonT(30)
  <2>12. HeadInv'
    <3>1. c.key # NoOp /\ wkWorker.inc # Nobody
          BY <1>2, <2>3, WkAssumption, ZenonT(30)
    <3>2. Promised(wkReceipts'[c.key].op, wkBoots[wkWorker.inc].obs) => c.key \in Reaches(wkBoots, wkHead', wkReceipts')
          BY <2>1, <3>1, ZenonT(30) DEF Reaches
    <3>3. wkReceipts'[c.key].op # NoOp /\ wkReceipts'[c.key].gen = WkGeneration[wkWorker.inc]
          BY <2>2, <2>4, <2>6, ZenonT(30)
    <3>4. Promised(wkReceipts'[c.key].op, wkBoots[wkWorker.inc].obs) => c.key \in wkReached'
          BY <2>1, <3>2, ZenonT(30)
    <3> QED BY <1>1, <2>1, <2>3, <3>3, <3>4, ZenonT(30) DEF HeadInv, HeadOK
  <2>13. SucceededIsReal' /\ AckedEndIsPublished'
        BY <1>0, <1>1, <1>2, <2>1, <2>4, <2>6, ZenonT(30) DEF SucceededIsReal, AckedEndIsPublished
  <2> QED BY <2>10, <2>11, <2>12, <2>13, ZenonT(30) DEF WkInv
<1> QED BY <1>3, <1>4, ZenonT(30)

(* Controller.call: the worker acts, answered or not, and the operation whose *)
(* target it now is in counts as reached; the handler is done only after its  *)
(* operation's own action was confirmed.                                      *)
LEMMA CallKeeps ==
  ASSUME WkInv, NEW p \in WkProcs, CallWorker(p)
  PROVE  WkInv'
<1> DEFINE c == wkCalls[p]
           i == c.seen.inc
           a == c.calls[c.at]
           boot == [wkBoots[i] EXCEPT !.obs = Effect(wkBoots[i].obs, a)]
           next == [c EXCEPT !.at = @ + 1, !.seen.obs = Effect(@, a),
                             !.pc = IF c.at = Len(c.calls) THEN "done" ELSE "call"]
           failed == [c EXCEPT !.pc = "fail"]
<1>1. PICK r \in Answers :
           /\ IF r = "refused" THEN UNCHANGED <<wkBoots, wkReached>>
              ELSE /\ Boot(i, [wkBoots[i] EXCEPT !.obs = Effect(@, a)])
                   /\ wkReached' = wkReached \cup Reaches(wkBoots', wkHead, wkReceipts)
           /\ Proc(p, IF r = "ok" THEN next
                      ELSE IF r = "garbled" \/ (a = "resume" /\ c.at = 2) THEN NoCall ELSE failed)
      BY ZenonT(30) DEF CallWorker
<1>2. c.pc = "call" /\ UNCHANGED <<wkWorker, wkReceipts, wkHead, wkPublished>>
  <2>1. c.pc = "call" /\ UNCHANGED <<storeVars, wkPublished>>
        BY ZenonT(30) DEF CallWorker
  <2> QED BY <2>1, ZenonT(30) DEF storeVars
<1>3. /\ c \in CallRecords /\ CallOK(c, wkWorker, wkReceipts, wkHead, wkReached)
      /\ c.seen \in WorkerRecords /\ i \in WkIncarnations
      /\ Precedes(c.seen, wkWorker) /\ c.key \in WkKeys
      /\ wkWorker \in WorkerRecords /\ wkReceipts \in [WkKeys -> ReceiptRecords]
      /\ \A j \in WkKeys : wkReceipts[j].ok => j \in wkReached
      BY <1>2, HandlerFacts, ZenonT(30)
<1>0. WkTypeOK /\ HeadInv /\ CallsInv /\ AckedEndIsPublished
      BY ZenonT(30) DEF WkInv
<1> HIDE DEF c
<1>4. /\ c.calls \in Seq(WkActions) /\ c.at \in 1..Len(c.calls) /\ c.calls[Len(c.calls)] = c.op
      /\ c.op \in WkLifecycle /\ wkReceipts[c.key].op = c.op /\ wkReceipts[c.key].gen = WkGeneration[i]
      BY <1>2, <1>3, ZenonT(30) DEF CallOK, CallRecords
<1>5. a \in WkActions
      BY <1>4, ElementOf, ZenonT(30)
<1> HIDE DEF a
<1>6. /\ boot \in BootRecords /\ boot.acked = wkBoots[i].acked /\ boot.obs = Effect(wkBoots[i].obs, a)
  <2> DEFINE o == Effect(wkBoots[i].obs, a)
  <2>1. wkBoots[i] \in BootRecords /\ wkBoots[i].obs \in Observations
        BY <1>0, <1>3, ZenonT(30) DEF WkTypeOK, BootRecords
  <2>2. o \in Observations
        BY <1>5, <2>1, EffectFacts, ZenonT(30)
  <2> HIDE DEF o
  <2>3. /\ [wkBoots[i] EXCEPT !.obs = o] \in BootRecords /\ [wkBoots[i] EXCEPT !.obs = o].obs = o
        /\ [wkBoots[i] EXCEPT !.obs = o].acked = wkBoots[i].acked
        BY <2>1, <2>2, ZenonT(30) DEF BootRecords
  <2> QED BY <2>3, ZenonT(30) DEF o
<1>7. CASE r = "refused"
  <2>1. Proc(p, failed) \/ Proc(p, NoCall)
    <3> HIDE DEF failed, next
    <3> QED BY <1>1, <1>7, ZenonT(30)
  <2>2. UNCHANGED <<wkBoots, wkReached>>
        BY <1>1, <1>7, ZenonT(30)
  <2>3. KeepsReceipts(wkReceipts, wkReceipts')
        BY <1>2, ZenonT(30) DEF KeepsReceipts
  <2>4. failed \in CallRecords /\ CallOK(failed, wkWorker, wkReceipts, wkHead, wkReached)
    <3>1. failed \in CallRecords /\ failed.pc = "fail" /\ failed.seen = c.seen /\ failed.key = c.key /\ failed.op = c.op
          BY <1>3, ZenonT(30) DEF CallRecords
    <3> HIDE DEF failed
    <3> QED BY <1>2, <1>3, <3>1, ZenonT(30) DEF CallOK
  <2> HIDE DEF failed
  <2>5. CASE Proc(p, failed)
        BY <1>2, <1>3, <2>2, <2>3, <2>4, <2>5, HandlerKeeps, ZenonT(30)
  <2>6. CASE Proc(p, NoCall)
        BY <1>2, <1>3, <2>2, <2>3, <2>6, NoCallFacts, HandlerKeeps, ZenonT(30)
  <2> QED BY <2>1, <2>5, <2>6, ZenonT(30)
<1>8. CASE r # "refused"
  <2>1. wkBoots' = [wkBoots EXCEPT ![i] = boot] /\ wkReached' = wkReached \cup Reaches(wkBoots', wkHead, wkReceipts)
    <3> HIDE DEF next, failed
    <3> QED BY <1>1, <1>8, ZenonT(30) DEF Boot
  <2> HIDE DEF boot
  <2>2. /\ wkBoots' \in [WkIncarnations -> BootRecords] /\ wkBoots'[i] = boot
        /\ \A j \in WkIncarnations : wkBoots'[j].acked = wkBoots[j].acked
        BY <1>0, <1>3, <1>6, <2>1, ZenonT(30) DEF WkTypeOK
  <2>3. ASSUME wkHead # NoOp
        PROVE  /\ wkWorker.inc \in WkIncarnations
               /\ Promised(wkReceipts[wkHead].op, wkBoots'[wkWorker.inc].obs) => wkHead \in wkReached'
    <3>1. wkWorker.inc \in WkIncarnations /\ wkWorker.inc # Nobody
          BY <1>0, <2>3, WkAssumption, ZenonT(30) DEF HeadInv, HeadOK
    <3>2. Promised(wkReceipts[wkHead].op, wkBoots'[wkWorker.inc].obs) => wkHead \in Reaches(wkBoots', wkHead, wkReceipts)
          BY <2>3, <3>1, ZenonT(30) DEF Reaches
    <3> QED BY <2>1, <3>1, <3>2, ZenonT(30)
  <2>4. HeadInv'
        BY <1>0, <1>2, <2>3, ZenonT(30) DEF HeadInv, HeadOK
  <2>5. PICK n \in CallRecords : /\ Proc(p, n) /\ CallOK(n, wkWorker, wkReceipts, wkHead, wkReached')
    <3>1. CASE r = "ok"
      <4> DEFINE at == c.at + 1
                 o == Effect(c.seen.obs, a)
                 heard == [c.seen EXCEPT !.obs = o]
                 pc == IF c.at = Len(c.calls) THEN "done" ELSE "call"
                 m == [c EXCEPT !.at = at, !.seen = heard, !.pc = pc]
      <4>1. at \in Nat /\ pc \in {"done", "call"} /\ (pc = "call" => at \in 1..Len(c.calls))
            BY <1>4, NextIndex, ZenonT(30)
      <4>2. o \in Observations
        <5>1. c.seen.obs \in Observations
              BY <1>3, ZenonT(30) DEF WorkerRecords
        <5> QED BY <1>5, <5>1, EffectFacts, ZenonT(30)
      <4>3. next = m
            BY <1>3, ZenonT(30) DEF CallRecords
      <4>4. Proc(p, m)
        <5> HIDE DEF next, failed, m
        <5> QED BY <1>1, <3>1, <4>3, ZenonT(30)
      <4>5. pc = "done" => a = c.op
            BY <1>4, ZenonT(30) DEF a
      <4> HIDE DEF at, o, pc
      <4>6. heard \in WorkerRecords /\ heard.inc = i
            BY <1>3, <4>2, ZenonT(30) DEF WorkerRecords
      <4> HIDE DEF heard
      <4>7. /\ m \in CallRecords /\ m.at = at /\ m.seen = heard /\ m.pc = pc /\ m.op = c.op /\ m.key = c.key
            /\ m.calls = c.calls
            BY <1>3, <4>1, <4>6, ZenonT(30) DEF CallRecords
      <4> HIDE DEF m
      <4>8. Precedes(heard, wkWorker)
            BY <1>3, <4>6, ZenonT(30) DEF Precedes, GenOfWorker
      <4>9. ASSUME pc = "done", wkHead = c.key PROVE c.key \in wkReached'
        <5>1. c.key # NoOp /\ a = c.op
              BY <1>3, <4>5, <4>9, WkAssumption, ZenonT(30)
        <5>2. wkWorker.inc \in WkIncarnations /\ WkGeneration[wkWorker.inc] = WkGeneration[i]
              BY <1>0, <1>4, <4>9, <5>1, ZenonT(30) DEF HeadInv, HeadOK
        <5>3. wkWorker.inc = i
          <6>1. GenOfWorker(wkWorker) = GenOfWorker(c.seen) /\ GenOfWorker(wkWorker) \in Nat
                BY <1>3, <5>2, GenerationsAreNatural, ZenonT(30)
          <6> QED BY <1>3, <5>2, <6>1, PrecedesOrder, ZenonT(30)
        <5>4. Promised(c.op, boot.obs)
          <6>1. wkBoots[i].obs \in Observations
                BY <1>0, <1>3, ZenonT(30) DEF WkTypeOK, BootRecords
          <6> QED BY <1>4, <1>5, <1>6, <5>1, <6>1, EffectFacts, ZenonT(30)
        <5> QED BY <1>4, <2>2, <2>3, <4>9, <5>1, <5>3, <5>4, ZenonT(30)
      <4>10. CallOK(m, wkWorker, wkReceipts, wkHead, wkReached')
            BY <1>3, <1>4, <4>1, <4>6, <4>7, <4>8, <4>9, ZenonT(30) DEF CallOK
      <4> QED BY <4>4, <4>7, <4>10, ZenonT(30)
    <3>2. CASE r # "ok"
      <4>1. Proc(p, failed) \/ Proc(p, NoCall)
        <5> HIDE DEF failed, next
        <5> QED BY <1>1, <3>2, ZenonT(30)
      <4>2. /\ failed \in CallRecords /\ failed.pc = "fail" /\ failed.seen = c.seen /\ failed.key = c.key
            /\ failed.op = c.op
            BY <1>3, ZenonT(30) DEF CallRecords
      <4> HIDE DEF failed
      <4>3. CallOK(failed, wkWorker, wkReceipts, wkHead, wkReached')
            BY <1>2, <1>3, <4>2, ZenonT(30) DEF CallOK
      <4> QED BY <4>1, <4>2, <4>3, NoCallFacts, ZenonT(30)
    <3> QED BY <3>1, <3>2, ZenonT(30)
  <2>6. WkTypeOK' /\ \A q \in WkProcs : wkCalls'[q] = IF q = p THEN n ELSE wkCalls[q]
        BY <1>0, <1>2, <2>2, <2>5, ZenonT(30) DEF WkTypeOK, Proc
  <2>7. CallsInv'
    <3>1. /\ KeepsReceipts(wkReceipts, wkReceipts') /\ MovesHead(wkHead, wkHead', wkReceipts)
          /\ Precedes(wkWorker, wkWorker') /\ wkReached \subseteq wkReached'
          BY <1>2, <2>1, ZenonT(30) DEF KeepsReceipts, MovesHead, Precedes
    <3>2. \A q \in WkProcs : \/ wkCalls'[q] = wkCalls[q]
                             \/ CallOK(wkCalls'[q], wkWorker', wkReceipts', wkHead', wkReached')
          BY <1>2, <2>5, <2>6, ZenonT(30)
    <3> QED BY <1>0, <2>6, <3>1, <3>2, OtherHandlersKept, ZenonT(30)
  <2>8. SucceededIsReal' /\ AckedEndIsPublished'
        BY <1>0, <1>2, <1>3, <2>1, <2>2, ZenonT(30) DEF SucceededIsReal, AckedEndIsPublished
  <2> QED BY <2>4, <2>6, <2>7, <2>8, ZenonT(30) DEF WkInv
<1> QED BY <1>7, <1>8, ZenonT(30)

(* The registry's inductive invariant: what handlers have read, what the      *)
(* state file records and what the workers have been in belong together.      *)
THEOREM WorkerInvariant == WkSpec => []WkInv
<1>1. WkInit => WkInv
  <2> SUFFICES ASSUME WkInit PROVE WkInv
      BY ZenonT(30)
  <2>1. Fresh \in Observations /\ "failed" \in WkTerminal /\ NoReceipt \in ReceiptRecords
        BY ZenonT(30) DEF Fresh, Observations, WkTerminal, NoReceipt, ReceiptRecords
  <2>2. NoWorker \in WorkerRecords
        BY <2>1, ZenonT(30) DEF NoWorker, WorkerRecords
  <2>3. [phase |-> "absent", alive |-> FALSE, obs |-> Fresh, verdict |-> "failed", left |-> MaxWkReports,
         acked |-> "no"] \in BootRecords
    <3>1. MaxWkReports \in Int
          BY WkAssumption, NaturalIsInteger, ZenonT(30)
    <3> QED BY <2>1, <3>1, ZenonT(30) DEF BootRecords
  <2>4. WkTypeOK
        BY <2>1, <2>2, <2>3, NoCallFacts, ZenonT(30) DEF WkInit, WkTypeOK
  <2>5. HeadInv /\ SucceededIsReal /\ AckedEndIsPublished
        BY ZenonT(30) DEF WkInit, HeadInv, HeadOK, SucceededIsReal, AckedEndIsPublished, NoReceipt
  <2>6. CallsInv
        BY NoCallFacts, ZenonT(30) DEF WkInit, CallsInv
  <2> QED BY <2>4, <2>5, <2>6, ZenonT(30) DEF WkInv
<1>2. WkInv /\ [WkNext]_wkVars => WkInv'
  <2> SUFFICES ASSUME WkInv, [WkNext]_wkVars PROVE WkInv'
      BY ZenonT(30)
  <2>1. ASSUME NEW i \in WkIncarnations, RegisterWorker(i) PROVE WkInv'
        BY <2>1, RegisterKeeps, ZenonT(30)
  <2>2. ASSUME NEW i \in WkIncarnations, ReportExit(i) PROVE WkInv'
        BY <2>2, ReportKeeps, ZenonT(30)
  <2>3. ASSUME NEW p \in WkProcs, Discover(p) \/ Refresh(p) \/ ReconcilePending(p) \/ Begin(p) PROVE WkInv'
        BY <2>3, DiscoverKeeps, RefreshKeeps, ReconcileKeeps, BeginKeeps, ZenonT(30)
  <2>4. ASSUME NEW p \in WkProcs, Verify(p) \/ CallWorker(p) \/ Fail(p) \/ Finish(p) PROVE WkInv'
        BY <2>4, VerifyKeeps, CallKeeps, EndKeeps, ZenonT(30)
  <2>5. CASE UNCHANGED wkVars
        BY <2>5, ZenonT(30) DEF wkVars, WkInv, WkTypeOK, HeadInv, HeadOK, CallsInv, CallOK, SucceededIsReal, AckedEndIsPublished
  <2>6. CASE \/ \E i \in WkIncarnations : \/ Launch(i) \/ Authorize(i) \/ RegisterRefused(i)
                                          \/ Ends(i) \/ RegistrationFails(i) \/ ReportRefused(i)
             \/ Rebind \/ RegistryCrash
        BY <2>6, BootActions, ZenonT(30)
  <2> QED BY <2>1, <2>2, <2>3, <2>4, <2>5, <2>6, ZenonT(30) DEF WkNext
<1> QED BY <1>1, <1>2, PTL DEF WkSpec

(* An operation is recorded as succeeded only if the worker it was begun for  *)
(* has been in the state it promises since it was begun, for any number of    *)
(* concurrent handlers and incarnations, with lost answers, restarts of the   *)
(* registry and replaced generations (Controller.Apply, reconcilePending,     *)
(* Store.Complete).                                                           *)
THEOREM SucceededAlwaysReal == WkSpec => []SucceededIsReal
<1>1. WkInv => SucceededIsReal
      BY ZenonT(30) DEF WkInv
<1> QED BY <1>1, WorkerInvariant, PTL

(* An acknowledged end of a registered worker is known to Runtime, unless it  *)
(* was commanded, however often reporting it was tried (reportExit).          *)
THEOREM AckedEndAlwaysPublished == WkSpec => []AckedEndIsPublished
<1>1. WkInv => AckedEndIsPublished
      BY ZenonT(30) DEF WkInv
<1> QED BY <1>1, WorkerInvariant, PTL

==============================================================================
