-------------------------- MODULE AlarmFlow_proofs --------------------------
(* The alarms of a tool for every number of alarms, reports, refusals,      *)
(* crashes and connects: what upstream was last told of each is what the    *)
(* tool has, and a shed alarm is counted once.                              *)
EXTENDS AlarmFlow, SequenceTheorems, TLAPS

Entries == [al : Alarms, set : BOOLEAN, pending : BOOLEAN]

Typed ==
    /\ entries \in Seq(Entries)
    /\ recent \in [Signatures -> 0..Dedup]
    /\ picture \in [Alarms -> {"unknown", "set", "clear"}]
    /\ blurred \subseteq Alarms

(* Upstream was told of the alarm what the tool has, or that it is unknown. *)
Current(al) == picture[al] = "unknown" \/ (picture[al] = "set" <=> al \in actual)

(* One report at most is under way; it says what the tool has, and if it is *)
(* dropped as a duplicate that is known already.                            *)
Underway(al, s) ==
    /\ entries[s].set <=> al \in actual
    /\ recent[<<al, entries[s].set>>] >= Dedup \/ Current(al)

Clear(al) ==
    /\ PendingOf(al) = {} => Current(al)
    /\ \A s, t \in PendingOf(al) : s = t
    /\ \A s \in PendingOf(al) : Underway(al, s)

PictureInv == Typed /\ \A al \in Alarms : al \notin blurred => Clear(al)

----------------------------------------------------------------------------
LEMMA Constants == Dedup \in Nat \ {0} /\ Critical \subseteq Alarms
BY AlarmAssumption DEF AlarmAssumption

LEMMA EntryFacts ==
    ASSUME PictureInv, NEW s \in Seqs
    PROVE  /\ entries \in Seq(Entries) /\ Seqs = 1..Len(entries) /\ Len(entries) \in Nat
           /\ entries[s] \in Entries
           /\ entries[s].al \in Alarms /\ entries[s].set \in BOOLEAN
<1>1. entries \in Seq(Entries) /\ Seqs = 1..Len(entries) /\ Len(entries) \in Nat
  BY DEF PictureInv, Typed, Seqs
<1>2. entries[s] \in Entries
  BY <1>1
<1> QED BY <1>1, <1>2 DEF Entries

LEMMA PictureInit == Init => PictureInv
<1> SUFFICES ASSUME Init PROVE PictureInv
  OBVIOUS
<1>1. /\ entries = <<>> /\ recent = [g \in Signatures |-> Dedup] /\ actual = {}
      /\ picture = [al \in Alarms |-> "clear"] /\ blurred = {}
  BY DEF Init
<1>2. entries \in Seq(Entries) /\ Seqs = {}
  BY <1>1 DEF Seqs
<1>3. Typed
  BY <1>1, <1>2, Constants DEF Typed
<1>4. \A al \in Alarms : PendingOf(al) = {} /\ Current(al)
  BY <1>1, <1>2 DEF PendingOf, Pending, Current
<1> QED BY <1>3, <1>4 DEF PictureInv, Clear

(* What is left as it is.                                                   *)
LEMMA PictureFrame ==
    ASSUME PictureInv, UNCHANGED <<entries, actual, recent, picture, blurred>>
    PROVE  PictureInv'
<1>1. Typed'
  BY DEF PictureInv, Typed
<1>2. \A al \in Alarms : PendingOf(al)' = PendingOf(al) /\ Current(al)' = Current(al)
  BY DEF PendingOf, Pending, Seqs, Current
<1>3. \A al \in Alarms : Clear(al) => Clear(al)'
  <2> SUFFICES ASSUME NEW al \in Alarms, Clear(al) PROVE Clear(al)'
    OBVIOUS
  <2>1. \A s \in PendingOf(al) : Underway(al, s)'
    BY <1>2 DEF Clear, Underway
  <2> QED BY <1>2, <2>1 DEF Clear
<1> QED BY <1>1, <1>3 DEF PictureInv

----------------------------------------------------------------------------
(* Reports.                                                                 *)

LEMMA ReportStep ==
    ASSUME PictureInv, NEW a \in Alarms, NEW set \in BOOLEAN, Report(a, set)
    PROVE  PictureInv'
<1>1. PICK e \in Entries : e = [al |-> a, set |-> set, pending |-> TRUE]
  BY DEF Entries
<1>2. /\ entries' = Append(entries, e)
      /\ actual' = IF set THEN actual \cup {a} ELSE actual \ {a}
      /\ recent' = recent /\ picture' = picture
  BY <1>1 DEF Report
<1>3. /\ entries \in Seq(Entries) /\ entries' \in Seq(Entries)
      /\ Len(entries) \in Nat /\ Seqs = 1..Len(entries) /\ Seqs' = 1..(Len(entries) + 1)
      /\ \A s \in Seqs : entries'[s] = entries[s]
      /\ entries'[Len(entries) + 1] = e
  BY <1>2, AppendProperties DEF PictureInv, Typed, Seqs
<1>4. Typed'
  <2>1. blurred' \subseteq Alarms
    BY DEF Report, PictureInv, Typed
  <2> QED BY <1>2, <1>3, <2>1 DEF PictureInv, Typed, Signatures
<1>5. e.al = a /\ e.set = set /\ e.pending
  BY <1>1
<1>6. \A al \in Alarms \ {a} : /\ PendingOf(al)' = PendingOf(al)
                               /\ al \in actual' <=> al \in actual
  BY <1>2, <1>3, <1>5 DEF PendingOf, Pending
<1>7. PendingOf(a)' = PendingOf(a) \cup {Len(entries) + 1}
  BY <1>3, <1>5 DEF PendingOf, Pending
<1>8. a \in actual' <=> set
  BY <1>2
<1>9. ASSUME NEW al \in Alarms \ {a}, al \notin blurred' PROVE Clear(al)'
  <2>1. al \notin blurred
    BY <1>9 DEF Report
  <2>2. Clear(al)
    BY <2>1 DEF PictureInv
  <2>3. Current(al)' = Current(al)
    BY <1>2, <1>6 DEF Current
  <2>4. ASSUME NEW s \in PendingOf(al) PROVE Underway(al, s)'
    <3>1. entries'[s] = entries[s] /\ Underway(al, s)
      BY <1>3, <2>2, <2>4 DEF Clear, PendingOf, Pending
    <3> QED BY <1>2, <1>6, <2>3, <3>1 DEF Underway
  <2> QED BY <1>6, <2>2, <2>3, <2>4 DEF Clear
<1>10. ASSUME a \notin blurred' PROVE Clear(a)'
  <2>1. PendingOf(a) = {}
    BY <1>10 DEF Report
  <2>2. recent[<<a, set>>] \in 0..Dedup /\ Dedup \in Nat
    BY Constants DEF PictureInv, Typed, Signatures
  <2>3. recent[<<a, set>>] < Dedup => (a \in actual <=> set)
    <3>1. ASSUME recent[<<a, set>>] < Dedup, (a \in actual) # set PROVE FALSE
      BY <1>10, <2>2, <3>1 DEF Report
    <3>2. (a \in actual) = set \/ (a \in actual) # set
      OBVIOUS
    <3>3. (a \in actual) = set => (a \in actual <=> set)
      OBVIOUS
    <3> QED BY <3>1, <3>2, <3>3
  <2>4. recent[<<a, set>>] >= Dedup \/ Current(a)'
    <3>1. CASE recent[<<a, set>>] >= Dedup
      BY <3>1
    <3>2. CASE recent[<<a, set>>] < Dedup
      <4>1. a \in actual <=> set
        BY <2>3, <3>2
      <4>2. a \notin blurred
        BY <1>10, <2>1, <2>2, <3>2 DEF Report
      <4>3. Current(a)
        BY <2>1, <4>2 DEF PictureInv, Clear
      <4> QED BY <1>2, <1>8, <4>1, <4>3 DEF Current
    <3> QED BY <2>2, <3>1, <3>2
  <2>5. PendingOf(a)' = {Len(entries) + 1}
    BY <1>7, <2>1
  <2>6. PICK n : n = Len(entries) + 1
    OBVIOUS
  <2>7. entries'[n].set = set /\ recent'[<<a, set>>] = recent[<<a, set>>]
    BY <1>2, <1>3, <1>5, <2>6
  <2>8. Underway(a, n)'
    BY <1>8, <2>4, <2>7 DEF Underway
  <2> QED BY <2>5, <2>6, <2>8 DEF Clear
<1> QED BY <1>4, <1>9, <1>10 DEF PictureInv

LEMMA UnreportedStep ==
    ASSUME PictureInv, NEW a \in Alarms, Unreported(a) PROVE PictureInv'
<1>1. /\ blurred' = blurred \cup {a} /\ UNCHANGED <<entries, recent, picture>>
      /\ actual' = IF a \in actual THEN actual \ {a} ELSE actual \cup {a}
  BY DEF Unreported
<1>2. Typed'
  BY <1>1 DEF PictureInv, Typed
<1>3. ASSUME NEW al \in Alarms, al \notin blurred' PROVE Clear(al)'
  <2>1. Clear(al) /\ (al \in actual' <=> al \in actual)
    BY <1>1, <1>3 DEF PictureInv
  <2>2. PendingOf(al)' = PendingOf(al) /\ Current(al)' = Current(al)
    BY <1>1, <2>1 DEF PendingOf, Pending, Seqs, Current
  <2>3. \A s \in PendingOf(al) : Underway(al, s)'
    BY <1>1, <2>1, <2>2 DEF Clear, Underway
  <2> QED BY <2>1, <2>2, <2>3 DEF Clear
<1> QED BY <1>2, <1>3 DEF PictureInv

----------------------------------------------------------------------------
(* A dispatch.                                                              *)

LEMMA DispatchStep ==
    ASSUME PictureInv, NEW s \in Pending, Dispatch(s), actual' = actual
    PROVE  PictureInv'
<1>0. PICK a, v : a = entries[s].al /\ v = entries[s].set
  OBVIOUS
<1>1. /\ entries \in Seq(Entries) /\ s \in Seqs /\ Seqs = 1..Len(entries)
      /\ entries[s] \in Entries /\ a \in Alarms /\ v \in BOOLEAN /\ entries[s].pending
      /\ s \in PendingOf(a)
  <2>1. s \in Seqs /\ entries[s].pending /\ s \in PendingOf(a)
    BY <1>0 DEF Pending, PendingOf
  <2> QED BY <1>0, <2>1, EntryFacts
<1>2. recent' = [recent EXCEPT ![<<a, v>>] = 0] /\ <<a, v>> \in Signatures
  BY <1>0, <1>1 DEF Dispatch, Signature, Signatures
<1>3. \A g \in Signatures : g # <<a, v>> => recent'[g] = recent[g]
  BY <1>2 DEF PictureInv, Typed
<1>4. recent' \in [Signatures -> 0..Dedup]
  BY <1>2, Constants DEF PictureInv, Typed
<1>5. Decided \in Entries /\ ~Decided.pending
  <2>1. (CHOOSE al \in Alarms : TRUE) \in Alarms
    BY <1>1
  <2> QED BY <2>1 DEF Decided, Entries
<1>6. /\ Settled(s) \in Seq(Entries) /\ DOMAIN Settled(s) = Seqs
      /\ Settled(s)[s] = Decided
      /\ \A t \in Seqs : t # s => Settled(s)[t] = entries[t]
  BY <1>1, <1>5 DEF Settled, Seqs
<1>7. /\ Published(s) \in [Alarms -> {"unknown", "set", "clear"}]
      /\ Published(s)[a] = IF v THEN "set" ELSE "clear"
      /\ \A al \in Alarms \ {a} : Published(s)[al] = picture[al]
  BY <1>0, <1>1 DEF PictureInv, Typed, Published
<1>8. \/ entries' = Settled(s) /\ picture' = picture /\ blurred' = blurred /\ Duplicate(s)
      \/ entries' = Settled(s) /\ picture' = picture /\ blurred' = blurred \cup ({a} \ Critical)
         /\ ~Admitted(s)
      \/ entries' = Settled(s) /\ picture' = Published(s) /\ blurred' = blurred
      \/ entries' = entries /\ picture' = picture /\ blurred' = blurred \cup {a}
  BY <1>0 DEF Dispatch, DropDuplicate, Shed, Publish
<1>9. ~Admitted(s) => a \notin Critical
  BY <1>0 DEF Admitted, Exempt
<1>10. Typed'
  BY <1>1, <1>4, <1>6, <1>7, <1>8 DEF PictureInv, Typed
<1>11. ASSUME NEW al \in Alarms \ {a}, al \notin blurred' PROVE Clear(al)'
  <2>1. al \notin blurred /\ Clear(al) /\ picture'[al] = picture[al]
    BY <1>7, <1>8, <1>11 DEF PictureInv
  <2>2. PendingOf(al)' = PendingOf(al)
    <3>1. CASE entries' = entries
      BY <3>1 DEF PendingOf, Pending, Seqs
    <3>2. CASE entries' = Settled(s)
      BY <1>0, <1>1, <1>5, <1>6, <3>2 DEF PendingOf, Pending, Seqs
    <3> QED BY <1>8, <3>1, <3>2
  <2>3. Current(al)' = Current(al)
    BY <2>1 DEF Current
  <2>4. ASSUME NEW t \in PendingOf(al) PROVE Underway(al, t)'
    <3>1. t \in Seqs /\ t # s /\ Underway(al, t)
      BY <1>0, <2>1, <2>4 DEF PendingOf, Pending, Clear
    <3>2. entries'[t] = entries[t]
      BY <1>6, <1>8, <3>1
    <3>3. entries[t].set \in BOOLEAN
      BY <3>1, EntryFacts
    <3>4. recent'[<<al, entries[t].set>>] = recent[<<al, entries[t].set>>]
      BY <1>3, <3>3 DEF Signatures
    <3> QED BY <2>3, <3>1, <3>2, <3>4 DEF Underway
  <2> QED BY <2>1, <2>2, <2>3, <2>4 DEF Clear
<1>12. ASSUME a \notin blurred' PROVE Clear(a)'
  <2>1. a \notin blurred /\ entries' = Settled(s)
    BY <1>8, <1>9, <1>12
  <2>2. Clear(a) /\ Underway(a, s)
    BY <1>1, <2>1 DEF PictureInv, Clear
  <2>3. PendingOf(a)' = {}
    <3>1. \A t \in PendingOf(a) : t = s
      BY <1>1, <2>2 DEF Clear
    <3>2. ASSUME NEW t \in PendingOf(a)' PROVE FALSE
      <4>1. t \in Seqs /\ entries'[t].pending /\ entries'[t].al = a
        BY <1>6, <2>1, <3>2 DEF PendingOf, Pending, Seqs
      <4>2. t # s
        BY <1>5, <1>6, <2>1, <4>1
      <4>3. entries'[t] = entries[t]
        BY <1>6, <2>1, <4>1, <4>2
      <4>4. t \in PendingOf(a)
        BY <4>1, <4>3 DEF PendingOf, Pending
      <4> QED BY <3>1, <4>2, <4>4
    <3> QED BY <3>2
  <2>4. Current(a)'
    <3>1. CASE picture' = Published(s)
      <4>1. picture'[a] = IF v THEN "set" ELSE "clear"
        BY <1>7, <3>1
      <4>2. v \in BOOLEAN /\ (v <=> a \in actual)
        BY <1>0, <1>1, <2>2 DEF Underway
      <4>3. picture'[a] = "set" <=> v
        BY <4>1, <4>2
      <4> QED BY <4>2, <4>3 DEF Current
    <3>2. CASE picture' = picture /\ Duplicate(s)
      <4>1. recent[<<a, v>>] < Dedup
        BY <1>0, <3>2 DEF Duplicate, Signature
      <4>2. recent[<<a, v>>] \in 0..Dedup /\ Dedup \in Nat
        BY <1>2, Constants DEF PictureInv, Typed
      <4>3. Current(a)
        BY <1>0, <2>2, <4>1, <4>2 DEF Underway
      <4> QED BY <3>2, <4>3 DEF Current
    <3>3. ~(a \notin Critical /\ blurred' = blurred \cup ({a} \ Critical))
      BY <1>12
    <3> QED BY <1>8, <1>9, <1>12, <3>1, <3>2, <3>3
  <2> QED BY <2>3, <2>4 DEF Clear
<1>13. a \in Alarms
  BY <1>1
<1> QED BY <1>10, <1>11, <1>12 DEF PictureInv

LEMMA CallbackStep == ASSUME PictureInv, Callback PROVE PictureInv'
<1>1. actual' = actual
  BY DEF Callback
<1>2. CASE call \in Pending
  <2>1. Dispatch(call)
    BY <1>2 DEF Callback
  <2> QED BY <1>1, <1>2, <2>1, DispatchStep
<1>3. CASE call \notin Pending
  BY <1>3, PictureFrame DEF Callback
<1> QED BY <1>2, <1>3

LEMMA ReplayOneStep == ASSUME PictureInv, ReplayOne PROVE PictureInv'
<1>1. PICK s : s = Head(pass)
  OBVIOUS
<1>2. actual' = actual
  BY DEF ReplayOne
<1>3. CASE s \in Pending
  <2>1. Dispatch(s)
    BY <1>1, <1>3 DEF ReplayOne
  <2> QED BY <1>2, <1>3, <2>1, DispatchStep
<1>4. CASE s \notin Pending
  BY <1>1, <1>2, <1>4, PictureFrame DEF ReplayOne
<1> QED BY <1>3, <1>4

----------------------------------------------------------------------------
(* Connects, time and crashes.                                              *)

LEMMA StateUnknownStep == ASSUME PictureInv, StateUnknown PROVE PictureInv'
<1>1. UNCHANGED <<entries, actual, recent>>
  BY DEF StateUnknown
<1>2. \/ UNCHANGED <<picture, blurred>>
      \/ /\ picture' = [al \in Alarms |-> "unknown"]
         /\ blurred' = {al \in blurred : PendingOf(al) # {}}
  BY DEF StateUnknown
<1>3. CASE UNCHANGED <<picture, blurred>>
  BY <1>1, <1>3, PictureFrame
<1>4. CASE /\ picture' = [al \in Alarms |-> "unknown"]
           /\ blurred' = {al \in blurred : PendingOf(al) # {}}
  <2>1. Typed'
    BY <1>1, <1>4 DEF PictureInv, Typed
  <2>2. \A al \in Alarms : Current(al)' /\ PendingOf(al)' = PendingOf(al)
    BY <1>1, <1>4 DEF Current, PendingOf, Pending, Seqs
  <2>3. ASSUME NEW al \in Alarms, al \notin blurred' PROVE Clear(al)'
    <3>1. PendingOf(al) = {} \/ Clear(al)
      BY <1>4, <2>3 DEF PictureInv
    <3>2. \A s \in PendingOf(al) : Underway(al, s)'
      BY <1>1, <2>2, <3>1 DEF Clear, Underway
    <3> QED BY <2>2, <3>1, <3>2 DEF Clear
  <2> QED BY <2>1, <2>3 DEF PictureInv
<1> QED BY <1>2, <1>3, <1>4

(* A signature only grows older.                                            *)
LEMMA OlderStep ==
    ASSUME PictureInv, UNCHANGED <<entries, actual, picture, blurred>>,
           recent' \in [Signatures -> 0..Dedup],
           \A g \in Signatures : recent'[g] >= recent[g]
    PROVE  PictureInv'
<1>1. Typed'
  BY DEF PictureInv, Typed
<1>2. \A al \in Alarms : PendingOf(al)' = PendingOf(al) /\ Current(al)' = Current(al)
  BY DEF PendingOf, Pending, Seqs, Current
<1>3. ASSUME NEW al \in Alarms, Clear(al), NEW s \in PendingOf(al) PROVE Underway(al, s)'
  <2>1. Underway(al, s) /\ s \in Seqs /\ entries[s].set \in BOOLEAN
    <3>1. Underway(al, s) /\ s \in Seqs
      BY <1>3 DEF Clear, PendingOf, Pending
    <3> QED BY <3>1, EntryFacts
  <2>2. PICK g \in Signatures : g = <<al, entries[s].set>>
    BY <2>1 DEF Signatures
  <2>3. recent[g] \in 0..Dedup /\ recent'[g] \in 0..Dedup /\ recent'[g] >= recent[g]
        /\ Dedup \in Nat
    BY <2>2, Constants DEF PictureInv, Typed
  <2> QED BY <1>2, <2>1, <2>2, <2>3 DEF Underway
<1> QED BY <1>1, <1>2, <1>3 DEF PictureInv, Clear

LEMMA TickStep == ASSUME PictureInv, Tick PROVE PictureInv'
<1>1. UNCHANGED <<entries, actual, picture, blurred>>
  BY DEF Tick
<1>2. recent' = [g \in Signatures |-> IF recent[g] < Dedup THEN recent[g] + 1 ELSE Dedup]
  BY DEF Tick
<1>3. recent \in [Signatures -> 0..Dedup]
  BY DEF PictureInv, Typed
<1>4. /\ recent' \in [Signatures -> 0..Dedup]
      /\ \A g \in Signatures : recent'[g] >= recent[g]
  BY <1>2, <1>3, Constants
<1> QED BY <1>1, <1>4, OlderStep

LEMMA CrashStep == ASSUME PictureInv, Crash PROVE PictureInv'
<1>1. UNCHANGED <<entries, actual, picture, blurred>>
  BY DEF Crash
<1>2. recent' = [g \in Signatures |-> Dedup]
  BY DEF Crash
<1>3. recent \in [Signatures -> 0..Dedup]
  BY DEF PictureInv, Typed
<1>4. /\ recent' \in [Signatures -> 0..Dedup]
      /\ \A g \in Signatures : recent'[g] >= recent[g]
  BY <1>2, <1>3, Constants
<1> QED BY <1>1, <1>4, OlderStep

LEMMA PictureStep == PictureInv /\ [Next]_vars => PictureInv'
<1> SUFFICES ASSUME PictureInv, [Next]_vars PROVE PictureInv'
  OBVIOUS
<1>1. CASE Connection
  BY <1>1, PictureFrame DEF Connection, alarmVars
<1>2. ASSUME NEW al \in Alarms, NEW set \in BOOLEAN, Report(al, set) PROVE PictureInv'
  BY <1>2, ReportStep
<1>3. ASSUME NEW al \in Alarms, Unreported(al) PROVE PictureInv'
  BY <1>3, UnreportedStep
<1>4. CASE ReplayStarts
  BY <1>4, PictureFrame DEF ReplayStarts
<1>5. CASE Booted
  BY <1>5, PictureFrame DEF Booted
<1>6. CASE Drain
  BY <1>6, PictureFrame DEF Drain
<1>7. CASE UNCHANGED vars
  BY <1>7, PictureFrame DEF vars, alarmVars
<1> QED
  BY <1>1, <1>2, <1>3, <1>4, <1>5, <1>6, <1>7, StateUnknownStep, CallbackStep,
     ReplayOneStep, TickStep, CrashStep DEF Next

(* Once the alarms a tool reported are decided, upstream was last told of   *)
(* each what the tool has, or that it is not known (alarm_flow.py 79-123    *)
(* and 196-225, alarms.py 44-81).                                           *)
THEOREM AlarmPicture == Spec => []PictureIsTrue
<1>1. ASSUME NEW al \in Alarms, Current(al)
      PROVE  picture[al] = "unknown" \/ (picture[al] = "set") = (al \in actual)
  BY <1>1 DEF Current
<1>2. PictureInv => PictureIsTrue
  BY <1>1 DEF PictureInv, Clear, PictureIsTrue
<1> QED BY <1>2, PictureInit, PictureStep, PTL DEF Spec

----------------------------------------------------------------------------
(* The counts of the limiter.                                               *)

Counted ==
    /\ drops \in Nat /\ untold \in Nat
    /\ drops <= untold
    /\ ~lost => drops = untold

LEMMA CountFrame ==
    ASSUME Counted, UNCHANGED <<drops, untold, lost>> PROVE Counted'
BY DEF Counted

LEMMA DispatchCounts ==
    ASSUME Counted, NEW s, Dispatch(s) PROVE Counted'
<1>1. CASE DropDuplicate(s)
  BY <1>1, CountFrame DEF DropDuplicate, Dispatch
<1>2. CASE Shed(s)
  <2>1. drops' = drops + 1 /\ untold' = untold + 1 /\ lost' = lost
    BY <1>2 DEF Shed
  <2> QED BY <2>1 DEF Counted
<1>3. CASE Publish(s)
  BY <1>3, CountFrame DEF Publish
<1> QED BY <1>1, <1>2, <1>3 DEF Dispatch

LEMMA DrainCounts == ASSUME Counted, Drain PROVE Counted'
<1>1. drops' = 0
  BY DEF Drain
<1>2. CASE untold' = untold - drops /\ lost' = lost
  BY <1>1, <1>2 DEF Counted
<1>3. CASE lost' = TRUE /\ untold' = untold
  BY <1>1, <1>3 DEF Counted
<1> QED BY <1>2, <1>3 DEF Drain

LEMMA CrashCounts == ASSUME Counted, Crash PROVE Counted'
<1>1. /\ drops' = 0 /\ untold' = untold
      /\ ~lost' => ~lost /\ ~(drops > 0)
  BY DEF Crash
<1>2. ~(drops > 0) => drops = 0
  BY DEF Counted
<1> QED BY <1>1, <1>2 DEF Counted

LEMMA CountStep == Counted /\ [Next]_vars => Counted'
<1> SUFFICES ASSUME Counted, [Next]_vars PROVE Counted'
  OBVIOUS
<1>1. CASE Connection
  BY <1>1, CountFrame DEF Connection, alarmVars
<1>2. ASSUME NEW al \in Alarms, NEW set \in BOOLEAN, Report(al, set) PROVE Counted'
  BY <1>2, CountFrame DEF Report
<1>3. ASSUME NEW al \in Alarms, Unreported(al) PROVE Counted'
  BY <1>3, CountFrame DEF Unreported
<1>4. CASE Callback
  <2>1. CASE call \in Pending
    BY <1>4, <2>1, DispatchCounts DEF Callback
  <2>2. CASE call \notin Pending
    BY <1>4, <2>2, CountFrame DEF Callback
  <2> QED BY <2>1, <2>2
<1>5. CASE ReplayOne
  <2>1. PICK s : s = Head(pass)
    OBVIOUS
  <2>3. CASE s \in Pending
    BY <1>5, <2>1, <2>3, DispatchCounts DEF ReplayOne
  <2>4. CASE s \notin Pending
    BY <1>5, <2>1, <2>4, CountFrame DEF ReplayOne
  <2> QED BY <2>3, <2>4
<1>6. CASE ReplayStarts
  BY <1>6, CountFrame DEF ReplayStarts
<1>7. CASE Booted
  BY <1>7, CountFrame DEF Booted
<1>8. CASE StateUnknown
  BY <1>8, CountFrame DEF StateUnknown
<1>9. CASE Tick
  BY <1>9, CountFrame DEF Tick
<1>10. CASE UNCHANGED vars
  BY <1>10, CountFrame DEF vars, alarmVars
<1> QED
  BY <1>1, <1>2, <1>3, <1>4, <1>5, <1>6, <1>7, <1>8, <1>9, <1>10, DrainCounts,
     CrashCounts DEF Next

(* The summaries count no alarm the limiter did not shed, and none twice;   *)
(* and what they have not counted is just what the limiter still has to     *)
(* tell, unless a crash or a refused summary took a count away (alarms.py   *)
(* 44-96, alarm_flow.py 169-193).                                           *)
THEOREM ShedCountedOnce == Spec => []Counted
<1>1. Init => Counted
  BY DEF Init, Counted
<1> QED BY <1>1, CountStep, PTL DEF Spec
=============================================================================
