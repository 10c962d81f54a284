--------------------------- MODULE SettingsProofs ---------------------------
(***************************************************************************)
(* Theorems about Settings, for all sets of names and networks and every   *)
(* number of saves.  Errors of erases and programs are always allowed;     *)
(* only the last theorem excludes errors of reads.                         *)
(***************************************************************************)
EXTENDS Settings, TLAPS

-----------------------------------------------------------------------------
(***************************************************************************)
(* The election.                                                           *)
(***************************************************************************)
\* Rotation counters of live sides are numbers.
Counted(p) == \A s \in LiveSides(p) : p[s].head.ctr \in Nat

\* The other side is a side, another one, and there is no third.
LEMMA TwoSides ==
  ASSUME NEW s \in Side
  PROVE  Other(s) \in Side /\ Other(s) # s /\ \A t \in Side : t = s \/ t = Other(s)
BY DEF Side, Other

\* The elected side is live, and no live side has a greater rotation counter.
LEMMA ElectedIsLive ==
  ASSUME NEW p, LiveSides(p) # {}, Counted(p)
  PROVE  /\ Elected(p) \in LiveSides(p)
         /\ \A t \in LiveSides(p) :
              \/ p[t].head.ctr < p[Elected(p)].head.ctr
              \/ p[t].head.ctr = p[Elected(p)].head.ctr /\ (Elected(p) = "A" \/ t = Elected(p))
<1> DEFINE Best(s) == \A t \in LiveSides(p) :
                        \/ p[t].head.ctr < p[s].head.ctr
                        \/ p[t].head.ctr = p[s].head.ctr /\ (s = "A" \/ t = s)
<1>1. LiveSides(p) \subseteq {"A", "B"}
  BY DEF LiveSides, Side
<1>2. \E s \in LiveSides(p) : Best(s)
  <2>1. CASE LiveSides(p) = {"A"}
    BY <2>1
  <2>2. CASE LiveSides(p) = {"B"}
    BY <2>2
  <2>3. CASE LiveSides(p) = {"A", "B"}
    <3>1. p["A"].head.ctr \in Nat /\ p["B"].head.ctr \in Nat
      BY <2>3 DEF Counted
    <3>2. CASE p["A"].head.ctr < p["B"].head.ctr
      BY <2>3, <3>2
    <3>3. CASE p["B"].head.ctr <= p["A"].head.ctr
      BY <2>3, <3>1, <3>3
    <3> QED BY <3>1, <3>2, <3>3
  <2> QED BY <1>1, <2>1, <2>2, <2>3
<1>3. Elected(p) = CHOOSE s \in LiveSides(p) : Best(s)
  BY DEF Elected
<1> HIDE DEF Best
<1>4. Elected(p) \in LiveSides(p) /\ Best(Elected(p))
  BY <1>2, <1>3
<1> QED BY <1>4 DEF Best

\* A side that is the only live one is elected.
LEMMA OnlyLiveIsElected ==
  ASSUME NEW p, NEW s, LiveSides(p) = {s}, Counted(p)
  PROVE  Elected(p) = s
BY ElectedIsLive

\* Of two live sides the one with the greater counter is elected.
LEMMA GreaterIsElected ==
  ASSUME NEW p, NEW s, Counted(p), s \in LiveSides(p),
         \A t \in LiveSides(p) : t # s => p[t].head.ctr < p[s].head.ctr
  PROVE  Elected(p) = s
<1>1. Elected(p) \in LiveSides(p)
  BY ElectedIsLive
<1>2. SUFFICES ASSUME Elected(p) # s PROVE FALSE
  OBVIOUS
<1>3. p[Elected(p)].head.ctr < p[s].head.ctr
  BY <1>1, <1>2
<1>4. p[s].head.ctr <= p[Elected(p)].head.ctr
  BY ElectedIsLive DEF Counted
<1> QED BY <1>1, <1>3, <1>4 DEF Counted

-----------------------------------------------------------------------------
USE SettingsAssumption

Pairs == [Side -> {Blank, Garbage} \cup Live]

-----------------------------------------------------------------------------
(* What the two sides say, before and after one of them is written. *)

\* A live side holds a record under a sequence number in range.
LEMMA LiveIsSlot ==
  ASSUME NEW p \in Pairs
  PROVE  /\ Counted(p)
         /\ \A s \in LiveSides(p) :
              /\ s \in Side /\ p[s].record \in Records
              /\ p[s].head.ctr \in 1 .. (MaxSeq - 1)
BY DEF Pairs, Counted, LiveSides, Live, Blank, Garbage

LEMMA DefaultsTyped == Defaults \in Records
BY DEF Defaults, Records

\* What is read, and where the next save goes, have their types.
LEMMA ReadTyped ==
  ASSUME NEW p \in Pairs
  PROVE  /\ Stored(p) \in Records /\ Target(p) \in Side
         /\ NextSeq(p) \in 1 .. MaxSeq
<1>1. CASE LiveSides(p) = {}
  BY <1>1, DefaultsTyped DEF Stored, Target, NextSeq, Side
<1>2. CASE LiveSides(p) # {}
  <2>1. Elected(p) \in LiveSides(p)
    BY <1>2, ElectedIsLive, LiveIsSlot
  <2>2. Other(Elected(p)) \in Side
    BY <2>1, LiveIsSlot, TwoSides
  <2> QED BY <1>2, <2>1, <2>2, LiveIsSlot DEF Stored, Target, NextSeq
<1> QED BY <1>1, <1>2

\* A save's target is not the side that is read.
LEMMA TargetLost ==
  ASSUME NEW p \in Pairs, LiveSides(p) # {}
  PROVE  /\ Elected(p) \in LiveSides(p) /\ Elected(p) # Target(p)
         /\ Other(Elected(p)) = Target(p) /\ LiveSides(p) \subseteq {Elected(p), Target(p)}
<1>1. Elected(p) \in LiveSides(p) /\ Elected(p) \in Side
  BY ElectedIsLive, LiveIsSlot
<1>2. Target(p) = Other(Elected(p))
  BY DEF Target
<1> QED BY <1>1, <1>2, TwoSides, LiveIsSlot

\* Whatever an erase or a program leaves of the target short of a header, what
\* is read and where the next save goes are as before.
TargetSpoilt(p, q) ==
  \E left \in {p[Target(p)], Garbage, Blank} : q = [p EXCEPT ![Target(p)] = left]

LEMMA TargetIsFree ==
  ASSUME NEW p \in Pairs, NEW q, TargetSpoilt(p, q)
  PROVE  /\ q \in Pairs /\ Stored(q) = Stored(p)
         /\ Target(q) = Target(p) /\ NextSeq(q) = NextSeq(p)
         /\ Older(q) \in {Older(p), Defaults}
<1> DEFINE t == Target(p)
<1>1. PICK left \in {p[t], Garbage, Blank} : q = [p EXCEPT ![t] = left]
  BY DEF TargetSpoilt
<1>2. t \in Side
  BY ReadTyped
<1> HIDE DEF t
<1>3. q \in Pairs
  BY <1>1, <1>2 DEF Pairs
<1>4. CASE left = p[t]
  <2>1. q = p
    BY <1>1, <1>2, <1>4 DEF Pairs
  <2> QED BY <1>3, <2>1
<1>5. CASE left # p[t]
  <2>1. left \in {Garbage, Blank} /\ q[t] = left /\ \A s \in Side : s # t => q[s] = p[s]
    BY <1>1, <1>2, <1>5 DEF Pairs
  <2>2. LiveSides(q) = LiveSides(p) \ {t}
    BY <1>2, <2>1 DEF LiveSides, Garbage, Blank
  <2>3. Older(q) = Defaults
    BY <1>2, <2>2 DEF Older, LiveSides
  <2>4. CASE LiveSides(p) = {}
    BY <1>3, <2>2, <2>3, <2>4 DEF Stored, Target, NextSeq
  <2>5. CASE LiveSides(p) # {}
    <3>1. Elected(p) \in LiveSides(p) /\ Elected(p) # t /\ LiveSides(p) \subseteq {Elected(p), t}
      BY <2>5, TargetLost DEF t
    <3>2. LiveSides(q) = {Elected(p)}
      BY <2>2, <3>1
    <3>3. Elected(q) = Elected(p) /\ q[Elected(p)] = p[Elected(p)]
      BY <1>3, <2>1, <3>1, <3>2, OnlyLiveIsElected, LiveIsSlot
    <3> QED BY <1>3, <2>3, <2>5, <3>2, <3>3 DEF Stored, Target, NextSeq, t
  <2> QED BY <2>4, <2>5
<1> QED BY <1>4, <1>5

\* The new header wins the election, and what was read before is behind it.
WithHeader(p, r) == [p EXCEPT ![Target(p)] = Slot(NextSeq(p), r)]

LEMMA HeaderWins ==
  ASSUME NEW p \in Pairs, NEW r \in Records, Target(p) \notin LiveSides(p),
         NextSeq(p) < MaxSeq
  PROVE  /\ WithHeader(p, r) \in Pairs
         /\ Stored(WithHeader(p, r)) = r /\ Older(WithHeader(p, r)) = Stored(p)
<1> SUFFICES ASSUME NEW q, q = WithHeader(p, r)
             PROVE  q \in Pairs /\ Stored(q) = r /\ Older(q) = Stored(p)
  OBVIOUS
<1> DEFINE tgt == Target(p)
           n == NextSeq(p)
<1>1. tgt \in Side /\ n \in 1 .. (MaxSeq - 1) /\ Other(tgt) \in Side /\ Other(tgt) # tgt
  BY ReadTyped, TwoSides
<1> HIDE DEF tgt, n
<1>2. q[tgt] = Slot(n, r) /\ \A s \in Side : s # tgt => q[s] = p[s]
  BY <1>1 DEF Pairs, WithHeader, tgt, n
<1>3. Slot(n, r) \in Live
  BY <1>1 DEF Slot, Live
<1>4. q \in Pairs
  BY <1>1, <1>3 DEF Pairs, WithHeader, tgt, n
<1>5. LiveSides(q) = LiveSides(p) \cup {tgt} /\ q[tgt].head.ctr = n /\ q[tgt].record = r
  BY <1>1, <1>2 DEF LiveSides, Slot
<1>6. CASE LiveSides(p) = {}
  <2>1. LiveSides(q) = {tgt} /\ Elected(q) = tgt /\ LiveSides(q) # Side
    BY <1>1, <1>4, <1>5, <1>6, OnlyLiveIsElected, LiveIsSlot
  <2> QED BY <1>4, <1>5, <1>6, <2>1 DEF Stored, Older
<1>7. CASE LiveSides(p) # {}
  <2>1. /\ Elected(p) \in LiveSides(p) /\ Elected(p) # tgt /\ LiveSides(p) \subseteq {Elected(p), tgt}
        /\ Other(Elected(p)) = tgt /\ Elected(p) \in Side
    BY <1>7, TargetLost, LiveIsSlot DEF tgt
  <2>2. LiveSides(q) = {Elected(p), tgt} /\ q[Elected(p)] = p[Elected(p)]
    BY <1>2, <1>5, <2>1
  <2>3. n = p[Elected(p)].head.ctr + 1 /\ p[Elected(p)].head.ctr \in Nat
    BY <1>7, <2>1, LiveIsSlot DEF NextSeq, n
  <2>4. Elected(q) = tgt
    <3>1. Counted(q) /\ tgt \in LiveSides(q)
      BY <1>4, <1>5, LiveIsSlot
    <3>2. q[Elected(p)].head.ctr < q[tgt].head.ctr
      BY <1>5, <2>2, <2>3
    <3>3. \A s \in LiveSides(q) : s # tgt => q[s].head.ctr < q[tgt].head.ctr
      BY <2>2, <3>2
    <3> QED BY <3>1, <3>3, GreaterIsElected
  <2>5. Other(tgt) = Elected(p) /\ LiveSides(q) = Side
    BY <1>1, <2>1, <2>2, TwoSides DEF Side, Other
  <2>6. Stored(q) = r
    BY <1>5, <2>2, <2>4 DEF Stored
  <2>7. Older(q) = Stored(p)
    BY <1>7, <2>2, <2>4, <2>5 DEF Stored, Older
  <2> QED BY <1>4, <2>6, <2>7
<1> QED BY <1>6, <1>7

\* An erase of either side, cut or not, leaves what is read, or takes the record
\* behind it, or puts that record in its place.
LEMMA ClearTakesOne ==
  ASSUME NEW p \in Pairs, NEW s \in Side, NEW q \in ErasedOrTorn(p, s)
  PROVE  /\ q \in Pairs
         /\ \/ Stored(q) = Stored(p) /\ Older(q) = Older(p)
            \/ Stored(q) = Stored(p) /\ Older(q) = Defaults
            \/ Stored(q) = Older(p) /\ Older(q) = Defaults
<1>1. PICK left \in {p[s], Garbage, Blank} : q = [p EXCEPT ![s] = left]
  BY DEF ErasedOrTorn
<1>2. q \in Pairs
  BY <1>1 DEF Pairs
<1>3. CASE left = p[s]
  <2>1. q = p
    BY <1>1, <1>3 DEF Pairs
  <2> QED BY <1>2, <2>1
<1>4. CASE left # p[s] /\ s = Target(p)
  BY <1>1, <1>2, <1>4, TargetIsFree DEF TargetSpoilt
<1>5. CASE left # p[s] /\ s # Target(p)
  <2>1. left \in {Garbage, Blank} /\ q[s] = left /\ \A u \in Side : u # s => q[u] = p[u]
    BY <1>1, <1>5 DEF Pairs
  <2>2. LiveSides(q) = LiveSides(p) \ {s}
    BY <2>1 DEF LiveSides, Garbage, Blank
  <2>3. Older(q) = Defaults
    BY <2>2 DEF Older, LiveSides
  <2>4. CASE LiveSides(p) = {}
    BY <1>2, <2>2, <2>3, <2>4 DEF Stored
  <2>5. CASE LiveSides(p) # {}
    <3> DEFINE t == Target(p)
    <3>1. /\ Elected(p) \in LiveSides(p) /\ LiveSides(p) \subseteq {Elected(p), t}
          /\ Elected(p) # t /\ Other(Elected(p)) = t /\ Elected(p) \in Side /\ t \in Side
      BY <2>5, TargetLost, LiveIsSlot, ReadTyped
    <3>2. s = Elected(p)
      BY <1>5, <3>1 DEF Side
    <3> HIDE DEF t
    <3>3. CASE t \in LiveSides(p)
      <4>1. LiveSides(q) = {t} /\ q[t] = p[t]
        BY <2>1, <2>2, <3>1, <3>2, <3>3
      <4>2. Elected(q) = t
        BY <1>2, <4>1, OnlyLiveIsElected, LiveIsSlot
      <4>3. LiveSides(p) = Side
        BY <3>1, <3>3 DEF Side
      <4> QED BY <1>2, <2>3, <3>1, <4>1, <4>2, <4>3 DEF Stored, Older
    <3>4. CASE t \notin LiveSides(p)
      BY <1>2, <2>2, <2>3, <3>1, <3>2, <3>4 DEF Stored, Older
    <3> QED BY <3>3, <3>4
  <2> QED BY <2>4, <2>5
<1> QED BY <1>3, <1>4, <1>5

-----------------------------------------------------------------------------
(***************************************************************************)
(* The inductive invariant.  TypeOK alone is not inductive: that a save    *)
(* writes a slot in range, and wins, follows from the target and the       *)
(* sequence number being those of the flash as it is until the header.     *)
(***************************************************************************)
Saving ==
  /\ job.target = Target(pair) /\ job.seq = NextSeq(pair) /\ job.seq < MaxSeq
  /\ pc # "erase" => job.target \notin LiveSides(pair)

Inv ==
  /\ TypeOK
  /\ pc \in SaveSteps => Saving
  /\ job.stored => pc = "answer" /\ Stored(pair) = job.record

LEMMA NoJobTyped == NoJob \in Jobs /\ ~NoJob.stored /\ NoJob.field = "none"
BY DefaultsTyped DEF NoJob, Jobs, Side

LEMMA InvInit == Init => Inv
<1> SUFFICES ASSUME Init PROVE Inv
  OBVIOUS
<1>1. TypeOK
  BY NoJobTyped, DefaultsTyped DEF Init, TypeOK
<1> QED BY <1>1, NoJobTyped DEF Init, Inv, SaveSteps

\* What a boot or a user action loads is a record.
LEMMA LoadedTyped ==
  ASSUME TypeOK
  PROVE  Loaded \subseteq Records
BY ReadTyped, DefaultsTyped DEF TypeOK, Loaded, Pairs

\* The flash after a step of a save that is cut is the flash before it, with
\* the target spoilt, or with the new slot in it.
LEMMA TornSave ==
  ASSUME Inv, pc \in SaveSteps, NEW q \in Torn
  PROVE  \/ TargetSpoilt(pair, q)
         \/ pc = "header" /\ q = [pair EXCEPT ![job.target] = Slot(job.seq, job.record)]
<1>1. job.target = Target(pair)
  BY DEF Inv, Saving
<1>2. CASE pc = "erase"
  BY <1>1, <1>2 DEF Torn, TargetSpoilt, ErasedOrTorn
<1>3. CASE pc = "payload"
  BY <1>1, <1>3 DEF Torn, TargetSpoilt, HeadBodyOrTorn
<1>4. CASE pc = "header"
  BY <1>1, <1>4 DEF Torn, TargetSpoilt, HeadMacOrTorn
<1> QED BY <1>2, <1>3, <1>4 DEF SaveSteps

\* The flash after a completed step is a flash that a cut may leave too.
LEMMA StepIsTorn ==
  ASSUME Inv, Erase \/ WritePayload \/ WriteHeader \/ ClearA \/ ClearB
  PROVE  pair' \in Torn
BY DEF Erase, WritePayload, WriteHeader, ClearA, ClearB, Torn, ErasedOrTorn,
       HeadBodyOrTorn, HeadMacOrTorn

\* What one access to flash does to the register.
LEMMA TornRegister ==
  ASSUME Inv, NEW q \in Torn
  PROVE  /\ q \in Pairs
         /\ \/ q = pair
            \/ /\ pc \in SaveSteps /\ TargetSpoilt(pair, q)
               /\ Stored(q) = Stored(pair) /\ Older(q) \in {Older(pair), Defaults}
            \/ /\ pc = "header" /\ q = [pair EXCEPT ![job.target] = Slot(job.seq, job.record)]
               /\ Stored(q) = job.record /\ Older(q) = Stored(pair)
            \/ /\ pc \in ClearSteps
               /\ \/ Stored(q) = Stored(pair) /\ Older(q) = Older(pair)
                  \/ Stored(q) = Stored(pair) /\ Older(q) = Defaults
                  \/ Stored(q) = Older(pair) /\ Older(q) = Defaults
<1>1. pair \in Pairs
  BY DEF Inv, TypeOK, Pairs
<1>2. CASE pc \in SaveSteps
  <2>1. CASE TargetSpoilt(pair, q)
    BY <1>1, <1>2, <2>1, TargetIsFree
  <2>2. CASE pc = "header" /\ q = [pair EXCEPT ![job.target] = Slot(job.seq, job.record)]
    <3>1. /\ job.target = Target(pair) /\ job.seq = NextSeq(pair) /\ NextSeq(pair) < MaxSeq
          /\ Target(pair) \notin LiveSides(pair) /\ job.record \in Records
      BY <1>2, <2>2 DEF Inv, Saving, TypeOK, Jobs
    <3>2. q = WithHeader(pair, job.record)
      BY <2>2, <3>1 DEF WithHeader
    <3>3. q \in Pairs /\ Stored(q) = job.record /\ Older(q) = Stored(pair)
      BY <1>1, <3>1, <3>2, HeaderWins
    <3> QED BY <2>2, <3>3
  <2> QED BY <1>2, <2>1, <2>2, TornSave
<1>3. CASE pc \in ClearSteps
  <2>1. q \in ErasedOrTorn(pair, "A") \/ q \in ErasedOrTorn(pair, "B")
    BY <1>3 DEF Torn, ClearSteps
  <2>2. PICK s \in Side : q \in ErasedOrTorn(pair, s)
    BY <2>1 DEF Side
  <2> QED BY <1>1, <1>3, <2>2, ClearTakesOne
<1>4. CASE pc \notin SaveSteps \cup ClearSteps
  BY <1>1, <1>4 DEF Torn, SaveSteps, ClearSteps
<1> QED BY <1>2, <1>3, <1>4

-----------------------------------------------------------------------------
(* Every step preserves the invariant and is a step of the register. *)

LEMMA InvStep ==
  ASSUME Inv, [Next]_vars
  PROVE  Inv'
<1>0. CASE UNCHANGED vars
  BY <1>0 DEF vars, Inv, TypeOK, Saving, Stored, Target, NextSeq
<1> SUFFICES ASSUME Next PROVE Inv'
  BY <1>0
<1>1. pair \in Pairs /\ job \in Jobs /\ TypeOK /\ Loaded \subseteq Records
  BY LoadedTyped DEF Inv, TypeOK, Pairs
<1>2. CASE Boot
  BY <1>1, <1>2 DEF Boot, Inv, TypeOK, SaveSteps
<1>3. ASSUME NEW n \in Names, SetName(n) PROVE Inv'
  <2>1. PICK r \in Loaded :
          job' = [NoJob EXCEPT !.field = "name", !.record = [r EXCEPT !.name = n]]
    BY <1>3 DEF SetName, Update
  <2>2. [r EXCEPT !.name = n] \in Records
    BY <1>1, <2>1 DEF Records
  <2>3. job' \in Jobs /\ ~job'.stored
    BY <2>1, <2>2, NoJobTyped DEF Jobs, NoJob
  <2>4. asked' \in [name : SUBSET Names, network : SUBSET Networks]
    BY <1>1, <1>3 DEF SetName, TypeOK
  <2> QED BY <1>1, <1>3, <2>3, <2>4 DEF SetName, Update, Inv, TypeOK, SaveSteps
<1>4. ASSUME NEW w \in Networks, SetNetwork(w) PROVE Inv'
  <2>1. PICK r \in Loaded :
          job' = [NoJob EXCEPT !.field = "network", !.record = [r EXCEPT !.network = w]]
    BY <1>4 DEF SetNetwork, Update
  <2>2. [r EXCEPT !.network = w] \in Records
    BY <1>1, <2>1 DEF Records
  <2>3. job' \in Jobs /\ ~job'.stored
    BY <2>1, <2>2, NoJobTyped DEF Jobs, NoJob
  <2>4. /\ asked' \in [name : SUBSET Names, network : SUBSET Networks]
        /\ ui' \in Records
    BY <1>1, <1>4 DEF SetNetwork, TypeOK, Records
  <2> QED BY <1>1, <1>4, <2>3, <2>4 DEF SetNetwork, Update, Inv, TypeOK, SaveSteps
<1>5. CASE Elect
  <2>0. Target(pair) \in Side /\ NextSeq(pair) \in 0 .. MaxSeq
    BY <1>1, ReadTyped
  <2>1. /\ job' \in Jobs /\ job'.stored = job.stored /\ job'.target = Target(pair)
        /\ job'.seq = NextSeq(pair)
    BY <1>1, <1>5, <2>0 DEF Elect, Jobs
  <2> QED BY <1>1, <1>5, <2>1 DEF Elect, Inv, TypeOK, SaveSteps, Saving
<1>6. CASE RefuseSave
  BY <1>1, <1>6 DEF RefuseSave, Inv, TypeOK, SaveSteps
<1>7. CASE Erase \/ WritePayload
  <2>1. pc \in SaveSteps /\ pc # "header" /\ pair' \in Torn
    BY <1>7, StepIsTorn DEF Erase, WritePayload, SaveSteps
  <2>2. TargetSpoilt(pair, pair')
    BY <2>1, TornSave
  <2>3. /\ pair' \in Pairs /\ Target(pair') = Target(pair)
        /\ NextSeq(pair') = NextSeq(pair)
    BY <1>1, <2>2, TargetIsFree
  <2>4. job.target \in Side /\ job.target \notin LiveSides(pair')
    BY <1>1, <1>7 DEF Erase, WritePayload, LiveSides, Blank, Garbage, Jobs, Pairs
  <2>5. Saving'
    BY <1>7, <2>1, <2>3, <2>4 DEF Erase, WritePayload, Inv, Saving
  <2> QED BY <1>1, <1>7, <2>1, <2>3, <2>5
          DEF Erase, WritePayload, Inv, TypeOK, Pairs, SaveSteps
<1>8. CASE WriteHeader
  <2>1. pair' \in Torn /\ pc = "header"
        /\ pair' = [pair EXCEPT ![job.target] = Slot(job.seq, job.record)]
    BY <1>8, StepIsTorn DEF WriteHeader
  <2>2. /\ job.target = Target(pair) /\ job.seq = NextSeq(pair) /\ NextSeq(pair) < MaxSeq
        /\ Target(pair) \notin LiveSides(pair) /\ job.record \in Records
    BY <1>1, <2>1 DEF Inv, Saving, SaveSteps, Jobs
  <2>3. pair' \in Pairs /\ Stored(pair') = job.record
    <3>1. pair' = WithHeader(pair, job.record)
      BY <2>1, <2>2 DEF WithHeader
    <3> QED BY <1>1, <2>2, <3>1, HeaderWins
  <2>4. job' \in Jobs /\ job'.record = job.record
    BY <1>1, <1>8 DEF WriteHeader, Jobs
  <2> QED BY <1>1, <1>8, <2>3, <2>4 DEF WriteHeader, Inv, TypeOK, Pairs, SaveSteps
<1>9. CASE Answer
  <2>1. ui' \in Records
    BY <1>1, <1>9 DEF Answer, TypeOK, Records, Jobs
  <2>2. asked' \in [name : SUBSET Names, network : SUBSET Networks]
    BY <1>1, <1>9 DEF Answer, TypeOK, Records, Jobs
  <2> QED BY <1>1, <1>9, <2>1, <2>2, NoJobTyped DEF Answer, Inv, TypeOK, SaveSteps
<1>10. CASE Clear
  BY <1>1, <1>10 DEF Clear, Inv, TypeOK, SaveSteps, ClearSteps
<1>11. CASE ClearA \/ ClearB
  <2>1. pair' \in Torn /\ pc \in ClearSteps
    BY <1>11, StepIsTorn DEF ClearA, ClearB, ClearSteps
  <2>2. pair' \in Pairs
    BY <2>1, TornRegister
  <2> QED BY <1>1, <1>11, <2>2
          DEF ClearA, ClearB, Inv, TypeOK, Pairs, SaveSteps, ClearSteps
<1>12. CASE Cut
  <2>1. pair' \in Pairs
    BY <1>12, TornRegister DEF Cut
  <2> QED BY <1>1, <1>12, <2>1, NoJobTyped DEF Cut, Inv, TypeOK, Pairs, SaveSteps
<1>13. CASE Fault
  <2>1. pair' \in Pairs
    BY <1>13, TornRegister DEF Fault
  <2> QED BY <1>1, <1>13, <2>1 DEF Fault, Inv, TypeOK, Pairs, SaveSteps, ClearSteps
<1> QED BY <1>2, <1>3, <1>4, <1>5, <1>6, <1>7, <1>8, <1>9, <1>10, <1>11, <1>12, <1>13
        DEF Next

\* Every step is one step of the register, or none.
LEMMA StepImplements ==
  ASSUME Inv, [Next]_vars
  PROVE  [Register!Next]_<<Stored(pair), Older(pair), pc \in ClearSteps>>
<1> USE DEF Register!Next, Register!Save, Register!DropOlder, Register!DropValue,
            Register!StartOrStopClear
<1>0. CASE UNCHANGED vars
  BY <1>0 DEF vars, Stored, Older
<1> SUFFICES ASSUME Next
             PROVE  [Register!Next]_<<Stored(pair), Older(pair), pc \in ClearSteps>>
  BY <1>0
<1>1. CASE UNCHANGED pair
  <2>1. Stored(pair') = Stored(pair) /\ Older(pair') = Older(pair)
    BY <1>1
  <2>2. (pc \in ClearSteps)' \in BOOLEAN /\ (pc \in ClearSteps) \in BOOLEAN
    OBVIOUS
  <2> QED BY <2>1, <2>2
<1>2. CASE pair' \in Torn /\ (pc \in SaveSteps => pc' \notin ClearSteps)
  <2>1. job.record \in Records /\ SaveSteps \cap ClearSteps = {} /\ "header" \in SaveSteps
    BY DEF Inv, TypeOK, Jobs, SaveSteps, ClearSteps
  <2>2. CASE pair' = pair
    BY <1>1, <2>2
  <2>3. CASE /\ pc \in SaveSteps
             /\ Stored(pair') = Stored(pair) /\ Older(pair') \in {Older(pair), Defaults}
    <3>1. pc \notin ClearSteps /\ pc' \notin ClearSteps
      BY <1>2, <2>1, <2>3
    <3>2. CASE Older(pair') = Older(pair)
      BY <2>3, <3>1, <3>2
    <3>3. CASE Older(pair') = Defaults
      <4>1. Register!DropOlder
        BY <2>3, <3>1, <3>3
      <4> QED BY <4>1
    <3> QED BY <2>3, <3>2, <3>3
  <2>4. CASE /\ pc = "header" /\ Stored(pair') = job.record /\ Older(pair') = Stored(pair)
    <3>1. pc \notin ClearSteps /\ pc' \notin ClearSteps
      BY <1>2, <2>1, <2>4
    <3>2. Register!Save(job.record)
      BY <2>4, <3>1
    <3> QED BY <2>1, <3>2
  <2>5. CASE /\ pc \in ClearSteps
             /\ \/ Stored(pair') = Stored(pair) /\ Older(pair') = Older(pair)
                \/ Stored(pair') = Stored(pair) /\ Older(pair') = Defaults
                \/ Stored(pair') = Older(pair) /\ Older(pair') = Defaults
    <3>1. CASE Stored(pair') = Stored(pair) /\ Older(pair') = Older(pair)
      BY <3>1
    <3>2. CASE Stored(pair') = Stored(pair) /\ Older(pair') = Defaults
      <4>1. Register!DropOlder
        BY <2>5, <3>2
      <4> QED BY <4>1
    <3>3. CASE Stored(pair') = Older(pair) /\ Older(pair') = Defaults
      <4>1. Register!DropValue
        BY <2>5, <3>3
      <4> QED BY <4>1
    <3> QED BY <2>5, <3>1, <3>2, <3>3
  <2> QED BY <1>2, <2>2, <2>3, <2>4, <2>5, TornRegister
<1>3. CASE Erase \/ WritePayload \/ WriteHeader \/ ClearA \/ ClearB
  <2>1. pc \in SaveSteps => pc' \notin ClearSteps
    BY <1>3 DEF Erase, WritePayload, WriteHeader, ClearA, ClearB, SaveSteps, ClearSteps
  <2> QED BY <1>2, <1>3, <2>1, StepIsTorn
<1>4. CASE Cut \/ Fault
  BY <1>2, <1>4 DEF Cut, Fault, SaveSteps, ClearSteps
<1> QED BY <1>1, <1>3, <1>4
        DEF Next, Boot, SetName, SetNetwork, Update, Elect, RefuseSave, Answer, Clear

-----------------------------------------------------------------------------
(***************************************************************************)
(* The values on flash are among those asked for, if reads do not fail.    *)
(* The invariant says so of the record under way too, and that a clear     *)
(* promises nothing until it is done.                                      *)
(***************************************************************************)
Anything == [name |-> Names, network |-> Networks]

IsAsked(r) == r.name \in asked.name /\ r.network \in asked.network

AskInv ==
  /\ Inv
  /\ IsAsked(Stored(pair))
  /\ pc \in {"load_current", "answer"} \cup SaveSteps => IsAsked(job.record)
  /\ pc \in ClearSteps => asked = Anything
  /\ pc = "clear_b" => "A" \notin LiveSides(pair)

LEMMA AskInit == Init => AskInv
<1> SUFFICES ASSUME Init PROVE AskInv
  OBVIOUS
<1>1. LiveSides(pair) = {}
  BY DEF Init, LiveSides, Blank, Garbage
<1> QED BY <1>1, InvInit DEF Init, AskInv, IsAsked, Stored, Defaults, SaveSteps, ClearSteps

\* What a save leaves, completed or not, was asked for.
LEMMA TornAsked ==
  ASSUME AskInv, NEW q \in Torn
  PROVE  IsAsked(Stored(q))
<1>1. CASE pc \in ClearSteps
  <2>1. Stored(q) \in Records
    BY TornRegister, ReadTyped DEF AskInv
  <2> QED BY <1>1, <2>1 DEF AskInv, IsAsked, Anything, Records
<1>2. CASE pc \notin ClearSteps
  <2>1. Stored(q) \in {Stored(pair), job.record} /\ (Stored(q) = Stored(pair) \/ pc \in SaveSteps)
    BY <1>2, TornRegister DEF AskInv, SaveSteps
  <2> QED BY <2>1 DEF AskInv
<1> QED BY <1>1, <1>2

LEMMA AskStep ==
  ASSUME AskInv, [Next]_vars, ~ReadFaults
  PROVE  AskInv'
<1>0. Inv'
  BY InvStep DEF AskInv
<1>1. CASE UNCHANGED vars
  BY <1>0, <1>1 DEF vars, AskInv, IsAsked, Stored, LiveSides
<1> SUFFICES ASSUME Next PROVE AskInv'
  BY <1>1
<1>2. TypeOK /\ job \in Jobs /\ Loaded = {Stored(pair)} /\ Stored(pair) \in Records
  BY ReadTyped DEF AskInv, Inv, TypeOK, Loaded, Pairs
<1> USE DEF SaveSteps, ClearSteps
<1>3. CASE Boot
  BY <1>0, <1>3 DEF Boot, AskInv, IsAsked
<1>4. ASSUME NEW n \in Names, SetName(n) PROVE AskInv'
  <2>1. job'.record = [Stored(pair) EXCEPT !.name = n]
    BY <1>2, <1>4 DEF SetName, Update, NoJob
  <2>2. /\ asked'.name = asked.name \cup {n} /\ asked'.network = asked.network
        /\ pc' = "load_current" /\ pair' = pair
    BY <1>2, <1>4 DEF SetName, Update, TypeOK
  <2>3. IsAsked(Stored(pair))' /\ IsAsked(job.record)'
    BY <1>2, <2>1, <2>2 DEF AskInv, IsAsked, Records
  <2> QED BY <1>0, <2>2, <2>3 DEF AskInv
<1>5. ASSUME NEW w \in Networks, SetNetwork(w) PROVE AskInv'
  <2>1. job'.record = [Stored(pair) EXCEPT !.network = w]
    BY <1>2, <1>5 DEF SetNetwork, Update, NoJob
  <2>2. /\ asked'.network = asked.network \cup {w} /\ asked'.name = asked.name
        /\ pc' = "load_current" /\ pair' = pair
    BY <1>2, <1>5 DEF SetNetwork, Update, TypeOK
  <2>3. IsAsked(Stored(pair))' /\ IsAsked(job.record)'
    BY <1>2, <2>1, <2>2 DEF AskInv, IsAsked, Records
  <2> QED BY <1>0, <2>2, <2>3 DEF AskInv
<1>6. CASE Elect \/ RefuseSave
  <2>1. job'.record = job.record
    BY <1>2, <1>6 DEF Elect, RefuseSave, Jobs
  <2> QED BY <1>0, <1>6, <2>1 DEF Elect, RefuseSave, AskInv, IsAsked
<1>7. CASE Erase \/ WritePayload \/ WriteHeader
  <2>1. job'.record = job.record /\ asked' = asked
    BY <1>2, <1>7 DEF Erase, WritePayload, WriteHeader, Jobs
  <2>2. IsAsked(Stored(pair'))
    BY <1>7, StepIsTorn, TornAsked DEF AskInv
  <2>3. IsAsked(job.record)
    BY <1>7 DEF Erase, WritePayload, WriteHeader, AskInv
  <2>4. IsAsked(Stored(pair))' /\ IsAsked(job.record)'
    BY <2>1, <2>2, <2>3 DEF IsAsked
  <2> QED BY <1>0, <1>7, <2>4 DEF Erase, WritePayload, WriteHeader, AskInv
<1>8. CASE Answer
  <2>1. job.stored => Stored(pair) = job.record
    BY DEF AskInv, Inv
  <2>2. asked \in [name : SUBSET Names, network : SUBSET Networks]
    BY <1>2 DEF TypeOK
  <2>3. CASE ~job.stored
    <3>1. asked' = asked /\ pair' = pair /\ pc' = "idle"
      BY <1>2, <1>8, <2>3 DEF Answer, Jobs
    <3>2. IsAsked(Stored(pair))'
      BY <3>1 DEF AskInv, IsAsked
    <3> QED BY <1>0, <3>1, <3>2 DEF AskInv
  <2>4. CASE job.stored /\ job.field = "name"
    <3>1. asked' = [asked EXCEPT !.name = {Stored(pair).name}] /\ pair' = pair /\ pc' = "idle"
      BY <1>8, <2>1, <2>4 DEF Answer
    <3>2. IsAsked(Stored(pair))'
      BY <2>2, <3>1 DEF AskInv, IsAsked
    <3> QED BY <1>0, <3>1, <3>2 DEF AskInv
  <2>5. CASE job.stored /\ job.field # "name"
    <3>1. asked' = [asked EXCEPT !.network = {Stored(pair).network}] /\ pair' = pair /\ pc' = "idle"
      BY <1>8, <2>1, <2>5 DEF Answer
    <3>2. IsAsked(Stored(pair))'
      BY <2>2, <3>1 DEF AskInv, IsAsked
    <3> QED BY <1>0, <3>1, <3>2 DEF AskInv
  <2> QED BY <2>3, <2>4, <2>5
<1>9. CASE Clear
  <2>1. IsAsked(Stored(pair))' /\ asked' = Anything /\ pc' = "clear_a"
    BY <1>2, <1>9 DEF Clear, IsAsked, Anything, Records
  <2> QED BY <1>0, <2>1 DEF AskInv
<1>10. CASE ClearA
  <2>1. IsAsked(Stored(pair')) /\ asked' = asked /\ pc' = "clear_b" /\ asked = Anything
    BY <1>10, StepIsTorn, TornAsked DEF ClearA, AskInv
  <2>2. "A" \notin LiveSides(pair')
    BY <1>2, <1>10 DEF ClearA, LiveSides, Blank, TypeOK
  <2> QED BY <1>0, <2>1, <2>2 DEF AskInv, IsAsked
<1>11. CASE ClearB
  <2>1. LiveSides(pair') = {}
    BY <1>2, <1>11 DEF ClearB, AskInv, LiveSides, Blank, TypeOK, Side
  <2> QED BY <1>0, <1>11, <2>1 DEF ClearB, AskInv, IsAsked, Stored, Defaults
<1>12. CASE Cut
  <2>1. IsAsked(Stored(pair')) /\ asked' = asked /\ pc' = "off"
    BY <1>12, TornAsked DEF Cut
  <2> QED BY <1>0, <2>1 DEF AskInv, IsAsked
<1>13. CASE Fault
  <2>1. IsAsked(Stored(pair')) /\ asked' = asked /\ job' = job
    BY <1>13, TornAsked DEF Fault
  <2>2. /\ pc' \in {"idle", "answer"}
        /\ pc' = "answer" => pc \in SaveSteps
    BY <1>13 DEF Fault
  <2>3. IsAsked(Stored(pair))'
    BY <2>1 DEF IsAsked
  <2>4. ASSUME pc' = "answer" PROVE IsAsked(job.record)'
    <3>1. IsAsked(job.record)
      BY <2>2, <2>4 DEF AskInv
    <3> QED BY <2>1, <3>1 DEF IsAsked
  <2> QED BY <1>0, <2>2, <2>3, <2>4 DEF AskInv
<1> QED BY <1>3, <1>4, <1>5, <1>6, <1>7, <1>8, <1>9, <1>10, <1>11, <1>12, <1>13 DEF Next

-----------------------------------------------------------------------------
(* The theorems. *)

\* The variables keep their types, and no slot on flash has a sequence number
\* that an erased or a zeroed header reads as (settings.rs Header::parse).
THEOREM SettingsTyped == Spec => []TypeOK
<1>1. Inv => TypeOK
  BY DEF Inv
<1> QED BY <1>1, InvInit, InvStep, PTL DEF Spec

\* A save that reports success is what the next load reads (settings.rs save).
THEOREM StoredMeansRead == Spec => []StoredIsRead
<1>1. Inv => StoredIsRead
  BY DEF Inv, StoredIsRead
<1> QED BY <1>1, InvInit, InvStep, PTL DEF Spec

\* Under cuts and errors at every access the region is a register whose value
\* a save replaces in one step and only a clear takes away.
THEOREM SettingsAreRegister == Spec => ImplementsRegister
<1>1. Init => Register!Init
  <2> SUFFICES ASSUME Init PROVE Register!Init
    OBVIOUS
  <2>1. LiveSides(pair) = {} /\ LiveSides(pair) # Side /\ pc \notin ClearSteps
    BY DEF Init, LiveSides, Blank, Garbage, ClearSteps, Side
  <2> QED BY <2>1 DEF Register!Init, Stored, Older
<1>2. Inv /\ [Next]_vars => [Register!Next]_<<Stored(pair), Older(pair), pc \in ClearSteps>>
  BY StepImplements
<1> QED BY <1>1, <1>2, InvInit, InvStep, PTL DEF Spec, ImplementsRegister, Register!Spec, Register!vars

\* If reads do not fail, each setting on flash is the one last reported as
\* stored or one asked for since (firmware settings::update, settings.rs save).
THEOREM SettingsAreAsked ==
  ASSUME ReadFaults = FALSE
  PROVE  Spec => []OnlyWhatWasAsked
<1>1. AskInv => OnlyWhatWasAsked
  BY DEF AskInv, IsAsked, OnlyWhatWasAsked
<1>2. AskInv /\ [Next]_vars => AskInv'
  BY AskStep
<1> QED BY <1>1, <1>2, AskInit, PTL DEF Spec

=============================================================================
