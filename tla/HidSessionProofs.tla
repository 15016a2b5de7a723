-------------------------- MODULE HidSessionProofs --------------------------
(***************************************************************************)
(* Proofs about the life of a session: no report without its UHID_CREATE,  *)
(* and what open, close and Drop leave on the phone when sends fail.       *)
(*                                                                         *)
(* Every step of the writer lets the wire grow by messages of one buffer:  *)
(* what was pending and the message that is sent.  The invariant says what *)
(* may be in that buffer and what the session's fields and the devices     *)
(* still on its list say about the wire.                                   *)
(***************************************************************************)
EXTENDS HidSession, SequenceTheorems, TLAPS

Report ==
  [id : Nat, size : Nat, critical : BOOLEAN,
   kind : {"CREATE", "INPUT", "DESTROY"}, dev : Devices]

Elems(s)    == {s[i] : i \in 1..Len(s)}
Distinct(s) == \A i, j \in 1..Len(s) : s[i] = s[j] => i = j

\* Message k for device d is on the wire.
OnWire(k, d) == \E i \in 1..Len(wire) : At(i, k, d)

\* Device d got exactly one UHID_DESTROY, behind its every UHID_CREATE.
DestroyedOnce(d) ==
  \E j \in 1..Len(wire) :
    /\ At(j, "DESTROY", d)
    /\ \A i \in 1..Len(wire) :
         /\ At(i, "CREATE", d) => i < j
         /\ At(i, "DESTROY", d) => i = j

Settled(d) == ~OnWire("CREATE", d) \/ DestroyedOnce(d)

Types ==
  /\ have \in [Devices -> BOOLEAN]
  /\ pc \in {"opening", "open", "closing", "dropping", "released", "gone"}
  /\ todo \in Seq(Devices) /\ Distinct(todo)
  /\ wire \in Seq(Report) /\ pending \in Seq(Report)
  /\ pushed \in Nat /\ faults \in Nat
  /\ direct => pending = <<>>

\* Only input reports of created devices wait in the buffer.
BufferOK ==
  \A x \in Elems(pending) : x.kind = "INPUT" /\ OnWire("CREATE", x.dev)

Closing == pc \in {"closing", "dropping"}

UseOK ==
  /\ CreatedBeforeUse
  /\ \A d \in Devices : have[d] => OnWire("CREATE", d)

TodoOK ==
  /\ pc = "opening" =>
       /\ todo # <<>> /\ ~closed /\ ~opened
       /\ \A d \in Elems(todo) : ~have[d]
  /\ Closing => \A d \in Elems(todo) : have[d]

\* What has been handled is off the phone, whatever failed before.
CloseOK ==
  /\ Closing => \A d \in Devices : (have[d] /\ d \notin Elems(todo)) => ~OnDevice(d)
  /\ closed => \A d \in Devices : have[d] => ~OnDevice(d)

RollbackOK ==
  /\ pc \in {"open", "closing"} => opened
  /\ pc = "dropping" => (opened \/ faults >= 1)
  /\ pc \in {"released", "gone"} =>
       \/ opened
       \/ faults >= 2
       \/ \A d \in Devices : have[d] => ~OnDevice(d)

\* As long as no send failed.
PairedOK ==
  faults = 0 =>
    /\ have["gamepad"] => slot
    /\ (pc \in {"opening", "open"} /\ ~closed) =>
         \A d \in Devices : ~OnWire("DESTROY", d) /\ (~have[d] => ~OnWire("CREATE", d))
    /\ Closing =>
         \A d \in Devices : IF d \in Elems(todo) THEN ~OnWire("DESTROY", d) ELSE Settled(d)
    /\ (closed \/ pc \in {"released", "gone"}) => \A d \in Devices : Settled(d)

SessionInv ==
  Types /\ BufferOK /\ UseOK /\ TodoOK /\ CloseOK /\ RollbackOK /\ PairedOK

-----------------------------------------------------------------------------
(* The wire grows by messages of S and keeps what it had.                  *)

GrowsBy(S) ==
  /\ wire' \in Seq(Report) /\ Len(wire) <= Len(wire')
  /\ \A i \in 1..Len(wire) : wire'[i] = wire[i]
  /\ \A i \in 1..Len(wire') : i > Len(wire) => wire'[i] \in S

LEMMA LandGrows ==
  ASSUME wire \in Seq(Report), NEW b \in Seq(Report), NEW k \in 0..Len(b),
         wire' = wire \o SubSeq(b, 1, k)
  PROVE  GrowsBy(Elems(b)) /\ Len(wire') = Len(wire) + k
         /\ \A i \in 1..k : wire'[Len(wire) + i] = b[i]
<1> DEFINE c == SubSeq(b, 1, k)
<1>1. Len(b) \in Nat /\ Len(wire) \in Nat /\ k \in Int /\ 1 \in Int
  BY LenProperties
<1>2. \A i \in 1..k : b[i] \in Report
  BY <1>1, ElementOfSeq
<1>3. /\ c \in Seq(Report) /\ Len(c) = k
      /\ \A i \in 1..k : c[i] = b[i]
  <2>1. /\ c \in Seq(Report) /\ Len(c) = IF 1 <= k THEN k - 1 + 1 ELSE 0
        /\ \A i \in 1..(k - 1 + 1) : c[i] = b[1 + i - 1]
    BY <1>1, <1>2, SubSeqProperties
  <2>2. QED
    BY <1>1, <2>1
<1> HIDE DEF c
<1>4. /\ wire \o c \in Seq(Report) /\ Len(wire \o c) = Len(wire) + k
      /\ \A i \in 1..(Len(wire) + k) :
           (wire \o c)[i] = IF i <= Len(wire) THEN wire[i] ELSE c[i - Len(wire)]
  BY <1>3, ConcatProperties
<1>5. wire' = wire \o c
  BY DEF c
<1>6. \A i \in 1..k : wire'[Len(wire) + i] = b[i]
  <2> TAKE i \in 1..k
  <2>1. Len(wire) + i \in 1..(Len(wire) + k) /\ ~(Len(wire) + i <= Len(wire))
        /\ (Len(wire) + i) - Len(wire) = i
    BY <1>1
  <2>2. QED
    BY <1>3, <1>4, <1>5, <2>1
<1>7. ASSUME NEW i \in 1..Len(wire'), i > Len(wire) PROVE wire'[i] \in Elems(b)
  <2>1. i - Len(wire) \in 1..k /\ i - Len(wire) \in 1..Len(b)
    BY <1>1, <1>4, <1>5, <1>7
  <2>2. wire'[i] = b[i - Len(wire)]
    BY <1>1, <1>3, <1>4, <1>5, <1>7, <2>1
  <2>3. QED
    BY <2>1, <2>2 DEF Elems
<1>8. QED
  BY <1>1, <1>4, <1>5, <1>6, <1>7 DEF GrowsBy

LEMMA GrowsMore ==
  ASSUME NEW S, NEW T, S \subseteq T, GrowsBy(S)
  PROVE  GrowsBy(T)
BY DEF GrowsBy

LEMMA SameGrows ==
  ASSUME NEW S, wire \in Seq(Report), wire' = wire
  PROVE  GrowsBy(S)
BY LenProperties DEF GrowsBy

\* What is on the wire stays there.
LEMMA GrowKeeps ==
  ASSUME wire \in Seq(Report), NEW S, GrowsBy(S)
  PROVE  /\ Len(wire) \in Nat /\ Len(wire') \in Nat /\ Len(wire) <= Len(wire')
         /\ \A i \in 1..Len(wire) : i \in 1..Len(wire') /\ \A k, d : At(i, k, d)' <=> At(i, k, d)
         /\ \A k, d : OnWire(k, d) => OnWire(k, d)'
<1>1. Len(wire) \in Nat /\ Len(wire') \in Nat /\ Len(wire) <= Len(wire')
  BY LenProperties DEF GrowsBy
<1>2. ASSUME NEW i \in 1..Len(wire)
      PROVE  i \in 1..Len(wire') /\ \A k, d : At(i, k, d)' <=> At(i, k, d)
  BY <1>1 DEF GrowsBy, At
<1>3. ASSUME NEW k, NEW d, OnWire(k, d) PROVE OnWire(k, d)'
  BY <1>2, <1>3 DEF OnWire
<1>4. QED
  BY <1>1, <1>2, <1>3

Has(S, k, d) == \E x \in S : x.kind = k /\ x.dev = d

\* A new message on the wire is one of S.
LEMMA GrowNew ==
  ASSUME wire \in Seq(Report), NEW S, GrowsBy(S), NEW k, NEW d, ~Has(S, k, d)
  PROVE  \A i \in 1..Len(wire') : At(i, k, d)' => (i \in 1..Len(wire) /\ At(i, k, d))
<1>1. Len(wire) \in Nat /\ Len(wire') \in Nat
  BY GrowKeeps
<1> SUFFICES ASSUME NEW i \in 1..Len(wire'), At(i, k, d)'
             PROVE  i \in 1..Len(wire) /\ At(i, k, d)
  OBVIOUS
<1>2. CASE i > Len(wire)
  BY <1>2 DEF GrowsBy, Has, At
<1>3. CASE i \in 1..Len(wire)
  BY <1>3, GrowKeeps
<1>4. QED
  BY <1>1, <1>2, <1>3

LEMMA GrowOnWire ==
  ASSUME wire \in Seq(Report), NEW S, GrowsBy(S), NEW k, NEW d, ~Has(S, k, d),
         ~OnWire(k, d)
  PROVE  ~OnWire(k, d)'
BY GrowNew DEF OnWire

LEMMA GrowOffDevice ==
  ASSUME wire \in Seq(Report), NEW S, GrowsBy(S), NEW d, ~Has(S, "CREATE", d),
         ~OnDevice(d)
  PROVE  ~OnDevice(d)'
<1> SUFFICES ASSUME NEW i \in 1..Len(wire'), At(i, "CREATE", d)'
             PROVE  \E j \in (i + 1)..Len(wire') : At(j, "DESTROY", d)'
  BY DEF OnDevice
<1>1. i \in 1..Len(wire) /\ At(i, "CREATE", d)
  BY GrowNew
<1>2. PICK j \in (i + 1)..Len(wire) : At(j, "DESTROY", d)
  BY <1>1 DEF OnDevice
<1>3. /\ j \in 1..Len(wire) /\ j \in (i + 1)..Len(wire')
  BY <1>1, GrowKeeps
<1>4. At(j, "DESTROY", d)'
  BY <1>2, <1>3, GrowKeeps
<1>5. QED
  BY <1>3, <1>4

LEMMA GrowSettled ==
  ASSUME wire \in Seq(Report), NEW S, GrowsBy(S), NEW d,
         ~Has(S, "CREATE", d), ~Has(S, "DESTROY", d), Settled(d)
  PROVE  Settled(d)'
<1>1. CASE ~OnWire("CREATE", d)
  BY <1>1, GrowOnWire DEF Settled
<1>2. CASE DestroyedOnce(d)
  <2>1. PICK j \in 1..Len(wire) :
          /\ At(j, "DESTROY", d)
          /\ \A i \in 1..Len(wire) : /\ At(i, "CREATE", d) => i < j
                                     /\ At(i, "DESTROY", d) => i = j
    BY <1>2 DEF DestroyedOnce
  <2>2. j \in 1..Len(wire') /\ At(j, "DESTROY", d)'
    BY <2>1, GrowKeeps
  <2>3. \A i \in 1..Len(wire') : /\ At(i, "CREATE", d)' => i < j
                                 /\ At(i, "DESTROY", d)' => i = j
    BY <2>1, GrowNew
  <2>4. QED
    BY <2>2, <2>3 DEF DestroyedOnce, Settled
<1>3. QED
  BY <1>1, <1>2 DEF Settled

\* Settled devices are off the phone.
LEMMA SettledIsOff ==
  ASSUME wire \in Seq(Report), NEW d, Settled(d)
  PROVE  ~OnDevice(d)
<1>1. Len(wire) \in Nat
  BY LenProperties
<1>2. CASE ~OnWire("CREATE", d)
  BY <1>2 DEF OnWire, OnDevice
<1>3. CASE DestroyedOnce(d)
  <2>1. PICK j \in 1..Len(wire) :
          /\ At(j, "DESTROY", d)
          /\ \A i \in 1..Len(wire) : At(i, "CREATE", d) => i < j
    BY <1>3 DEF DestroyedOnce
  <2>2. \A i \in 1..Len(wire) : At(i, "CREATE", d) => j \in (i + 1)..Len(wire)
    BY <1>1, <2>1
  <2>3. QED
    BY <2>1, <2>2 DEF OnDevice
<1>4. QED
  BY <1>2, <1>3 DEF Settled

\* Nothing reaches the wire before the UHID_CREATE of its device.
LEMMA GrowUse ==
  ASSUME wire \in Seq(Report), NEW S, GrowsBy(S), CreatedBeforeUse,
         \A x \in S : x.kind # "CREATE" => OnWire("CREATE", x.dev)
  PROVE  CreatedBeforeUse'
<1>1. Len(wire) \in Nat /\ Len(wire') \in Nat /\ Len(wire) <= Len(wire')
  BY GrowKeeps
<1> SUFFICES ASSUME NEW i \in 1..Len(wire'), wire'[i].kind # "CREATE"
             PROVE  \E j \in 1..(i - 1) : At(j, "CREATE", wire[i].dev)'
  BY DEF CreatedBeforeUse
<1>2. \E j \in 1..(i - 1) : j \in 1..Len(wire) /\ At(j, "CREATE", wire'[i].dev)
  <2>1. CASE i \in 1..Len(wire)
    <3>1. wire'[i] = wire[i]
      BY <2>1 DEF GrowsBy
    <3>2. PICK j \in 1..(i - 1) : At(j, "CREATE", wire[i].dev)
      BY <2>1, <3>1 DEF CreatedBeforeUse
    <3>3. j \in 1..Len(wire)
      BY <1>1, <2>1
    <3>4. QED
      BY <3>1, <3>2, <3>3
  <2>2. CASE i > Len(wire)
    <3>1. OnWire("CREATE", wire'[i].dev)
      BY <2>2 DEF GrowsBy
    <3>2. PICK j \in 1..Len(wire) : At(j, "CREATE", wire'[i].dev)
      BY <3>1 DEF OnWire
    <3>3. j \in 1..(i - 1)
      BY <1>1, <2>2
    <3>4. QED
      BY <3>2, <3>3
  <2>3. QED
    BY <1>1, <2>1, <2>2
<1>3. PICK j \in 1..(i - 1) : j \in 1..Len(wire) /\ At(j, "CREATE", wire'[i].dev)
  BY <1>2
<1>4. At(j, "CREATE", wire[i].dev)'
  BY <1>3 DEF At, GrowsBy
<1>5. QED
  BY <1>3, <1>4

\* A UHID_DESTROY that arrives behind everything takes its device off.
LEMMA DestroyLands ==
  ASSUME wire \in Seq(Report), NEW S, GrowsBy(S), NEW d,
         ~Has(S, "CREATE", d), Len(wire) < Len(wire'), At(Len(wire), "DESTROY", d)'
  PROVE  ~OnDevice(d)'
<1>1. Len(wire) \in Nat /\ Len(wire') \in Nat
  BY GrowKeeps
<1> SUFFICES ASSUME NEW i \in 1..Len(wire'), At(i, "CREATE", d)'
             PROVE  \E j \in (i + 1)..Len(wire') : At(j, "DESTROY", d)'
  BY DEF OnDevice
<1>2. i \in 1..Len(wire)
  BY GrowNew
<1>3. Len(wire') \in (i + 1)..Len(wire')
  BY <1>1, <1>2
<1>4. QED
  BY <1>3

\* ... and, if it is the first one, leaves the device settled.
LEMMA DestroySettles ==
  ASSUME wire \in Seq(Report), NEW S, GrowsBy(S), NEW d,
         ~Has(S, "CREATE", d), Len(wire) < Len(wire'), At(Len(wire), "DESTROY", d)',
         ~OnWire("DESTROY", d),
         \A i \in 1..Len(wire') : (At(i, "DESTROY", d)' /\ i > Len(wire)) => i = Len(wire')
  PROVE  Settled(d)'
<1>1. Len(wire) \in Nat /\ Len(wire') \in Nat
  BY GrowKeeps
<1>2. Len(wire') \in 1..Len(wire')
  BY <1>1
<1>3. \A i \in 1..Len(wire') : At(i, "CREATE", d)' => i < Len(wire')
  BY <1>1, GrowNew
<1>4. ASSUME NEW i \in 1..Len(wire'), At(i, "DESTROY", d)' PROVE i = Len(wire')
  <2>1. CASE i \in 1..Len(wire)
    BY <1>4, <2>1, GrowKeeps DEF OnWire
  <2>2. CASE i > Len(wire)
    BY <1>4, <2>2
  <2>3. QED
    BY <1>1, <2>1, <2>2
<1>5. DestroyedOnce(d)'
  BY <1>2, <1>3, <1>4 DEF DestroyedOnce
<1>6. QED
  BY <1>5 DEF Settled

-----------------------------------------------------------------------------
(* The writer, as the session uses it.                                     *)

\* What a call of the writer can do to the buffer, if it was handed S.
Buffers(S) ==
  /\ pending' \in Seq(Report) /\ Elems(pending') \subseteq S
  /\ direct' => pending' = <<>>
  /\ pushed' \in Nat /\ faults' \in Nat /\ faults <= faults'
  /\ last' = "Err" => faults' >= faults + 1

LEMMA ElemFacts ==
  ASSUME NEW s \in Seq(Report)
  PROVE  /\ Len(s) \in Nat /\ Elems(s) \subseteq Report
         /\ \A m \in Report : /\ Append(s, m) \in Seq(Report)
                              /\ Elems(Append(s, m)) = Elems(s) \cup {m}
                              /\ Len(Append(s, m)) = Len(s) + 1
                              /\ Append(s, m)[Len(s) + 1] = m
                              /\ \A i \in 1..Len(s) : Append(s, m)[i] = s[i]
         /\ Elems(<<>>) = {} /\ <<>> \in Seq(Report)
<1>1. Len(s) \in Nat
  BY LenProperties
<1>2. Elems(s) \subseteq Report
  BY ElementOfSeq DEF Elems
<1>3. ASSUME NEW m \in Report
      PROVE  /\ Append(s, m) \in Seq(Report)
             /\ Elems(Append(s, m)) = Elems(s) \cup {m}
             /\ Len(Append(s, m)) = Len(s) + 1
             /\ Append(s, m)[Len(s) + 1] = m
             /\ \A i \in 1..Len(s) : Append(s, m)[i] = s[i]
  <2> DEFINE t == Append(s, m)
  <2>1. /\ t \in Seq(Report) /\ Len(t) = Len(s) + 1 /\ t[Len(s) + 1] = m
        /\ \A i \in 1..Len(s) : t[i] = s[i]
    BY AppendProperties
  <2> HIDE DEF t
  <2>2. Elems(t) \subseteq Elems(s) \cup {m}
    <3> SUFFICES ASSUME NEW i \in 1..Len(t) PROVE t[i] \in Elems(s) \cup {m}
      BY DEF Elems
    <3>1. CASE i \in 1..Len(s)
      BY <2>1, <3>1 DEF Elems
    <3>2. CASE i = Len(s) + 1
      BY <2>1, <3>2
    <3>3. QED
      BY <1>1, <2>1, <3>1, <3>2
  <2>3. Elems(s) \cup {m} \subseteq Elems(t)
    <3>1. Len(s) + 1 \in 1..Len(t)
      BY <1>1, <2>1
    <3>2. m \in Elems(t)
      BY <2>1, <3>1 DEF Elems
    <3>3. ASSUME NEW i \in 1..Len(s) PROVE s[i] \in Elems(t)
      <4>1. i \in 1..Len(t) /\ t[i] = s[i]
        BY <1>1, <2>1
      <4>2. QED
        BY <4>1 DEF Elems
    <3>4. QED
      BY <3>2, <3>3 DEF Elems
  <2>4. QED
    BY <2>1, <2>2, <2>3 DEF t
<1>4. Len(<<>>) = 0 /\ 1..0 = {} /\ <<>> \in Seq(Report)
  OBVIOUS
<1>5. Elems(<<>>) = {}
  BY <1>4, Zenon DEF Elems
<1>6. QED
  BY <1>1, <1>2, <1>3, <1>4, <1>5

\* A whole buffer that arrives.
LEMMA WriteGrows ==
  ASSUME wire \in Seq(Report), NEW b \in Seq(Report), wire' = wire \o b
  PROVE  GrowsBy(Elems(b)) /\ Len(wire') = Len(wire) + Len(b)
         /\ \A i \in 1..Len(b) : wire'[Len(wire) + i] = b[i]
<1>1. SubSeq(b, 1, Len(b)) = b /\ Len(b) \in 0..Len(b)
  BY LenProperties, SubSeqFull
<1>2. wire' = wire \o SubSeq(b, 1, Len(b))
  BY <1>1
<1>3. QED
  BY <1>1, <1>2, LandGrows

LEMMA ErrGrows ==
  ASSUME wire \in Seq(Report), NEW b \in Seq(Report), W!WriteErr(b), faults \in Nat
  PROVE  GrowsBy(Elems(b)) /\ faults' = faults + 1
BY LandGrows DEF W!WriteErr, W!Lands

LEMMA OkGrows ==
  ASSUME wire \in Seq(Report), NEW b \in Seq(Report), W!WriteOk(b)
  PROVE  GrowsBy(Elems(b)) /\ faults' = faults /\ wire' = wire \o b
BY WriteGrows DEF W!WriteOk

\* flush_now with p in the buffer.
LEMMA FlushGrows ==
  ASSUME wire \in Seq(Report), NEW p \in Seq(Report), NEW n, faults \in Nat,
         W!FlushOk(p, n) \/ W!FlushErr(p, n)
  PROVE  /\ GrowsBy(Elems(p)) /\ faults' \in Nat /\ faults <= faults'
         /\ W!FlushErr(p, n) => faults' = faults + 1
         /\ pending' \in {p, <<>>} /\ pending' \in Seq(Report)
         /\ Elems(pending') \subseteq Elems(p)
<1>1. CASE W!FlushOk(p, n)
  <2>1. GrowsBy(Elems(p)) /\ faults' = faults /\ pending' = <<>>
    BY <1>1, OkGrows DEF W!FlushOk
  <2>2. W!FlushErr(p, n) => faults' = faults + 1
    BY ErrGrows DEF W!FlushErr
  <2>3. QED
    BY <2>1, <2>2, ElemFacts
<1>2. CASE W!FlushErr(p, n)
  BY <1>2, ErrGrows DEF W!FlushErr
<1>3. QED
  BY <1>1, <1>2

LEMMA UhidFacts ==
  ASSUME Types, NEW k \in {"CREATE", "INPUT", "DESTROY"}, NEW d \in Devices
  PROVE  /\ Uhid(k, d) \in Report /\ Uhid(k, d).kind = k /\ Uhid(k, d).dev = d
         /\ Uhid(k, d).critical <=> k # "INPUT"
<1>1. pushed + 1 \in Nat
  BY DEF Types
<1>2. (k # "INPUT") \in BOOLEAN
  OBVIOUS
<1>3. Uhid(k, d) \in Report
  BY <1>1, <1>2 DEF Uhid, Report
<1>4. Uhid(k, d).kind = k /\ Uhid(k, d).dev = d
  BY DEF Uhid
<1>5. Uhid(k, d).critical <=> k # "INPUT"
  BY Zenon DEF Uhid
<1>6. QED
  BY <1>3, <1>4, <1>5

\* The message m arrives behind what was pending.
LandsLast(m) ==
  /\ Len(wire) < Len(wire') /\ wire'[Len(wire')] = m
  /\ \A i \in 1..Len(wire') :
       (i > Len(wire) /\ i # Len(wire')) => wire'[i] \in Elems(pending)

LEMMA AppendLandsLast ==
  ASSUME Types, NEW m \in Report, wire' = wire \o Append(pending, m)
  PROVE  LandsLast(m)
<1> DEFINE b == Append(pending, m)
<1>1. /\ b \in Seq(Report) /\ Len(b) = Len(pending) + 1 /\ b[Len(pending) + 1] = m
      /\ \A i \in 1..Len(pending) : b[i] = pending[i]
      /\ Len(pending) \in Nat
  BY ElemFacts DEF Types
<1> HIDE DEF b
<1>2. /\ Len(wire') = Len(wire) + Len(b)
      /\ \A i \in 1..Len(b) : wire'[Len(wire) + i] = b[i]
  BY <1>1, WriteGrows DEF b, Types
<1>3. Len(wire) \in Nat
  BY LenProperties DEF Types
<1>4. Len(wire) < Len(wire') /\ wire'[Len(wire')] = m
  <2>1. Len(wire') = Len(wire) + (Len(pending) + 1) /\ Len(pending) + 1 \in 1..Len(b)
    BY <1>1, <1>2, <1>3
  <2>2. QED
    BY <1>1, <1>2, <1>3, <2>1
<1>5. ASSUME NEW i \in 1..Len(wire'), i > Len(wire), i # Len(wire')
      PROVE  wire'[i] \in Elems(pending)
  <2>1. /\ i - Len(wire) \in 1..Len(pending) /\ i - Len(wire) \in 1..Len(b)
        /\ Len(wire) + (i - Len(wire)) = i
    <3>1. /\ Len(wire') = Len(wire) + (Len(pending) + 1) /\ Len(b) = Len(pending) + 1
          /\ Len(pending) \in Nat /\ Len(wire) \in Nat /\ i \in Nat
      BY <1>1, <1>2, <1>3
    <3>2. i > Len(wire) /\ i < Len(wire')
      BY <1>5, <3>1
    <3>3. QED
      BY <3>1, <3>2
  <2>2. wire'[i] = pending[i - Len(wire)]
    BY <1>1, <1>2, <2>1
  <2>3. QED
    BY <2>1, <2>2 DEF Elems
<1>6. QED
  BY <1>4, <1>5 DEF LandsLast

LEMMA DirectSends ==
  ASSUME Types, NEW m \in Report, direct, W!DirectMsg(m)
  PROVE  /\ GrowsBy(Elems(pending) \cup {m}) /\ Buffers(Elems(pending))
         /\ last' # "Err" => LandsLast(m)
<1>1. pending = <<>> /\ pending' = pending /\ pending \in Seq(Report) /\ pushed' \in Nat
  BY DEF Types, W!DirectMsg
<1>2. direct' = direct /\ Elems(pending') \subseteq Elems(pending)
  BY <1>1 DEF W!DirectMsg, W!control
<1>3. <<m>> = Append(pending, m) /\ <<m>> \in Seq(Report) /\ Elems(<<m>>) = Elems(pending) \cup {m}
  <2>1. <<m>> = Append(<<>>, m)
    OBVIOUS
  <2>2. QED
    BY <1>1, <2>1, ElemFacts, ZenonT(30)
<1>4. CASE W!WriteOk(<<m>>)
  <2>1. GrowsBy(Elems(pending) \cup {m}) /\ faults' = faults /\ wire' = wire \o Append(pending, m)
    BY <1>3, <1>4, OkGrows DEF Types
  <2>2. last' # "Err"
    <3>1. ~W!WriteErr(<<m>>)
      BY <2>1 DEF W!WriteErr, Types
    <3>2. last' = IF m.critical THEN "Critical" ELSE "Window"
      BY <3>1 DEF W!DirectMsg
    <3>3. QED
      BY <3>2
  <2>3. LandsLast(m)
    BY <2>1, AppendLandsLast
  <2>4. Buffers(Elems(pending))
    BY <1>1, <1>2, <2>1, <2>2 DEF Buffers, Types
  <2>5. QED
    BY <2>1, <2>3, <2>4
<1>5. CASE W!WriteErr(<<m>>) /\ last' = "Err"
  <2>1. GrowsBy(Elems(pending) \cup {m}) /\ faults' = faults + 1 /\ faults \in Nat
    BY <1>3, <1>5, ErrGrows DEF Types
  <2>2. Buffers(Elems(pending))
    BY <1>1, <1>2, <2>1 DEF Buffers
  <2>3. QED
    BY <1>5, <2>1, <2>2
<1>6. QED
  BY <1>4, <1>5 DEF W!DirectMsg

LEMMA CriticalSends ==
  ASSUME Types, NEW m \in Report, ~direct, W!CriticalMsg(m)
  PROVE  /\ GrowsBy(Elems(pending) \cup {m}) /\ Buffers(Elems(pending))
         /\ last' # "Err" => LandsLast(m)
<1> DEFINE b == Append(pending, m)
<1>1. /\ wire \in Seq(Report) /\ pending \in Seq(Report) /\ pushed' \in Nat /\ faults \in Nat
      /\ Len(pending) \in Nat
  BY LenProperties DEF Types, W!CriticalMsg
<1>2. ~direct'
  BY DEF W!CriticalMsg, W!control
<1>3. b \in Seq(Report) /\ Elems(b) = Elems(pending) \cup {m} /\ Len(b) = Len(pending) + 1
  BY <1>1, ElemFacts
<1>4. <<>> \in Seq(Report) /\ Elems(<<>>) \subseteq Elems(pending)
  BY <1>1, ElemFacts
<1>5. CASE W!FlushErr(pending, pendingLen) /\ last' = "Err"
  <2>1. /\ GrowsBy(Elems(pending)) /\ faults' = faults + 1
        /\ pending' \in Seq(Report) /\ Elems(pending') \subseteq Elems(pending)
    BY <1>1, <1>5, FlushGrows
  <2>2. GrowsBy(Elems(pending) \cup {m})
    BY <2>1, GrowsMore
  <2>3. QED
    BY <1>1, <1>2, <1>5, <2>1, <2>2 DEF Buffers
<1>6. CASE W!WriteOk(b) /\ pending' = <<>> /\ last' = "Critical"
  <2>1. GrowsBy(Elems(pending) \cup {m}) /\ faults' = faults /\ wire' = wire \o b
    BY <1>1, <1>3, <1>6, OkGrows
  <2>2. LandsLast(m)
    BY <2>1, AppendLandsLast
  <2>3. QED
    BY <1>1, <1>2, <1>4, <1>6, <2>1, <2>2 DEF Buffers
<1>7. CASE /\ faults' = faults + 1
           /\ \E k \in {0, 1} : W!Lands(b, Len(pending) + k)
           /\ pending' = <<>> /\ last' = "Err"
  <2>1. PICK k \in {0, 1} : wire' = wire \o SubSeq(b, 1, Len(pending) + k)
    BY <1>7 DEF W!Lands
  <2>2. Len(pending) + k \in 0..Len(b)
    BY <1>1, <1>3
  <2>3. GrowsBy(Elems(b))
    BY <1>1, <1>3, <2>1, <2>2, LandGrows
  <2>4. QED
    BY <1>1, <1>2, <1>3, <1>4, <1>7, <2>3 DEF Buffers
<1>8. QED
  BY <1>5, <1>6, <1>7 DEF W!CriticalMsg

LEMMA BufferSends ==
  ASSUME Types, NEW m \in Report, ~direct, W!BufferMsg(m)
  PROVE  GrowsBy(Elems(pending) \cup {m}) /\ Buffers(Elems(pending) \cup {m})
<1> DEFINE b == Append(pending, m)
           n == pendingLen + m.size
<1>1. /\ wire \in Seq(Report) /\ pending \in Seq(Report) /\ pushed' \in Nat /\ faults \in Nat
  BY DEF Types, W!BufferMsg
<1>2. ~direct'
  BY DEF W!BufferMsg, W!control
<1>3. b \in Seq(Report) /\ Elems(b) = Elems(pending) \cup {m}
  BY <1>1, ElemFacts
<1> HIDE DEF b, n
<1>4. ASSUME NEW r \in {"Full", "Window"}, W!FlushNow(b, n, r)
      PROVE  GrowsBy(Elems(b)) /\ Buffers(Elems(b))
  <2>1. /\ GrowsBy(Elems(b)) /\ faults' \in Nat /\ faults <= faults'
        /\ W!FlushErr(b, n) => faults' = faults + 1
        /\ pending' \in Seq(Report) /\ Elems(pending') \subseteq Elems(b)
    BY <1>1, <1>3, <1>4, FlushGrows DEF W!FlushNow
  <2>2. last' = "Err" => W!FlushErr(b, n)
    BY <1>4 DEF W!FlushNow
  <2>3. last' = "Err" => faults' >= faults + 1
    BY <1>1, <2>1, <2>2
  <2>4. QED
    BY <1>1, <1>2, <2>1, <2>3 DEF Buffers
<1>5. CASE W!Keep(b, n) /\ last' = "Pending"
  <2>1. GrowsBy(Elems(b)) /\ faults' = faults /\ pending' = b
    BY <1>1, <1>5, SameGrows DEF W!Keep
  <2>2. QED
    BY <1>1, <1>2, <1>3, <1>5, <2>1 DEF Buffers
<1>6. W!FlushNow(b, n, "Full") \/ W!FlushNow(b, n, "Window") \/ (W!Keep(b, n) /\ last' = "Pending")
  BY DEF W!BufferMsg, b, n
<1>7. QED
  BY <1>3, <1>4, <1>5, <1>6

LEMMA SendFacts ==
  ASSUME Types, NEW k \in {"CREATE", "INPUT", "DESTROY"}, NEW d \in Devices, Send(k, d)
  PROVE  /\ GrowsBy(Elems(pending) \cup {Uhid(k, d)})
         /\ Buffers(Elems(pending) \cup {Uhid(k, d)})
         /\ k # "INPUT" => /\ Buffers(Elems(pending))
                           /\ ~Failed => LandsLast(Uhid(k, d))
<1> DEFINE m == Uhid(k, d)
<1>1. m \in Report /\ (m.critical <=> k # "INPUT")
  BY UhidFacts
<1>2. W!Push(m)
  BY DEF Send
<1> HIDE DEF m
<1>3. Buffers(Elems(pending)) => Buffers(Elems(pending) \cup {m})
  BY DEF Buffers
<1>4. CASE direct
  BY <1>1, <1>2, <1>3, <1>4, DirectSends DEF W!Push, Failed, m
<1>5. CASE ~direct /\ m.critical
  BY <1>1, <1>2, <1>3, <1>5, CriticalSends DEF W!Push, Failed, m
<1>6. CASE ~direct /\ ~m.critical
  BY <1>1, <1>2, <1>6, BufferSends DEF W!Push, m
<1>7. QED
  BY <1>4, <1>5, <1>6

\* A flush, alone, in into_inner or in the writer's Drop.
LEMMA FlushFacts ==
  ASSUME Types, W!ExplicitFlush \/ W!IntoInner \/ W!DropWriter
  PROVE  GrowsBy(Elems(pending)) /\ Buffers(Elems(pending))
<1>1. /\ wire \in Seq(Report) /\ pending \in Seq(Report) /\ pushed' \in Nat /\ faults \in Nat
      /\ direct' = direct
  BY DEF Types, W!ExplicitFlush, W!IntoInner, W!DropWriter, W!control
<1>2. <<>> \in Seq(Report) /\ Elems(<<>>) \subseteq Elems(pending)
  BY <1>1, ElemFacts
<1>3. direct => pending = <<>>
  BY DEF Types
<1>4. CASE W!FlushOk(pending, pendingLen) /\ last' # "Err"
  BY <1>1, <1>2, <1>4, FlushGrows DEF Buffers, W!FlushOk
<1>5. CASE W!FlushErr(pending, pendingLen)
  <2>1. /\ GrowsBy(Elems(pending)) /\ faults' = faults + 1
        /\ pending' \in Seq(Report) /\ Elems(pending') \subseteq Elems(pending)
    BY <1>1, <1>5, FlushGrows
  <2>2. direct' => pending' = <<>>
    BY <1>1, <1>3, <1>5 DEF W!FlushErr
  <2>3. QED
    BY <1>1, <2>1, <2>2 DEF Buffers
<1>6. CASE W!WriteErr(pending) /\ pending' = <<>>
  BY <1>1, <1>2, <1>6, ErrGrows DEF Buffers
<1>7. QED
  BY <1>4, <1>5, <1>6 DEF W!ExplicitFlush, W!IntoInner, W!DropWriter, W!FlushNow

-----------------------------------------------------------------------------
(* The devices on the list.                                                *)

LEMMA TodoFacts ==
  ASSUME NEW s \in Seq(Devices), Distinct(s), s # <<>>
  PROVE  /\ Head(s) \in Devices /\ Head(s) \in Elems(s)
         /\ Tail(s) \in Seq(Devices) /\ Distinct(Tail(s))
         /\ Elems(Tail(s)) = Elems(s) \ {Head(s)}
<1>1. Len(s) \in Nat \ {0} /\ Head(s) = s[1]
  BY EmptySeq
<1>2. /\ Head(s) \in Devices /\ Tail(s) \in Seq(Devices) /\ Len(Tail(s)) = Len(s) - 1
      /\ \A i \in 1..Len(Tail(s)) : Tail(s)[i] = s[i + 1]
  BY HeadTailProperties
<1> DEFINE t == Tail(s)
<1> HIDE DEF t
<1>3. Len(t) = Len(s) - 1 /\ \A i \in 1..Len(t) : i + 1 \in 1..Len(s) /\ t[i] = s[i + 1]
  BY <1>1, <1>2 DEF t
<1>4. Head(s) \in Elems(s)
  BY <1>1 DEF Elems
<1>5. Distinct(t)
  <2> SUFFICES ASSUME NEW i \in 1..Len(t), NEW j \in 1..Len(t), t[i] = t[j]
               PROVE  i = j
    BY DEF Distinct
  <2>1. s[i + 1] = s[j + 1] /\ i + 1 \in 1..Len(s) /\ j + 1 \in 1..Len(s)
    BY <1>3
  <2>2. i + 1 = j + 1
    BY <2>1 DEF Distinct
  <2>3. QED
    BY <1>1, <1>3, <2>2
<1>6. Elems(t) \subseteq Elems(s) \ {Head(s)}
  <2> SUFFICES ASSUME NEW i \in 1..Len(t) PROVE t[i] \in Elems(s) /\ t[i] # s[1]
    BY <1>1 DEF Elems
  <2>1. i + 1 \in 1..Len(s) /\ t[i] = s[i + 1] /\ 1 \in 1..Len(s) /\ i + 1 # 1
    BY <1>1, <1>3
  <2>2. QED
    BY <2>1 DEF Elems, Distinct
<1>7. Elems(s) \ {Head(s)} \subseteq Elems(t)
  <2> SUFFICES ASSUME NEW i \in 1..Len(s), s[i] # s[1] PROVE s[i] \in Elems(t)
    BY <1>1 DEF Elems
  <2>1. i - 1 \in 1..Len(t) /\ (i - 1) + 1 = i
    BY <1>1, <1>3
  <2>2. t[i - 1] = s[i]
    BY <1>3, <2>1
  <2>3. QED
    BY <2>1, <2>2 DEF Elems
<1>8. QED
  BY <1>2, <1>4, <1>5, <1>6, <1>7 DEF t

LEMMA NothingTodo ==
  /\ <<>> \in Seq(Devices) /\ Distinct(<<>>) /\ Elems(<<>>) = {}
<1>1. Len(<<>>) = 0 /\ 1..0 = {} /\ <<>> \in Seq(Devices)
  OBVIOUS
<1>2. QED
  BY <1>1, Zenon DEF Elems, Distinct

\* One sequence behind another with nothing in common.
LEMMA JoinFacts ==
  ASSUME NEW s \in Seq(Devices), NEW t \in Seq(Devices), Distinct(s), Distinct(t),
         Elems(s) \cap Elems(t) = {}
  PROVE  s \o t \in Seq(Devices) /\ Distinct(s \o t) /\ Elems(s \o t) = Elems(s) \cup Elems(t)
<1> DEFINE u == s \o t
<1>1. Len(s) \in Nat /\ Len(t) \in Nat
  BY LenProperties
<1>2. /\ u \in Seq(Devices) /\ Len(u) = Len(s) + Len(t)
      /\ \A i \in 1..(Len(s) + Len(t)) : u[i] = IF i <= Len(s) THEN s[i] ELSE t[i - Len(s)]
  BY ConcatProperties
<1> HIDE DEF u
<1>3. \A i \in 1..Len(s) : i \in 1..Len(u) /\ u[i] = s[i] /\ u[i] \in Elems(s)
  BY <1>1, <1>2 DEF Elems
<1>4. ASSUME NEW i \in 1..Len(t) PROVE Len(s) + i \in 1..Len(u) /\ u[Len(s) + i] = t[i]
  <2>1. /\ Len(s) + i \in 1..(Len(s) + Len(t)) /\ ~(Len(s) + i <= Len(s))
        /\ (Len(s) + i) - Len(s) = i
    BY <1>1
  <2>2. QED
    BY <1>2, <2>1
<1>5. ASSUME NEW i \in 1..Len(u), i \notin 1..Len(s)
      PROVE  i - Len(s) \in 1..Len(t) /\ u[i] = t[i - Len(s)] /\ u[i] \in Elems(t)
  <2>1. i - Len(s) \in 1..Len(t) /\ ~(i <= Len(s)) /\ i \in 1..(Len(s) + Len(t))
    BY <1>1, <1>2, <1>5
  <2>2. u[i] = t[i - Len(s)]
    BY <1>2, <2>1
  <2>3. QED
    BY <2>1, <2>2 DEF Elems
<1>6. Distinct(u)
  <2> SUFFICES ASSUME NEW i \in 1..Len(u), NEW j \in 1..Len(u), u[i] = u[j] PROVE i = j
    BY DEF Distinct
  <2>1. CASE i \in 1..Len(s) /\ j \in 1..Len(s)
    BY <1>3, <2>1 DEF Distinct
  <2>2. CASE i \notin 1..Len(s) /\ j \notin 1..Len(s)
    <3>1. i - Len(s) = j - Len(s)
      BY <1>5, <2>2 DEF Distinct
    <3>2. QED
      BY <1>1, <1>2, <3>1
  <2>3. CASE (i \in 1..Len(s)) # (j \in 1..Len(s))
    BY <1>3, <1>5, <2>3
  <2>4. QED
    BY <2>1, <2>2, <2>3
<1>7. Elems(u) \subseteq Elems(s) \cup Elems(t)
  <2> SUFFICES ASSUME NEW i \in 1..Len(u) PROVE u[i] \in Elems(s) \cup Elems(t)
    BY DEF Elems
  <2>1. QED
    BY <1>3, <1>5
<1>8. Elems(s) \cup Elems(t) \subseteq Elems(u)
  <2>1. ASSUME NEW i \in 1..Len(s) PROVE s[i] \in Elems(u)
    <3>1. i \in 1..Len(u) /\ u[i] = s[i]
      BY <1>3
    <3>2. QED
      BY <3>1 DEF Elems
  <2>2. ASSUME NEW i \in 1..Len(t) PROVE t[i] \in Elems(u)
    <3>1. Len(s) + i \in 1..Len(u) /\ u[Len(s) + i] = t[i]
      BY <1>4
    <3>2. QED
      BY <3>1 DEF Elems
  <2>3. QED
    BY <2>1, <2>2 DEF Elems
<1>9. QED
  BY <1>2, <1>6, <1>7, <1>8 DEF u

LEMMA OnlyFacts ==
  ASSUME NEW d \in Devices, NEW D
  PROVE  /\ Only(d, D) \in Seq(Devices) /\ Distinct(Only(d, D))
         /\ Elems(Only(d, D)) = D \cap {d}
<1>1. CASE d \in D
  <2>1. Only(d, D) = <<d>>
    BY <1>1 DEF Only
  <2>2. /\ <<d>> \in Seq(Devices) /\ Len(<<d>>) = 1 /\ <<d>>[1] = d /\ 1..1 = {1}
    OBVIOUS
  <2>3. Distinct(<<d>>) /\ Elems(<<d>>) = {d}
    BY <2>2, Zenon DEF Distinct, Elems
  <2>4. QED
    BY <1>1, <2>1, <2>2, <2>3
<1>2. CASE d \notin D
  BY <1>2, NothingTodo DEF Only
<1>3. QED
  BY <1>1, <1>2

\* open and try_close_all visit every device once.
LEMMA InOrderFacts ==
  ASSUME NEW D, D \subseteq Devices
  PROVE  InOrder(D) \in Seq(Devices) /\ Distinct(InOrder(D)) /\ Elems(InOrder(D)) = D
<1> DEFINE a == Only("kbd", D)
           b == Only("mouse", D)
           c == Only("gamepad", D)
<1>1. /\ a \in Seq(Devices) /\ Distinct(a) /\ Elems(a) = D \cap {"kbd"}
      /\ b \in Seq(Devices) /\ Distinct(b) /\ Elems(b) = D \cap {"mouse"}
      /\ c \in Seq(Devices) /\ Distinct(c) /\ Elems(c) = D \cap {"gamepad"}
  BY OnlyFacts DEF Devices
<1>2. InOrder(D) = (a \o b) \o c
  BY DEF InOrder
<1> HIDE DEF a, b, c
<1>3. /\ a \o b \in Seq(Devices) /\ Distinct(a \o b)
      /\ Elems(a \o b) = (D \cap {"kbd"}) \cup (D \cap {"mouse"})
  <2>1. Elems(a) \cap Elems(b) = {}
    BY <1>1
  <2>2. QED
    BY <1>1, <2>1, JoinFacts
<1>4. Elems(a \o b) \cap Elems(c) = {}
  BY <1>1, <1>3
<1>5. /\ (a \o b) \o c \in Seq(Devices) /\ Distinct((a \o b) \o c)
      /\ Elems((a \o b) \o c) = Elems(a \o b) \cup Elems(c)
  BY <1>1, <1>3, <1>4, JoinFacts
<1>6. Elems(a \o b) \cup Elems(c) = D
  BY <1>1, <1>3 DEF Devices
<1>7. QED
  BY <1>2, <1>5, <1>6

-----------------------------------------------------------------------------
(* What one message adds to the invariant's view of the wire.              *)

\* The writer's part of the invariant, after the step.
WriterKept ==
  /\ wire' \in Seq(Report) /\ pending' \in Seq(Report)
  /\ pushed' \in Nat /\ faults' \in Nat /\ faults <= faults'
  /\ direct' => pending' = <<>>
  /\ BufferOK' /\ CreatedBeforeUse'
  /\ \A e \in Devices : OnWire("CREATE", e) => OnWire("CREATE", e)'

\* Sending k for device d changes what the wire says of no other device.
KeepsBut(k, d) ==
  \A e \in Devices :
    /\ (~OnWire("CREATE", e) /\ ~(k = "CREATE" /\ e = d)) => ~OnWire("CREATE", e)'
    /\ (~OnWire("DESTROY", e) /\ ~(k = "DESTROY" /\ e = d)) => ~OnWire("DESTROY", e)'
    /\ (~OnDevice(e) /\ ~(k = "CREATE" /\ e = d)) => ~OnDevice(e)'
    /\ (Settled(e) /\ (k = "INPUT" \/ e # d)) => Settled(e)'

LEMMA GrowSession ==
  ASSUME SessionInv, NEW k \in {"CREATE", "INPUT", "DESTROY"}, NEW d \in Devices, NEW S,
         GrowsBy(S), NEW B, Buffers(B),
         \A x \in S : \/ x \in Elems(pending)
                      \/ /\ x.kind = k /\ x.dev = d
                         /\ k # "CREATE" => OnWire("CREATE", d),
         \A x \in B : \/ x \in Elems(pending)
                      \/ x.kind = "INPUT" /\ x.dev = d /\ OnWire("CREATE", d)
  PROVE  WriterKept /\ KeepsBut(k, d)
<1>1. wire \in Seq(Report) /\ faults \in Nat /\ CreatedBeforeUse
  BY DEF SessionInv, Types, UseOK
<1>2. \A x \in Elems(pending) : x.kind = "INPUT" /\ OnWire("CREATE", x.dev)
  BY DEF SessionInv, BufferOK
<1>3. \A e : OnWire("CREATE", e) => OnWire("CREATE", e)'
  BY <1>1, GrowKeeps
<1>4. CreatedBeforeUse'
  <2>1. \A x \in S : x.kind # "CREATE" => OnWire("CREATE", x.dev)
    BY <1>2
  <2>2. QED
    BY <1>1, <2>1, GrowUse
<1>5. BufferOK'
  <2>1. \A x \in B : x.kind = "INPUT" /\ OnWire("CREATE", x.dev)
    BY <1>2
  <2>2. SUFFICES ASSUME NEW x \in Elems(pending') PROVE x.kind = "INPUT" /\ OnWire("CREATE", x.dev)'
    BY DEF BufferOK, Elems
  <2>3. QED
    BY <1>3, <2>1 DEF Buffers
<1>6. WriterKept
  BY <1>3, <1>4, <1>5 DEF WriterKept, Buffers, GrowsBy
<1>7. ASSUME NEW e \in Devices, NEW j \in {"CREATE", "DESTROY"}, ~(k = j /\ e = d)
      PROVE  ~Has(S, j, e)
  BY <1>2, <1>7 DEF Has
<1>8. ASSUME NEW e \in Devices
      PROVE  /\ (~OnWire("CREATE", e) /\ ~(k = "CREATE" /\ e = d)) => ~OnWire("CREATE", e)'
             /\ (~OnWire("DESTROY", e) /\ ~(k = "DESTROY" /\ e = d)) => ~OnWire("DESTROY", e)'
             /\ (~OnDevice(e) /\ ~(k = "CREATE" /\ e = d)) => ~OnDevice(e)'
             /\ (Settled(e) /\ (k = "INPUT" \/ e # d)) => Settled(e)'
  <2>1. (~OnWire("CREATE", e) /\ ~(k = "CREATE" /\ e = d)) => ~OnWire("CREATE", e)'
    BY <1>1, <1>7, GrowOnWire
  <2>2. (~OnWire("DESTROY", e) /\ ~(k = "DESTROY" /\ e = d)) => ~OnWire("DESTROY", e)'
    BY <1>1, <1>7, GrowOnWire
  <2>3. (~OnDevice(e) /\ ~(k = "CREATE" /\ e = d)) => ~OnDevice(e)'
    BY <1>1, <1>7, GrowOffDevice
  <2>4. (Settled(e) /\ (k = "INPUT" \/ e # d)) => Settled(e)'
    BY <1>1, <1>7, GrowSettled
  <2>5. QED
    BY <2>1, <2>2, <2>3, <2>4
<1>9. QED
  BY <1>6, <1>8 DEF KeepsBut

LEMMA SendSession ==
  ASSUME SessionInv, NEW k \in {"CREATE", "INPUT", "DESTROY"}, NEW d \in Devices,
         Send(k, d), k # "CREATE" => OnWire("CREATE", d)
  PROVE  /\ WriterKept /\ KeepsBut(k, d)
         /\ Failed => faults' >= faults + 1
         /\ (k = "CREATE" /\ ~Failed) => OnWire("CREATE", d)'
         /\ (k = "DESTROY" /\ ~Failed) =>
              /\ ~OnDevice(d)'
              /\ ~OnWire("DESTROY", d) => Settled(d)'
<1> DEFINE m == Uhid(k, d)
           S == Elems(pending) \cup {m}
<1>1. Types /\ wire \in Seq(Report) /\ faults \in Nat
  BY DEF SessionInv, Types
<1>2. m.kind = k /\ m.dev = d
  BY <1>1, UhidFacts
<1>3. /\ GrowsBy(S) /\ Buffers(S)
      /\ k # "INPUT" => Buffers(Elems(pending)) /\ (~Failed => LandsLast(m))
  BY <1>1, SendFacts
<1> HIDE DEF m
<1>4. \A x \in S : \/ x \in Elems(pending)
                   \/ /\ x.kind = k /\ x.dev = d
                      /\ k # "CREATE" => OnWire("CREATE", d)
  BY <1>2
<1>5. WriterKept /\ KeepsBut(k, d)
  <2>1. CASE k = "INPUT"
    <3>1. \A x \in S : \/ x \in Elems(pending)
                       \/ x.kind = "INPUT" /\ x.dev = d /\ OnWire("CREATE", d)
      BY <1>4, <2>1
    <3> HIDE DEF S
    <3>2. QED
      BY <1>3, <1>4, <3>1, GrowSession
  <2>2. CASE k # "INPUT"
    <3>1. \A x \in Elems(pending) :
            \/ x \in Elems(pending)
            \/ x.kind = "INPUT" /\ x.dev = d /\ OnWire("CREATE", d)
      OBVIOUS
    <3>2. Buffers(Elems(pending))
      BY <1>3, <2>2
    <3> HIDE DEF S
    <3>3. QED
      BY <1>3, <1>4, <3>1, <3>2, GrowSession
  <2>3. QED
    BY <2>1, <2>2
<1>6. Failed => faults' >= faults + 1
  BY <1>3 DEF Buffers, Failed
<1>7. Len(wire') \in Nat /\ Len(wire) \in Nat
  BY <1>1, <1>3, GrowKeeps
<1>8. ASSUME k # "INPUT", ~Failed
      PROVE  Len(wire) < Len(wire') /\ Len(wire') \in 1..Len(wire') /\ At(Len(wire), k, d)'
  BY <1>2, <1>3, <1>7, <1>8 DEF LandsLast, At
<1>9. (k = "CREATE" /\ ~Failed) => OnWire("CREATE", d)'
  BY <1>8 DEF OnWire
<1>10. ASSUME k = "DESTROY", ~Failed
       PROVE  ~OnDevice(d)' /\ (~OnWire("DESTROY", d) => Settled(d)')
  <2>1. \A x \in Elems(pending) : x.kind = "INPUT"
    BY DEF SessionInv, BufferOK
  <2>2. ~Has(S, "CREATE", d)
    BY <1>2, <1>10, <2>1 DEF Has
  <2>3. ~OnDevice(d)'
    BY <1>1, <1>3, <1>8, <1>10, <2>2, DestroyLands
  <2>4. \A i \in 1..Len(wire') : (At(i, "DESTROY", d)' /\ i > Len(wire)) => i = Len(wire')
    BY <1>3, <1>10, <2>1 DEF LandsLast, At
  <2>5. ~OnWire("DESTROY", d) => Settled(d)'
    BY <1>1, <1>3, <1>8, <1>10, <2>2, <2>4, DestroySettles
  <2>6. QED
    BY <2>3, <2>5
<1>11. QED
  BY <1>5, <1>6, <1>9, <1>10

LEMMA FlushSessionFacts ==
  ASSUME SessionInv, W!ExplicitFlush \/ W!IntoInner \/ W!DropWriter
  PROVE  WriterKept /\ KeepsBut("INPUT", "kbd")
<1>1. GrowsBy(Elems(pending)) /\ Buffers(Elems(pending))
  BY FlushFacts DEF SessionInv
<1>2. "kbd" \in Devices
  BY DEF Devices
<1>3. QED
  BY <1>1, <1>2, GrowSession

-----------------------------------------------------------------------------
(* The session's steps.                                                    *)

\* Input, flush, and what follows the end of the session: the fields stay.
LEMMA QuietMoves ==
  ASSUME SessionInv, WriterKept, NEW d, KeepsBut("INPUT", d),
         UNCHANGED <<have, slot, closed, todo, opened>>,
         \/ pc' = pc
         \/ pc = "open" /\ closed /\ pc' \in {"released", "gone"}
         \/ pc = "released" /\ pc' = "gone"
  PROVE  SessionInv'
<1>1. Types'
  BY DEF SessionInv, Types, WriterKept
<1>2. BufferOK' /\ UseOK'
  BY DEF SessionInv, UseOK, WriterKept, Types
<1>3. TodoOK'
  BY DEF SessionInv, TodoOK, Closing
<1>4. \A e \in Devices : (~OnDevice(e) => ~OnDevice(e)') /\ (Settled(e) => Settled(e)')
  BY DEF KeepsBut
<1>5. CloseOK'
  BY <1>4 DEF SessionInv, CloseOK, Closing
<1>6. RollbackOK'
  BY <1>4 DEF SessionInv, RollbackOK, WriterKept, Types
<1>7. PairedOK'
  <2> SUFFICES ASSUME faults' = 0 PROVE PairedOK'
    BY DEF PairedOK
  <2>1. faults = 0
    BY DEF WriterKept, SessionInv, Types
  <2>2. have'["gamepad"] => slot'
    BY <2>1 DEF SessionInv, PairedOK
  <2>3. \A e \in Devices : /\ ~OnWire("CREATE", e) => ~OnWire("CREATE", e)'
                           /\ ~OnWire("DESTROY", e) => ~OnWire("DESTROY", e)'
    BY DEF KeepsBut
  <2>4. (pc' \in {"opening", "open"} /\ ~closed') =>
          \A e \in Devices : ~OnWire("DESTROY", e)' /\ (~have'[e] => ~OnWire("CREATE", e)')
    BY <2>1, <2>3 DEF SessionInv, PairedOK
  <2>5. Closing' => \A e \in Devices : IF e \in Elems(todo)' THEN ~OnWire("DESTROY", e)'
                                                          ELSE Settled(e)'
    BY <1>4, <2>1, <2>3 DEF SessionInv, PairedOK, Closing
  <2>6. (closed' \/ pc' \in {"released", "gone"}) => \A e \in Devices : Settled(e)'
    BY <1>4, <2>1 DEF SessionInv, PairedOK
  <2>7. QED
    BY <2>2, <2>4, <2>5, <2>6 DEF PairedOK
<1>8. QED
  BY <1>1, <1>2, <1>3, <1>5, <1>6, <1>7 DEF SessionInv

LEMMA UseInv ==
  ASSUME SessionInv, Use \/ IntoInner \/ DropFields
  PROVE  SessionInv'
<1>1. CASE FlushSession
  <2>1. WriterKept /\ KeepsBut("INPUT", "kbd")
    BY <1>1, FlushSessionFacts DEF FlushSession
  <2>2. QED
    BY <1>1, <2>1, QuietMoves DEF FlushSession
<1>2. ASSUME NEW d \in Devices, Input(d) PROVE SessionInv'
  <2>1. OnWire("CREATE", d)
    BY <1>2 DEF Input, Usable, SessionInv, UseOK
  <2>2. WriterKept /\ KeepsBut("INPUT", d)
    BY <1>2, <2>1, SendSession DEF Input
  <2>3. QED
    BY <1>2, <2>2, QuietMoves DEF Input
<1>3. CASE IntoInner
  <2>1. WriterKept /\ KeepsBut("INPUT", "kbd")
    BY <1>3, FlushSessionFacts DEF IntoInner
  <2>2. QED
    BY <1>3, <2>1, QuietMoves DEF IntoInner
<1>4. CASE DropFields
  <2>1. WriterKept /\ KeepsBut("INPUT", "kbd")
    BY <1>4, FlushSessionFacts DEF DropFields
  <2>2. QED
    BY <1>4, <2>1, QuietMoves DEF DropFields
<1>5. QED
  BY <1>1, <1>2, <1>3, <1>4 DEF Use

LEMMA OpenDeviceInv ==
  ASSUME SessionInv, OpenDevice
  PROVE  SessionInv'
<1>1. /\ pc = "opening" /\ todo # <<>> /\ ~closed /\ ~opened
      /\ \A e \in Elems(todo) : ~have[e]
  BY DEF OpenDevice, SessionInv, TodoOK
<1>2. PICK d \in Devices :
        /\ d = Head(todo) /\ d \in Elems(todo)
        /\ Tail(todo) \in Seq(Devices) /\ Distinct(Tail(todo))
        /\ Elems(Tail(todo)) = Elems(todo) \ {d}
  BY <1>1, TodoFacts DEF SessionInv, Types
<1>3. Send("CREATE", d) /\ closed' = closed
  BY <1>2 DEF OpenDevice
<1>4. /\ WriterKept /\ KeepsBut("CREATE", d)
      /\ Failed => faults' >= faults + 1
      /\ ~Failed => OnWire("CREATE", d)'
  BY <1>2, <1>3, SendSession
<1>5. have \in [Devices -> BOOLEAN] /\ faults \in Nat /\ faults' \in Nat
  BY <1>4 DEF SessionInv, Types, WriterKept
<1>6. ~closed'
  BY <1>1, <1>3, Zenon
<1>7. CASE CreateOk
  <2>1. /\ ~Failed /\ have' = [have EXCEPT ![d] = TRUE]
        /\ todo' = Tail(todo)
        /\ pc' = IF todo' = <<>> THEN "open" ELSE "opening"
    BY <1>2, <1>7 DEF CreateOk
  <2>2. opened' <=> todo' = <<>>
    BY <1>7, Zenon DEF CreateOk
  <2>3. d = "gamepad" => slot'
    BY <1>2, <1>7, Zenon DEF CreateOk
  <2>4. slot => slot'
    BY <1>7, Zenon DEF CreateOk
  <2>5. /\ have' \in [Devices -> BOOLEAN] /\ have'[d]
        /\ \A e \in Devices : e # d => (have'[e] <=> have[e])
    <3>1. have' \in [Devices -> BOOLEAN]
      BY <1>2, <1>5, <2>1, Zenon
    <3>2. have'[d] = TRUE
      BY <1>2, <1>5, <2>1, Zenon
    <3>3. \A e \in Devices : e # d => have'[e] = have[e]
      BY <1>5, <2>1, Zenon
    <3>4. QED
      BY <3>1, <3>2, <3>3, Zenon
  <2>6. Types'
    BY <1>2, <1>4, <2>1, <2>5 DEF Types, WriterKept
  <2>7. BufferOK' /\ UseOK'
    BY <1>4, <2>1, <2>5 DEF WriterKept, UseOK, SessionInv
  <2>8. ~Closing' /\ pc' \in {"open", "opening"}
    BY <2>1 DEF Closing
  <2>9. TodoOK'
    <3>1. \A e \in Elems(todo') : e # d /\ e \in Elems(todo)
      BY <1>2, <2>1
    <3>2. \A e \in Elems(todo) : e \in Devices
      BY ElementOfSeq DEF SessionInv, Types, Elems
    <3>3. \A e \in Elems(todo') : ~have'[e]
      BY <1>1, <2>5, <3>1, <3>2
    <3>4. QED
      BY <1>6, <2>1, <2>2, <2>8, <3>3 DEF TodoOK, Elems
  <2>10. CloseOK'
    BY <1>6, <2>8 DEF CloseOK
  <2>11. RollbackOK'
    BY <2>1, <2>2 DEF RollbackOK
  <2>12. PairedOK'
    <3> SUFFICES ASSUME faults' = 0 PROVE PairedOK'
      BY DEF PairedOK
    <3>1. faults = 0
      BY <1>4, <1>5 DEF WriterKept
    <3>2. "gamepad" \in Devices
      BY DEF Devices
    <3>3. have'["gamepad"] => slot'
      BY <2>3, <2>4, <2>5, <3>1, <3>2 DEF SessionInv, PairedOK
    <3>4. \A e \in Devices : ~OnWire("DESTROY", e)' /\ (~have'[e] => ~OnWire("CREATE", e)')
      BY <1>1, <1>4, <2>5, <3>1 DEF SessionInv, PairedOK, KeepsBut
    <3>5. QED
      BY <1>6, <2>8, <3>3, <3>4 DEF PairedOK
  <2>13. QED
    BY <2>6, <2>7, <2>9, <2>10, <2>11, <2>12 DEF SessionInv
<1>8. CASE CreateErr
  <2> DEFINE D == {e \in Devices : have[e]}
  <2>1. Failed /\ pc' = "dropping" /\ todo' = InOrder(D) /\ UNCHANGED <<have, slot, opened>>
    BY <1>8 DEF CreateErr
  <2>2. todo' \in Seq(Devices) /\ Distinct(todo') /\ Elems(todo') = D
    BY <2>1, InOrderFacts
  <2>3. Types'
    BY <1>4, <2>1, <2>2 DEF Types, WriterKept, SessionInv
  <2>4. BufferOK' /\ UseOK'
    BY <1>4, <2>1 DEF WriterKept, UseOK, SessionInv
  <2>5. Elems(todo)' = D
    BY <2>2 DEF Elems
  <2>6. TodoOK'
    BY <2>1, <2>5 DEF TodoOK, Closing
  <2>7. CloseOK'
    BY <1>6, <2>1, <2>5 DEF CloseOK, Closing
  <2>8. faults' >= 1
    BY <1>4, <1>5, <2>1
  <2>9. RollbackOK' /\ PairedOK'
    BY <1>5, <2>1, <2>8 DEF RollbackOK, PairedOK
  <2>10. QED
    BY <2>3, <2>4, <2>6, <2>7, <2>9 DEF SessionInv
<1>9. QED
  BY <1>7, <1>8 DEF OpenDevice

\* A UHID_DESTROY fails: try_close_all is left at once.
LEMMA CloseFailsInv ==
  ASSUME SessionInv, Closing, WriterKept, NEW d, KeepsBut("DESTROY", d),
         faults' >= faults + 1, CloseErr, UNCHANGED <<have, closed, opened>>
  PROVE  SessionInv'
<1>1. /\ todo' = <<>> /\ pc' = IF pc = "closing" THEN "open" ELSE "released"
      /\ pc \in {"closing", "dropping"} /\ faults \in Nat /\ faults' \in Nat
  BY DEF CloseErr, Closing, SessionInv, Types, WriterKept
<1>2. Types'
  BY <1>1, NothingTodo DEF SessionInv, Types, WriterKept
<1>3. BufferOK' /\ UseOK'
  BY DEF SessionInv, UseOK, WriterKept
<1>4. TodoOK'
  BY <1>1 DEF TodoOK, Closing
<1>5. \A e \in Devices : ~OnDevice(e) => ~OnDevice(e)'
  BY DEF KeepsBut
<1>6. CloseOK'
  BY <1>1, <1>5 DEF SessionInv, CloseOK, Closing
<1>7. RollbackOK'
  <2>1. CASE pc = "closing"
    BY <1>1, <2>1 DEF RollbackOK, SessionInv
  <2>2. CASE pc = "dropping"
    <3>1. opened \/ faults >= 1
      BY <2>2 DEF RollbackOK, SessionInv
    <3>2. opened' \/ faults' >= 2
      BY <1>1, <3>1
    <3>3. QED
      BY <1>1, <2>2, <3>2 DEF RollbackOK
  <2>3. QED
    BY <1>1, <2>1, <2>2
<1>8. PairedOK'
  BY <1>1 DEF PairedOK
<1>9. QED
  BY <1>2, <1>3, <1>4, <1>6, <1>7, <1>8 DEF SessionInv

\* The head of the list is handled; gone says whether its field is emptied.
LEMMA CloseNextInv ==
  ASSUME SessionInv, Closing, NEW d \in Devices, d = Head(todo), todo # <<>>,
         WriterKept, KeepsBut("DESTROY", d), todo' = Tail(todo),
         UNCHANGED <<closed, pc, opened>>,
         have' \in [Devices -> BOOLEAN],
         \A e \in Devices : /\ have'[e] => have[e]
                            /\ e # d => (have'[e] <=> have[e]),
         have'[d] => ~OnDevice(d)',
         faults' = 0 => (Settled(d)' /\ (have'["gamepad"] => slot'))
  PROVE  SessionInv'
<1>1. /\ d \in Elems(todo) /\ todo' \in Seq(Devices) /\ Distinct(todo')
      /\ Elems(todo') = Elems(todo) \ {d}
  BY TodoFacts DEF SessionInv, Types
<1>2. Elems(todo)' = Elems(todo) \ {d} /\ pc' \in {"closing", "dropping"} /\ Closing'
  BY <1>1 DEF Elems, Closing
<1>3. faults \in Nat /\ faults' \in Nat /\ faults <= faults'
  BY DEF SessionInv, Types, WriterKept
<1>4. Types'
  BY <1>1 DEF SessionInv, Types, WriterKept
<1>5. BufferOK' /\ UseOK'
  BY DEF SessionInv, UseOK, WriterKept
<1>6. TodoOK'
  <2>1. \A e \in Elems(todo) : e \in Devices /\ have[e]
    BY ElementOfSeq DEF SessionInv, Types, TodoOK, Elems
  <2>2. QED
    BY <1>2, <2>1 DEF TodoOK
<1>7. \A e \in Devices : ~OnDevice(e) => ~OnDevice(e)'
  BY DEF KeepsBut
<1>8. CloseOK'
  <2>1. ASSUME NEW e \in Devices, have'[e], e \notin Elems(todo)' PROVE ~OnDevice(e)'
    <3>1. CASE e = d
      BY <2>1, <3>1
    <3>2. CASE e # d
      BY <1>2, <1>7, <2>1, <3>2 DEF SessionInv, CloseOK
    <3>3. QED
      BY <3>1, <3>2
  <2>2. closed' => \A e \in Devices : have'[e] => ~OnDevice(e)'
    BY <1>7 DEF SessionInv, CloseOK
  <2>3. QED
    BY <2>1, <2>2 DEF CloseOK
<1>9. RollbackOK'
  BY <1>2, <1>3 DEF SessionInv, RollbackOK
<1>10. PairedOK'
  <2> SUFFICES ASSUME faults' = 0 PROVE PairedOK'
    BY DEF PairedOK
  <2>1. faults = 0
    BY <1>3
  <2>2. \A e \in Devices : e # d => /\ ~OnWire("DESTROY", e) => ~OnWire("DESTROY", e)'
                                    /\ Settled(e) => Settled(e)'
    BY DEF KeepsBut
  <2>3. \A e \in Devices : IF e \in Elems(todo)' THEN ~OnWire("DESTROY", e)' ELSE Settled(e)'
    BY <1>2, <2>1, <2>2 DEF SessionInv, PairedOK
  <2>4. closed' => \A e \in Devices : Settled(e)'
    BY <2>1, <2>2 DEF SessionInv, PairedOK
  <2>5. QED
    BY <1>2, <2>3, <2>4 DEF PairedOK
<1>11. QED
  BY <1>4, <1>5, <1>6, <1>8, <1>9, <1>10 DEF SessionInv

\* A step that does not touch the writer.
LEMMA WriterSame ==
  ASSUME SessionInv, UNCHANGED writer
  PROVE  /\ WriterKept /\ \A k, d : KeepsBut(k, d)
         /\ \A e : /\ OnDevice(e)' <=> OnDevice(e)
                   /\ Settled(e)' <=> Settled(e)
                   /\ \A k : OnWire(k, e)' <=> OnWire(k, e)
<1>1. /\ wire' = wire /\ pending' = pending /\ pushed' = pushed /\ faults' = faults
      /\ direct' = direct
  BY DEF writer
<1>2. \A e, k : OnWire(k, e)' <=> OnWire(k, e)
  BY <1>1 DEF OnWire, At
<1>3. \A e : OnDevice(e)' <=> OnDevice(e)
  BY <1>1 DEF OnDevice, At
<1>4. \A e : Settled(e)' <=> Settled(e)
  BY <1>1, <1>2 DEF Settled, DestroyedOnce, At
<1>5. BufferOK' /\ CreatedBeforeUse'
  BY <1>1, <1>2 DEF SessionInv, BufferOK, UseOK, CreatedBeforeUse, At, Elems
<1>6. WriterKept
  BY <1>1, <1>2, <1>5 DEF WriterKept, SessionInv, Types
<1>7. \A k, d : KeepsBut(k, d)
  BY <1>2, <1>3, <1>4 DEF KeepsBut
<1>8. QED
  BY <1>2, <1>3, <1>4, <1>6, <1>7

LEMMA CloseDeviceInv ==
  ASSUME SessionInv, CloseDevice
  PROVE  SessionInv'
<1>1. Closing /\ todo # <<>> /\ UNCHANGED <<closed, opened>>
  BY DEF CloseDevice, Closing
<1>2. PICK d \in Devices : d = Head(todo) /\ d \in Elems(todo)
  BY <1>1, TodoFacts DEF SessionInv, Types
<1>3. have[d] /\ OnWire("CREATE", d)
  BY <1>1, <1>2 DEF SessionInv, TodoOK, UseOK
<1>4. have \in [Devices -> BOOLEAN]
  BY DEF SessionInv, Types
<1>5. ASSUME Send("DESTROY", d)
      PROVE  /\ WriterKept /\ KeepsBut("DESTROY", d)
             /\ Failed => faults' >= faults + 1
             /\ ~Failed => ~OnDevice(d)' /\ (faults' = 0 => Settled(d)')
  <2>1. /\ WriterKept /\ KeepsBut("DESTROY", d)
        /\ Failed => faults' >= faults + 1
        /\ ~Failed => ~OnDevice(d)' /\ (~OnWire("DESTROY", d) => Settled(d)')
    BY <1>3, <1>5, SendSession
  <2>2. faults' = 0 => faults = 0
    BY <2>1 DEF WriterKept, SessionInv, Types
  <2>3. faults = 0 => ~OnWire("DESTROY", d)
    BY <1>1, <1>2 DEF SessionInv, PairedOK
  <2>4. QED
    BY <2>1, <2>2, <2>3
<1>6. CASE DestroyPlain
  <2>1. Send("DESTROY", d) /\ UNCHANGED <<have, slot>>
    BY <1>2, <1>6 DEF DestroyPlain
  <2>2. CASE Failed /\ CloseErr
    BY <1>1, <1>5, <2>1, <2>2, CloseFailsInv
  <2>3. CASE ~Failed /\ todo' = Tail(todo) /\ UNCHANGED pc
    <3>1. WriterKept /\ KeepsBut("DESTROY", d) /\ ~OnDevice(d)' /\ (faults' = 0 => Settled(d)')
      BY <1>5, <2>1, <2>3
    <3>2. faults' = 0 => (have'["gamepad"] => slot')
      BY <2>1, <3>1 DEF SessionInv, PairedOK, WriterKept, Types
    <3>3. QED
      BY <1>1, <1>2, <1>4, <2>1, <2>3, <3>1, <3>2, CloseNextInv
  <2>4. QED
    BY <1>6, <2>2, <2>3 DEF DestroyPlain
<1>7. CASE DestroyGamepad
  <2>1. d = "gamepad"
    BY <1>2, <1>7 DEF DestroyGamepad
  <2>2. ASSUME have' = [have EXCEPT !["gamepad"] = FALSE]
        PROVE  /\ have' \in [Devices -> BOOLEAN] /\ ~have'[d] /\ ~have'["gamepad"]
               /\ \A e \in Devices : /\ have'[e] => have[e]
                                     /\ e # d => (have'[e] <=> have[e])
    <3>1. have' \in [Devices -> BOOLEAN]
      BY <1>2, <1>4, <2>1, <2>2, Zenon
    <3>2. have'[d] = FALSE
      BY <1>2, <1>4, <2>1, <2>2, Zenon
    <3>3. \A e \in Devices : e # d => have'[e] = have[e]
      BY <1>4, <2>1, <2>2, Zenon
    <3>4. QED
      BY <2>1, <3>1, <3>2, <3>3, Zenon
  <2>3. CASE slot /\ Send("DESTROY", "gamepad") /\ Failed /\ CloseErr /\ UNCHANGED have
    BY <1>1, <1>5, <2>1, <2>3, CloseFailsInv
  <2>4. CASE /\ Send("DESTROY", "gamepad") /\ ~Failed
             /\ have' = [have EXCEPT !["gamepad"] = FALSE]
             /\ todo' = Tail(todo) /\ UNCHANGED pc
    <3>1. WriterKept /\ KeepsBut("DESTROY", d) /\ (faults' = 0 => Settled(d)')
      BY <1>5, <2>1, <2>4
    <3>2. QED
      BY <1>1, <1>2, <2>2, <2>4, <3>1, CloseNextInv
  <2>5. CASE /\ ~slot /\ have' = [have EXCEPT !["gamepad"] = FALSE]
             /\ todo' = Tail(todo) /\ UNCHANGED <<writer, pc>>
    <3>1. WriterKept /\ KeepsBut("DESTROY", d) /\ faults' = faults
      BY <2>5, WriterSame DEF writer
    <3>2. faults # 0
      BY <1>3, <2>1, <2>5 DEF SessionInv, PairedOK
    <3>3. QED
      BY <1>1, <1>2, <2>2, <2>5, <3>1, <3>2, CloseNextInv
  <2>6. QED
    BY <1>7, <2>3, <2>4, <2>5 DEF DestroyGamepad
<1>8. QED
  BY <1>6, <1>7 DEF CloseDevice

LEMMA CloseDoneInv ==
  ASSUME SessionInv, CloseDone
  PROVE  SessionInv'
<1>1. /\ Closing /\ todo = <<>> /\ pc \in {"closing", "dropping"}
      /\ pc' = IF pc = "closing" THEN "open" ELSE "released"
      /\ UNCHANGED <<writer, have, slot, todo, opened>>
  BY DEF CloseDone, Closing
<1>2. closed'
  BY Zenon DEF CloseDone
<1>3. /\ WriterKept
      /\ \A e : (OnDevice(e)' <=> OnDevice(e)) /\ (Settled(e)' <=> Settled(e))
  BY <1>1, WriterSame
<1>4. Elems(todo) = {} /\ faults' = faults
  BY <1>1, NothingTodo DEF writer
<1>5. Types' /\ BufferOK' /\ UseOK'
  BY <1>1, <1>3 DEF SessionInv, Types, UseOK, WriterKept
<1>6. \A e \in Devices : have[e] => ~OnDevice(e)
  BY <1>1, <1>4 DEF SessionInv, CloseOK
<1>7. TodoOK' /\ CloseOK'
  BY <1>1, <1>2, <1>3, <1>6 DEF TodoOK, CloseOK, Closing
<1>8. RollbackOK'
  BY <1>1, <1>3, <1>6 DEF SessionInv, RollbackOK
<1>9. PairedOK'
  BY <1>1, <1>2, <1>3, <1>4 DEF SessionInv, PairedOK, Closing
<1>10. QED
  BY <1>5, <1>7, <1>8, <1>9 DEF SessionInv

LEMMA BeginCloseInv ==
  ASSUME SessionInv, Close \/ Drop
  PROVE  SessionInv'
<1>1. /\ pc = "open" /\ UNCHANGED <<writer, have, slot, closed, opened>>
  BY DEF Close, Drop
<1>2. /\ WriterKept
      /\ \A e : /\ OnDevice(e)' <=> OnDevice(e)
                /\ Settled(e)' <=> Settled(e)
                /\ \A k : OnWire(k, e)' <=> OnWire(k, e)
  BY <1>1, WriterSame
<1>3. faults' = faults /\ opened'
  BY <1>1 DEF writer, SessionInv, RollbackOK
<1>4. BufferOK' /\ UseOK' /\ RollbackOK'
  BY <1>1, <1>2, <1>3 DEF SessionInv, UseOK, WriterKept, RollbackOK
<1>5. CASE ~closed
  <2>1. pc' \in {"closing", "dropping"} /\ todo' = InOrder(Opened)
    BY <1>5 DEF Close, Drop
  <2>2. Opened \subseteq Devices /\ \A e \in Devices : e \in Opened <=> have[e]
    BY DEF Opened
  <2>3. todo' \in Seq(Devices) /\ Distinct(todo') /\ Elems(todo)' = Opened
    BY <2>1, <2>2, InOrderFacts DEF Elems
  <2>4. Types'
    BY <1>1, <1>2, <2>1, <2>3 DEF SessionInv, Types, WriterKept
  <2>5. TodoOK' /\ CloseOK'
    BY <1>1, <1>5, <2>1, <2>2, <2>3 DEF TodoOK, CloseOK, Closing
  <2>6. PairedOK'
    <3> SUFFICES ASSUME faults' = 0 PROVE PairedOK'
      BY DEF PairedOK
    <3>1. /\ have["gamepad"] => slot
          /\ \A e \in Devices : ~OnWire("DESTROY", e) /\ (~have[e] => Settled(e))
      BY <1>1, <1>3, <1>5 DEF SessionInv, PairedOK, Settled
    <3>2. QED
      BY <1>1, <1>2, <1>5, <2>1, <2>2, <2>3, <3>1 DEF PairedOK
  <2>7. QED
    BY <1>4, <2>4, <2>5, <2>6 DEF SessionInv
<1>6. CASE closed
  <2>1. pc' = "released" /\ todo' = <<>>
    BY <1>6 DEF Close, Drop
  <2>2. Types'
    BY <1>1, <1>2, <2>1, NothingTodo DEF SessionInv, Types, WriterKept
  <2>3. TodoOK' /\ CloseOK'
    BY <1>1, <1>2, <2>1 DEF SessionInv, TodoOK, CloseOK, Closing
  <2>4. PairedOK'
    BY <1>1, <1>2, <1>3, <1>6, <2>1 DEF SessionInv, PairedOK, Closing
  <2>5. QED
    BY <1>4, <2>2, <2>3, <2>4 DEF SessionInv
<1>7. QED
  BY <1>5, <1>6

-----------------------------------------------------------------------------
LEMMA InitInv == Init => SessionInv
<1> SUFFICES ASSUME Init PROVE SessionInv
  OBVIOUS
<1>1. wire = <<>> /\ pending = <<>> /\ pushed = 0 /\ faults = 0
  BY DEF Init, W!Init
<1>2. PICK Req \in SUBSET Devices :
        /\ todo = InOrder(Req) /\ pc = IF Req = {} THEN "open" ELSE "opening"
        /\ opened = (Req = {})
  BY DEF Init
<1>3. todo \in Seq(Devices) /\ Distinct(todo) /\ Elems(todo) = Req
  BY <1>2, InOrderFacts
<1>4. opened <=> Req = {}
  BY <1>2, Zenon
<1>5. have \in [Devices -> BOOLEAN] /\ ~closed /\ \A d \in Devices : ~have[d]
  BY Zenon DEF Init
<1>6. <<>> \in Seq(Report) /\ Len(<<>>) = 0 /\ 1..0 = {}
  BY EmptySeq
<1>7. Types
  BY <1>1, <1>2, <1>3, <1>5, <1>6 DEF Types
<1>8. \A k, d : ~OnWire(k, d)
  BY <1>1, <1>6 DEF OnWire
<1>9. BufferOK
  BY <1>1, <1>6 DEF BufferOK, Elems
<1>10. UseOK
  BY <1>1, <1>5, <1>6 DEF UseOK, CreatedBeforeUse
<1>11. TodoOK
  <2>1. pc = "opening" => Req # {}
    BY <1>2
  <2>2. Req # {} => todo # <<>>
    BY <1>3, NothingTodo
  <2>3. QED
    BY <1>2, <1>3, <1>4, <1>5, <2>1, <2>2 DEF TodoOK, Closing
<1>12. CloseOK /\ RollbackOK
  BY <1>2, <1>4, <1>5 DEF CloseOK, RollbackOK, Closing
<1>13. PairedOK
  <2>1. "gamepad" \in Devices
    BY DEF Devices
  <2>2. QED
    BY <1>2, <1>5, <1>8, <2>1 DEF PairedOK, Closing
<1>14. QED
  BY <1>7, <1>9, <1>10, <1>11, <1>12, <1>13 DEF SessionInv

LEMMA StepInv == SessionInv /\ [Next]_vars => SessionInv'
<1> SUFFICES ASSUME SessionInv, [Next]_vars PROVE SessionInv'
  OBVIOUS
<1>1. CASE OpenDevice
  BY <1>1, OpenDeviceInv
<1>2. CASE Use \/ IntoInner \/ DropFields
  BY <1>2, UseInv
<1>3. CASE Close \/ Drop
  BY <1>3, BeginCloseInv
<1>4. CASE CloseDevice
  BY <1>4, CloseDeviceInv
<1>5. CASE CloseDone
  BY <1>5, CloseDoneInv
<1>6. CASE UNCHANGED vars
  <2>1. UNCHANGED writer /\ UNCHANGED <<have, slot, closed, pc, todo, opened>>
    BY <1>6 DEF vars
  <2>2. WriterKept /\ KeepsBut("INPUT", "kbd")
    BY <2>1, WriterSame
  <2>3. QED
    BY <2>1, <2>2, QuietMoves
<1>7. QED
  BY <1>1, <1>2, <1>3, <1>4, <1>5, <1>6 DEF Next

(* The invariant of the session: what waits in the buffer, what the fields *)
(* claim and what try_close_all still has on its list agree with the wire, *)
(* whichever sends have failed.                                            *)
THEOREM SessionInvariant == Spec => []SessionInv
<1>1. Init => SessionInv
  BY InitInv
<1>2. SessionInv /\ [Next]_vars => SessionInv'
  BY StepInv
<1>3. QED
  BY <1>1, <1>2, PTL DEF Spec

(* For every byte limit, both modes and any pattern of failing sends: the  *)
(* phone is told to create a device before it gets anything else for it.   *)
THEOREM SessionCreatedBeforeUse == Spec => []CreatedBeforeUse
<1>1. SessionInv => CreatedBeforeUse
  BY DEF SessionInv, UseOK
<1>2. QED
  BY <1>1, SessionInvariant, PTL

(* A close() that returned Ok, be it a retry, has taken the keyboard and   *)
(* the mouse off the phone, and the gamepad too if no send ever failed.    *)
THEOREM SessionCloseIsComplete == Spec => []CloseIsComplete
<1>1. SessionInv => CloseIsComplete
  <2> SUFFICES ASSUME SessionInv, closed PROVE CloseIsComplete
    BY DEF CloseIsComplete
  <2>1. "kbd" \in Devices /\ "mouse" \in Devices /\ "gamepad" \in Devices
    BY DEF Devices
  <2>2. \A d \in Devices : have[d] => ~OnDevice(d)
    BY DEF SessionInv, CloseOK
  <2>3. faults = 0 => Settled("gamepad")
    BY <2>1 DEF SessionInv, PairedOK
  <2>4. faults = 0 => ~OnDevice("gamepad")
    BY <2>3, SettledIsOff DEF SessionInv, Types
  <2>5. QED
    BY <2>1, <2>2, <2>4 DEF CloseIsComplete
<1>2. QED
  BY <1>1, SessionInvariant, PTL

(* A session that never opened and is gone, Drop and the writer's last     *)
(* flush included, with one failed write at most has left none of its      *)
(* devices on the phone.                                                   *)
THEOREM SessionOpenRollsBack == Spec => []OpenRollsBack
<1>1. SessionInv => OpenRollsBack
  BY DEF SessionInv, Types, RollbackOK, OpenRollsBack
<1>2. QED
  BY <1>1, SessionInvariant, PTL

(* With a transport that works, every UHID_CREATE has exactly one          *)
(* UHID_DESTROY behind it once the session is gone, however it ended.      *)
THEOREM SessionCreatesArePaired == Spec => []CreatesArePaired
<1>1. SessionInv => CreatesArePaired
  <2> SUFFICES ASSUME SessionInv, pc = "gone", faults = 0,
                      NEW i \in 1..Len(wire), wire[i].kind = "CREATE"
               PROVE  \E j \in (i + 1)..Len(wire) :
                        /\ At(j, "DESTROY", wire[i].dev)
                        /\ \A l \in 1..Len(wire) : At(l, "DESTROY", wire[i].dev) => l = j
    BY DEF CreatesArePaired
  <2> DEFINE d == wire[i].dev
  <2>1. wire \in Seq(Report)
    BY DEF SessionInv, Types
  <2>2. wire[i] \in Report
    BY <2>1, ElementOfSeq
  <2>3. Len(wire) \in Nat /\ d \in Devices
    BY <2>1, <2>2 DEF Report
  <2>4. At(i, "CREATE", d)
    BY DEF At
  <2> HIDE DEF d
  <2>5. \A e \in Devices : Settled(e)
    BY DEF SessionInv, PairedOK
  <2>6. OnWire("CREATE", d)
    BY <2>4 DEF OnWire
  <2>7. Settled(d) /\ OnWire("CREATE", d)
    BY <2>3, <2>5, <2>6
  <2>8. PICK j \in 1..Len(wire) :
          /\ At(j, "DESTROY", d)
          /\ \A l \in 1..Len(wire) : /\ At(l, "CREATE", d) => l < j
                                     /\ At(l, "DESTROY", d) => l = j
    BY <2>7 DEF Settled, DestroyedOnce
  <2>9. j \in (i + 1)..Len(wire)
    BY <2>3, <2>4, <2>8
  <2>10. QED
    BY <2>8, <2>9 DEF d
<1>2. QED
  BY <1>1, SessionInvariant, PTL
=============================================================================
