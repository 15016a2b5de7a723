---------------------------- MODULE InputProofs ----------------------------
(***************************************************************************)
(* Proofs of what turns calls into input reports: the frame batchers of    *)
(* client.rs (FrameBatcher), the drivers of src/hid/ behind a session      *)
(* (HidDrivers), and the lock-free ring of the gamepad fast path with the  *)
(* thread that empties it (GamepadRing, GamepadFastPath).  The three share *)
(* no state.                                                               *)
(*                                                                         *)
(* The batchers and the drivers share what their proofs rest on: both say  *)
(* what is left of a long sequence of frames or messages when it is read   *)
(* from the start, and so need induction over sequences.                   *)
(***************************************************************************)
EXTENDS FrameBatcher, HidDrivers, GamepadFastPath, SequenceLemmas, FiniteSetTheorems

-----------------------------------------------------------------------------
(* The frame batchers.                                                     *)
(*                                                                         *)
(* The argument: the stream of a batcher is what was delivered, what is in *)
(* the channel or the ring and what is in its buffer, in that order.  Only *)
(* Store adds to it, at the end; sending and dispatching move a part of it *)
(* from one place to the next and leave the stream as it is.  So the       *)
(* frames the running call has stored are the end of the stream, and what  *)
(* is left of the call's frames completes them; when the call returns Ok   *)
(* nothing is left, and the whole call is there in one piece (Whole) with  *)
(* nothing of the call behind it.  What Only keeps of the stream is proved *)
(* to be what the settled calls stored, by induction over the stream.      *)

KeyNames     == {"none", "a", "b", "c", "shift", "home"}
FrameSet == [call : Nat, at : Nat, act : {"data", "press", "release"}, key : KeyNames,
             mods : BOOLEAN]
CallSet  == [frames : Seq(FrameSet), slice : BOOLEAN, res : {"Busy", "Ok", "Err"},
             tries : Nat]

-----------------------------------------------------------------------------
(* The calls and the stream of frames as values: s is the stream, cs the   *)
(* calls, td what the running call has still to store, e the batcher is    *)
(* eager.                                                                  *)

CallsOK(cs) ==
  /\ cs \in Seq(CallSet)
  /\ \A c \in 1..Len(cs) :
       /\ cs[c].frames # <<>> /\ cs[c].tries # 0
       /\ \A i \in 1..Len(cs[c].frames) : cs[c].frames[i].call = c
       /\ c # Len(cs) => cs[c].res # "Busy"

LastBusy(cs) == cs # <<>> /\ cs[Len(cs)].res = "Busy"

Sole(cs, c, e) == Len(cs[c].frames) = 1 /\ ~cs[c].slice /\ ~e
Trusted(cs, c, e) == \/ cs[c].res = "Ok" /\ cs[c].tries = 1
                     \/ cs[c].res # "Busy" /\ Sole(cs, c, e)
TrustedFrames(cs, e) == {f \in FrameSet : Trusted(cs, f.call, e)}
YieldOf(cs, c, e) ==
  IF Trusted(cs, c, e) /\ cs[c].res = "Ok" THEN cs[c].frames ELSE <<>>
Yield(cs, n, e) == [c \in 1..n |-> YieldOf(cs, c, e)]

\* No frame of call c.
Free(s, c) == \A i \in 1..Len(s) : s[i].call # c

\* Every frame is one of the call it names.
Placed(s, cs) ==
  \A i \in 1..Len(s) :
    /\ s[i].call \in 1..Len(cs)
    /\ \E j \in 1..Len(cs[s[i].call].frames) : s[i] = cs[s[i].call].frames[j]

Kept(s, cs, e) == Only(s, TrustedFrames(cs, e)) = FlattenSeq(Yield(cs, Len(cs), e))

RefusedGone(s, cs, e) ==
  \A c \in 1..Len(cs) : cs[c].res = "Err" /\ Sole(cs, c, e) => Free(s, c)

\* The frames of a call that returned Ok are there in one piece, and nothing
\* of the call comes after them.
Whole(s, fs, c) ==
  \E p \in Seq(FrameSet), d \in Seq(FrameSet) : s = (p \o fs) \o d /\ Free(d, c)
Landed(s, cs) == \A c \in 1..Len(cs) : cs[c].res = "Ok" => Whole(s, cs[c].frames, c)

\* The running call: what it has stored is the end of the stream.
Halfway(s, fs, td, c, first) ==
  \E p \in Seq(FrameSet), d \in Seq(FrameSet) :
    s = p \o d /\ d \o td = fs /\ (first => Free(p, c))
FirstTry(cs, c, e) == cs[c].tries = 1 \/ Sole(cs, c, e)
Doing(s, cs, td, e) ==
  LastBusy(cs) => Halfway(s, cs[Len(cs)].frames, td, Len(cs), FirstTry(cs, Len(cs), e))

Batch(s, cs, td, e) ==
  /\ s \in Seq(FrameSet) /\ CallsOK(cs) /\ td \in Seq(FrameSet)
  /\ Placed(s, cs) /\ Kept(s, cs, e) /\ RefusedGone(s, cs, e) /\ Landed(s, cs)
  /\ Doing(s, cs, td, e)

\* Only the last call changes, and of it the result and the tries.
Changed(cs, cs1, r, t) ==
  /\ cs1 \in Seq(CallSet) /\ Len(cs1) = Len(cs) /\ cs # <<>>
  /\ \A c \in 1..Len(cs) : c # Len(cs) => cs1[c] = cs[c]
  /\ cs1[Len(cs)].frames = cs[Len(cs)].frames /\ cs1[Len(cs)].slice = cs[Len(cs)].slice
  /\ cs1[Len(cs)].res = r /\ cs1[Len(cs)].tries = t

LEMMA CallParts ==
  ASSUME NEW cs, CallsOK(cs), NEW c \in 1..Len(cs)
  PROVE  /\ Len(cs) \in Nat /\ cs[c].frames \in Seq(FrameSet) /\ cs[c].frames # <<>>
         /\ \A i \in 1..Len(cs[c].frames) : cs[c].frames[i].call = c
         /\ cs[c].slice \in BOOLEAN /\ cs[c].res \in {"Busy", "Ok", "Err"}
         /\ cs[c].tries \in Nat /\ cs[c].tries # 0
         /\ c # Len(cs) => cs[c].res # "Busy"
<1>1. cs[c] \in CallSet
  BY DEF CallsOK
<1>2. cs[c].frames \in Seq(FrameSet)
  <2> DEFINE F == Seq(FrameSet)
  <2>1. cs[c] \in [frames : F, slice : BOOLEAN, res : {"Busy", "Ok", "Err"}, tries : Nat]
    BY <1>1 DEF CallSet
  <2> HIDE DEF F
  <2>2. cs[c].frames \in F
    BY <2>1
  <2> QED
    BY <2>2 DEF F
<1>3. cs[c].slice \in BOOLEAN /\ cs[c].res \in {"Busy", "Ok", "Err"} /\ cs[c].tries \in Nat
  BY <1>1 DEF CallSet
<1> QED
  BY <1>2, <1>3 DEF CallsOK

LEMMA YieldOfType ==
  ASSUME NEW cs, NEW e, CallsOK(cs), NEW c \in 1..Len(cs)
  PROVE  YieldOf(cs, c, e) \in Seq(FrameSet)
<1>1. cs[c].frames \in Seq(FrameSet)
  BY CallParts
<1>2. <<>> \in Seq(FrameSet)
  OBVIOUS
<1> QED
  BY <1>1, <1>2, Zenon DEF YieldOf

LEMMA YieldType ==
  ASSUME NEW cs, NEW e, CallsOK(cs), NEW n \in 0..Len(cs)
  PROVE  Yield(cs, n, e) \in Seq(Seq(FrameSet)) /\ Len(Yield(cs, n, e)) = n
<1> DEFINE F == Seq(FrameSet)
<1>1. \A c \in 1..n : YieldOf(cs, c, e) \in F
  <2>1. \A c \in 1..n : c \in 1..Len(cs)
    BY DEF CallsOK
  <2> QED
    BY <2>1, YieldOfType
<1>2. n \in Nat
  BY DEF CallsOK
<1>3. Yield(cs, n, e) \in [1..n -> F]
  BY <1>1 DEF Yield
<1> HIDE DEF F
<1>4. Yield(cs, n, e) \in Seq(F) /\ Len(Yield(cs, n, e)) = n
  BY <1>2, <1>3
<1> QED
  BY <1>4 DEF F

\* The last call adds its own at the end.
LEMMA YieldLast ==
  ASSUME NEW cs, NEW e, CallsOK(cs), NEW n \in Nat, n + 1 <= Len(cs)
  PROVE  FlattenSeq(Yield(cs, n + 1, e)) = FlattenSeq(Yield(cs, n, e)) \o YieldOf(cs, n + 1, e)
<1>1. n \in 0..Len(cs) /\ n + 1 \in 0..Len(cs) /\ n + 1 \in 1..Len(cs)
  BY DEF CallsOK
<1>2. YieldOf(cs, n + 1, e) \in Seq(FrameSet)
  BY <1>1, YieldOfType
<1>3. Yield(cs, n, e) \in Seq(Seq(FrameSet)) /\ Len(Yield(cs, n, e)) = n
  BY <1>1, YieldType
<1>4. Yield(cs, n + 1, e) = Append(Yield(cs, n, e), YieldOf(cs, n + 1, e))
  <2> DEFINE u == Yield(cs, n, e)
             v == Yield(cs, n + 1, e)
             y == YieldOf(cs, n + 1, e)
             w == Append(u, y)
             F == Seq(FrameSet)
  <2>1. v \in Seq(F) /\ Len(v) = n + 1
    BY <1>1, YieldType
  <2>2. \A c \in 1..n : v[c] = u[c]
    BY DEF Yield
  <2>3. v[n + 1] = y
    BY DEF Yield
  <2>4. u \in Seq(F) /\ Len(u) = n /\ y \in F
    BY <1>2, <1>3
  <2> HIDE DEF u, v, y, F
  <2>5. v = w
    BY <2>1, <2>2, <2>3, <2>4
  <2> QED
    BY <2>5 DEF u, v, y, w
<1> QED
  BY <1>2, <1>3, <1>4, FlattenAppend

LEMMA FreeConcat ==
  ASSUME NEW p \in Seq(FrameSet), NEW d \in Seq(FrameSet), NEW c
  PROVE  Free(p \o d, c) <=> Free(p, c) /\ Free(d, c)
<1> DEFINE s == p \o d
<1>1. /\ Len(p) \in Nat /\ Len(d) \in Nat /\ Len(s) = Len(p) + Len(d)
      /\ \A i \in 1..Len(p) : s[i] = p[i]
      /\ \A i \in 1..Len(d) : s[Len(p) + i] = d[i]
  OBVIOUS
<1> HIDE DEF s
<1>2. ASSUME Free(s, c)
      PROVE  Free(p, c) /\ Free(d, c)
  <2>1. \A i \in 1..Len(p) : i \in 1..Len(s)
    BY <1>1
  <2>2. \A i \in 1..Len(d) : Len(p) + i \in 1..Len(s)
    BY <1>1
  <2> QED
    BY <1>1, <1>2, <2>1, <2>2 DEF Free
<1>3. ASSUME Free(p, c), Free(d, c)
      PROVE  Free(s, c)
  <2> SUFFICES ASSUME NEW i \in 1..Len(s)
               PROVE  s[i].call # c
    BY DEF Free
  <2>1. CASE i \in 1..Len(p)
    BY <1>1, <1>3, <2>1 DEF Free
  <2>2. CASE i \notin 1..Len(p)
    <3>1. i - Len(p) \in 1..Len(d) /\ Len(p) + (i - Len(p)) = i
      BY <1>1, <2>2
    <3> QED
      BY <1>1, <1>3, <3>1 DEF Free
  <2> QED
    BY <2>1, <2>2
<1> QED
  BY <1>2, <1>3 DEF s

\* What the running call stores next is its own.
AllOf(fs, c) == \A i \in 1..Len(fs) : fs[i].call = c
PartOf(td, fs, c) ==
  \A i \in 1..Len(td) : td[i].call = c /\ \E j \in 1..Len(fs) : td[i] = fs[j]

LEMMA HalfwayParts ==
  ASSUME NEW fs, NEW c, AllOf(fs, c),
         NEW d \in Seq(FrameSet), NEW td \in Seq(FrameSet), d \o td = fs
  PROVE  PartOf(td, fs, c)
<1> SUFFICES ASSUME NEW i \in 1..Len(td)
             PROVE  td[i].call = c /\ \E j \in 1..Len(fs) : td[i] = fs[j]
  BY DEF PartOf
<1> DEFINE gs == d \o td
           j == Len(d) + i
<1>1. j \in 1..Len(gs) /\ gs[j] = td[i]
  OBVIOUS
<1> HIDE DEF gs, j
<1>2. gs = fs
  BY DEF gs
<1> QED
  BY <1>1, <1>2 DEF AllOf

\* A turn of the loop: the frames x go from td into the stream.
LEMMA StoreKeeps ==
  ASSUME NEW s, NEW cs, NEW td, NEW e, NEW x \in Seq(FrameSet), NEW rest \in Seq(FrameSet),
         td = x \o rest, LastBusy(cs), Batch(s, cs, td, e)
  PROVE  Batch(s \o x, cs, rest, e)
<1> DEFINE n == Len(cs)
           fs == cs[n].frames
           first == FirstTry(cs, n, e)
           S == TrustedFrames(cs, e)
           s1 == s \o x
<1>0. \A u, v, w \in Seq(FrameSet) : (u \o v) \o w = u \o (v \o w)
  <2>1. \A u, v, w \in Seq(FrameSet) : Assoc(u, v, w)
    BY ConcatAssocAll
  <2> QED
    BY <2>1, Zenon DEF Assoc
<1>1. s \in Seq(FrameSet) /\ CallsOK(cs) /\ td \in Seq(FrameSet)
      /\ Placed(s, cs) /\ Kept(s, cs, e) /\ RefusedGone(s, cs, e) /\ Landed(s, cs)
      /\ Halfway(s, fs, td, n, first)
  BY DEF Batch, Doing
<1>2. n \in Nat /\ n \in 1..Len(cs) /\ cs # <<>> /\ cs[n].res = "Busy"
  BY <1>1 DEF CallsOK, LastBusy
<1>3. PICK p \in Seq(FrameSet), d \in Seq(FrameSet) :
        s = p \o d /\ d \o td = fs /\ (first => Free(p, n))
  BY <1>1 DEF Halfway
<1>4. s1 \in Seq(FrameSet) /\ fs \in Seq(FrameSet)
  BY <1>1, <1>2, CallParts
<1>5. \A i \in 1..Len(x) : x[i].call = n /\ \E j \in 1..Len(fs) : x[i] = fs[j]
  <2>1. \A i \in 1..Len(td) : td[i].call = n /\ \E j \in 1..Len(fs) : td[i] = fs[j]
    <3>1. td \in Seq(FrameSet) /\ d \o td = fs
      BY <1>1, <1>3
    <3>2. AllOf(fs, n)
      BY <1>1, <1>2, CallParts DEF AllOf
    <3>3. PartOf(td, fs, n)
      <4> HIDE DEF fs, n
      <4> QED
        BY <3>1, <3>2, HalfwayParts, Zenon
    <3> QED
      BY <3>3 DEF PartOf
  <2>2. \A i \in 1..Len(x) : i \in 1..Len(td) /\ td[i] = x[i]
    OBVIOUS
  <2> QED
    BY <2>1, <2>2
<1>6. ASSUME NEW c, c # n
      PROVE  Free(x, c)
  BY <1>5, <1>6 DEF Free
<1>7. Placed(s1, cs)
  <2>1. /\ Len(s) \in Nat /\ Len(x) \in Nat /\ Len(s1) = Len(s) + Len(x)
        /\ \A i \in 1..Len(s) : s1[i] = s[i]
        /\ \A i \in 1..Len(x) : s1[Len(s) + i] = x[i]
    BY <1>1
  <2> HIDE DEF s1
  <2> SUFFICES ASSUME NEW i \in 1..Len(s1)
               PROVE  /\ s1[i].call \in 1..Len(cs)
                      /\ \E j \in 1..Len(cs[s1[i].call].frames) :
                           s1[i] = cs[s1[i].call].frames[j]
    BY DEF Placed
  <2>2. CASE i \in 1..Len(s)
    BY <1>1, <2>1, <2>2 DEF Placed
  <2>3. CASE i \notin 1..Len(s)
    <3>1. i - Len(s) \in 1..Len(x) /\ Len(s) + (i - Len(s)) = i
      BY <2>1, <2>3
    <3>2. s1[i] = x[i - Len(s)]
      BY <1>1, <2>1, <3>1
    <3>3. s1[i].call = n /\ \E j \in 1..Len(fs) : s1[i] = fs[j]
      BY <1>5, <3>1, <3>2
    <3> QED
      BY <1>2, <3>3
  <2> QED
    BY <2>2, <2>3
<1>8. Kept(s1, cs, e)
  <2>1. Only(s1, S) = Only(s, S) \o Only(x, S)
    <3>1. \A a, b \in Seq(FrameSet) : Splits(S, a, b)
      BY OnlySplits
    <3> QED
      BY <1>1, <3>1, Zenon DEF Splits
  <2>2. \A i \in 1..Len(x) : x[i] \notin S
    BY <1>2, <1>5 DEF TrustedFrames, Trusted
  <2>3. Only(x, S) = <<>>
    <3> HIDE DEF S
    <3> QED
      BY <2>2, OnlyKeeps
  <2>4. Only(s, S) \o <<>> = Only(s, S)
    <3>1. Only(s, S) \in Seq(FrameSet)
      BY <1>1, OnlyType
    <3> QED
      BY <3>1
  <2> QED
    BY <1>1, <2>1, <2>3, <2>4, Zenon DEF Kept
<1>9. RefusedGone(s1, cs, e)
  <2> SUFFICES ASSUME NEW c \in 1..Len(cs), cs[c].res = "Err", Sole(cs, c, e)
               PROVE  Free(s1, c)
    BY DEF RefusedGone
  <2>1. c # n
    BY <1>2
  <2>2. Free(s, c) /\ Free(x, c)
    BY <1>1, <1>6, <2>1 DEF RefusedGone
  <2> QED
    BY <1>1, <2>2, FreeConcat
<1>10. Landed(s1, cs)
  <2> SUFFICES ASSUME NEW c \in 1..Len(cs), cs[c].res = "Ok"
               PROVE  Whole(s1, cs[c].frames, c)
    BY DEF Landed
  <2>1. c # n
    BY <1>2
  <2>2. PICK a \in Seq(FrameSet), b \in Seq(FrameSet) :
          s = (a \o cs[c].frames) \o b /\ Free(b, c)
    BY <1>1 DEF Landed, Whole
  <2>3. cs[c].frames \in Seq(FrameSet)
    BY <1>1, CallParts
  <2>4. a \o cs[c].frames \in Seq(FrameSet) /\ b \o x \in Seq(FrameSet)
    BY <2>3
  <2>5. s1 = (a \o cs[c].frames) \o (b \o x)
    <3> DEFINE m == a \o cs[c].frames
    <3>1. m \in Seq(FrameSet) /\ s = m \o b
      BY <2>2, <2>4
    <3> HIDE DEF m
    <3>2. (m \o b) \o x = m \o (b \o x)
      <4>1. Assoc(m, b, x)
        BY <2>2, <3>1, ConcatAssocAll
      <4> QED
        BY <4>1, Zenon DEF Assoc
    <3>3. s1 = m \o (b \o x)
      BY <3>1, <3>2, Zenon
    <3> QED
      BY <3>3 DEF m
  <2>6. Free(b \o x, c)
    BY <1>6, <2>1, <2>2, FreeConcat
  <2> QED
    BY <2>4, <2>5, <2>6 DEF Whole
<1>11. Doing(s1, cs, rest, e)
  <2>1. s1 = p \o (d \o x) /\ d \o x \in Seq(FrameSet)
    <3>1. Assoc(p, d, x)
      BY <1>3, ConcatAssocAll
    <3>2. d \o x \in Seq(FrameSet)
      BY <1>3
    <3> QED
      BY <1>3, <3>1, <3>2, Zenon DEF Assoc
  <2>2. (d \o x) \o rest = fs
    BY <1>0, <1>3, Zenon
  <2>3. Halfway(s1, fs, rest, n, first)
    <3> HIDE DEF s1, fs, first
    <3> QED
      BY <1>3, <2>1, <2>2 DEF Halfway
  <2> QED
    BY <2>3 DEF Doing
<1> QED
  BY <1>1, <1>4, <1>7, <1>8, <1>9, <1>10, <1>11 DEF Batch

\* The yields of calls that are the same.
LEMMA YieldSame ==
  ASSUME NEW cs, NEW cs1, NEW e, NEW n, \A c \in 1..n : cs1[c] = cs[c]
  PROVE  Yield(cs1, n, e) = Yield(cs, n, e)
  BY DEF Yield, YieldOf, Trusted, Sole

\* A new call.
LEMMA PushKeeps ==
  ASSUME NEW s, NEW cs, NEW td, NEW e, NEW k \in CallSet,
         k.frames # <<>>, k.tries # 0, AllOf(k.frames, Len(cs) + 1), k.res = "Busy",
         ~LastBusy(cs), Batch(s, cs, td, e)
  PROVE  Batch(s, Append(cs, k), k.frames, e)
<1> DEFINE n == Len(cs)
           cs1 == Append(cs, k)
           fs == k.frames
<1>1. s \in Seq(FrameSet) /\ CallsOK(cs)
      /\ Placed(s, cs) /\ Kept(s, cs, e) /\ RefusedGone(s, cs, e) /\ Landed(s, cs)
  BY DEF Batch
<1>2. /\ n \in Nat /\ cs1 \in Seq(CallSet) /\ Len(cs1) = n + 1 /\ cs1[n + 1] = k
      /\ \A c \in 1..n : cs1[c] = cs[c]
  BY <1>1 DEF CallsOK
<1>3. fs \in Seq(FrameSet)
  <2> DEFINE F == Seq(FrameSet)
  <2>1. k \in [frames : F, slice : BOOLEAN, res : {"Busy", "Ok", "Err"}, tries : Nat]
    BY DEF CallSet
  <2> HIDE DEF F
  <2>2. k.frames \in F
    BY <2>1
  <2> QED
    BY <2>2 DEF F
<1> HIDE DEF cs1, n
<1>4. \A c \in 1..Len(cs1) : c = n + 1 \/ c \in 1..n
  BY <1>2
<1>5. CallsOK(cs1)
  <2> SUFFICES ASSUME NEW c \in 1..Len(cs1)
               PROVE  /\ cs1[c].frames # <<>> /\ cs1[c].tries # 0
                      /\ \A i \in 1..Len(cs1[c].frames) : cs1[c].frames[i].call = c
                      /\ c # Len(cs1) => cs1[c].res # "Busy"
    BY <1>2 DEF CallsOK
  <2>1. CASE c = n + 1
    BY <1>2, <2>1 DEF AllOf, n
  <2>2. CASE c \in 1..n
    <3>1. /\ cs[c].frames # <<>> /\ cs[c].tries # 0 /\ cs1[c] = cs[c]
          /\ \A i \in 1..Len(cs[c].frames) : cs[c].frames[i].call = c
          /\ c # n => cs[c].res # "Busy"
      BY <1>1, <1>2, <2>2 DEF CallsOK, n
    <3>2. cs[c].res # "Busy"
      <4>1. cs # <<>>
        BY <1>1, <1>2, <2>2 DEF n, CallsOK
      <4> QED
        BY <3>1, <4>1 DEF LastBusy, n
    <3> QED
      BY <3>1, <3>2
  <2> QED
    BY <1>4, <2>1, <2>2
<1>6. \A i \in 1..Len(s) : s[i].call \in 1..n
  BY <1>1 DEF Placed, n
<1>7. Placed(s, cs1)
  <2>1. \A c \in 1..n : c \in 1..Len(cs1)
    BY <1>2
  <2> QED
    BY <1>1, <1>2, <2>1 DEF Placed, n
<1>8. Kept(s, cs1, e)
  <2> DEFINE S == TrustedFrames(cs, e)
             S1 == TrustedFrames(cs1, e)
  <2>1. \A i \in 1..Len(s) : s[i] \in S <=> s[i] \in S1
    <3> SUFFICES ASSUME NEW i \in 1..Len(s)
                 PROVE  Trusted(cs, s[i].call, e) <=> Trusted(cs1, s[i].call, e)
      BY DEF TrustedFrames
    <3> QED
      BY <1>2, <1>6 DEF Trusted, Sole
  <2>2. Only(s, S) = Only(s, S1)
    <3> HIDE DEF S, S1
    <3> QED
      BY <1>1, <2>1, OnlySame
  <2>3. Yield(cs1, n, e) = Yield(cs, n, e)
    BY <1>2, YieldSame
  <2>4. YieldOf(cs1, n + 1, e) = <<>>
    BY <1>2 DEF YieldOf
  <2>5. FlattenSeq(Yield(cs1, n + 1, e)) = FlattenSeq(Yield(cs1, n, e)) \o <<>>
    <3>1. n \in Nat /\ n + 1 <= Len(cs1)
      BY <1>2
    <3>2. FlattenSeq(Yield(cs1, n + 1, e)) = FlattenSeq(Yield(cs1, n, e)) \o YieldOf(cs1, n + 1, e)
      BY <1>5, <3>1, YieldLast
    <3> QED
      BY <2>4, <3>2, Zenon
  <2>6. FlattenSeq(Yield(cs, n, e)) \in Seq(FrameSet)
    <3>1. n \in 0..Len(cs)
      BY <1>2 DEF n
    <3>2. Yield(cs, n, e) \in Seq(Seq(FrameSet))
      BY <1>1, <3>1, YieldType
    <3> QED
      BY <3>2, FlattenType
  <2>7. FlattenSeq(Yield(cs, n, e)) \o <<>> = FlattenSeq(Yield(cs, n, e))
    BY <2>6
  <2>8. Only(s, S) = FlattenSeq(Yield(cs, n, e))
    BY <1>1 DEF Kept, n
  <2>9. Only(s, S1) = FlattenSeq(Yield(cs1, n + 1, e))
    BY <2>2, <2>3, <2>5, <2>7, <2>8, Zenon
  <2> QED
    BY <1>2, <2>9 DEF Kept
<1>9. RefusedGone(s, cs1, e)
  <2> SUFFICES ASSUME NEW c \in 1..Len(cs1), cs1[c].res = "Err", Sole(cs1, c, e)
               PROVE  Free(s, c)
    BY DEF RefusedGone
  <2>1. c \in 1..n /\ cs1[c] = cs[c]
    BY <1>2, <1>4
  <2> QED
    BY <1>1, <2>1 DEF RefusedGone, Sole, n
<1>10. Landed(s, cs1)
  <2> SUFFICES ASSUME NEW c \in 1..Len(cs1), cs1[c].res = "Ok"
               PROVE  Whole(s, cs1[c].frames, c)
    BY DEF Landed
  <2>1. c \in 1..n /\ cs1[c] = cs[c]
    BY <1>2, <1>4
  <2> QED
    BY <1>1, <2>1 DEF Landed, n
<1>11. Doing(s, cs1, fs, e)
  <2>1. s = s \o <<>> /\ <<>> \o fs = fs /\ <<>> \in Seq(FrameSet)
    BY <1>1, <1>3
  <2>2. Free(s, n + 1)
    <3>1. n + 1 \notin 1..n
      BY <1>2
    <3> QED
      BY <1>6, <3>1 DEF Free
  <2>3. Halfway(s, fs, fs, n + 1, FirstTry(cs1, n + 1, e))
    BY <1>1, <2>1, <2>2 DEF Halfway
  <2> QED
    BY <1>2, <2>3 DEF Doing
<1> QED
  BY <1>1, <1>3, <1>5, <1>7, <1>8, <1>9, <1>10, <1>11 DEF Batch, cs1

\* What a change of the last call leaves alone.
LEMMA ChangedFacts ==
  ASSUME NEW s \in Seq(FrameSet), NEW cs, NEW cs1, NEW e, NEW r, NEW t, t # 0,
         CallsOK(cs), Placed(s, cs), Changed(cs, cs1, r, t)
  PROVE  /\ Len(cs1) = Len(cs) /\ Len(cs) \in Nat /\ Len(cs) \in 1..Len(cs)
         /\ CallsOK(cs1) /\ Placed(s, cs1)
         /\ \A c \in 1..Len(cs) : cs1[c].frames = cs[c].frames /\ (Sole(cs1, c, e) <=> Sole(cs, c, e))
<1> DEFINE n == Len(cs)
<1>1. n \in Nat /\ n \in 1..n /\ Len(cs1) = n /\ cs1 \in Seq(CallSet)
  BY DEF CallsOK, Changed
<1>2. ASSUME NEW c \in 1..n
      PROVE  cs1[c].frames = cs[c].frames /\ cs1[c].slice = cs[c].slice
  BY DEF Changed
<1>3. \A c \in 1..n : Sole(cs1, c, e) <=> Sole(cs, c, e)
  BY <1>2 DEF Sole
<1>4. CallsOK(cs1)
  <2> SUFFICES ASSUME NEW c \in 1..n
               PROVE  /\ cs1[c].frames # <<>> /\ cs1[c].tries # 0
                      /\ \A i \in 1..Len(cs1[c].frames) : cs1[c].frames[i].call = c
                      /\ c # n => cs1[c].res # "Busy"
    BY <1>1 DEF CallsOK
  <2>1. /\ cs[c].frames # <<>> /\ cs[c].tries # 0
        /\ \A i \in 1..Len(cs[c].frames) : cs[c].frames[i].call = c
        /\ c # n => cs[c].res # "Busy"
    BY DEF CallsOK
  <2>2. cs1[c].tries # 0 /\ (c # n => cs1[c].res # "Busy")
    BY <2>1 DEF Changed
  <2> QED
    BY <1>2, <2>1, <2>2
<1>5. Placed(s, cs1)
  BY <1>1, <1>2 DEF Placed
<1> QED
  BY <1>1, <1>2, <1>3, <1>4, <1>5

\* The last call turns to what is not trusted, or keeps what it is.
LEMMA KeptAsBefore ==
  ASSUME NEW s \in Seq(FrameSet), NEW cs, NEW cs1, NEW e, NEW r, NEW t, t # 0,
         CallsOK(cs), Placed(s, cs), Changed(cs, cs1, r, t), Kept(s, cs, e),
         Free(s, Len(cs)) \/ (Trusted(cs, Len(cs), e) <=> Trusted(cs1, Len(cs), e)),
         YieldOf(cs1, Len(cs), e) = YieldOf(cs, Len(cs), e)
  PROVE  Kept(s, cs1, e)
<1> DEFINE n == Len(cs)
           S == TrustedFrames(cs, e)
           S1 == TrustedFrames(cs1, e)
<1>1. n \in Nat /\ Len(cs1) = n /\ \A c \in 1..n : c # n => cs1[c] = cs[c]
  BY DEF CallsOK, Changed
<1>2. \A i \in 1..Len(s) : s[i] \in S <=> s[i] \in S1
  <2> SUFFICES ASSUME NEW i \in 1..Len(s)
               PROVE  Trusted(cs, s[i].call, e) <=> Trusted(cs1, s[i].call, e)
    BY DEF TrustedFrames
  <2>1. s[i].call \in 1..n
    BY DEF Placed
  <2>2. CASE s[i].call # n
    BY <1>1, <2>1, <2>2 DEF Trusted, Sole
  <2>3. CASE s[i].call = n
    BY <2>3 DEF Free
  <2> QED
    BY <2>2, <2>3
<1>3. Only(s, S) = Only(s, S1)
  <2> HIDE DEF S, S1
  <2> QED
    BY <1>2, OnlySame
<1>4. Yield(cs1, n, e) = Yield(cs, n, e)
  <2> SUFFICES ASSUME NEW c \in 1..n
               PROVE  YieldOf(cs1, c, e) = YieldOf(cs, c, e)
    BY DEF Yield
  <2>1. CASE c # n
    <3>1. cs1[c] = cs[c]
      BY <1>1, <2>1
    <3> QED
      BY <3>1 DEF YieldOf, Trusted, Sole
  <2>2. CASE c = n
    BY <2>2
  <2> QED
    BY <2>1, <2>2
<1> QED
  BY <1>1, <1>3, <1>4 DEF Kept

\* The running call returns.
LEMMA ReturnKeeps ==
  ASSUME NEW s, NEW cs, NEW cs1, NEW td, NEW e, NEW r \in {"Ok", "Err"},
         Batch(s, cs, td, e), LastBusy(cs), Changed(cs, cs1, r, cs[Len(cs)].tries),
         r = "Ok" => td = <<>>,
         r = "Err" /\ Sole(cs, Len(cs), e) => td # <<>>
  PROVE  Batch(s, cs1, <<>>, e)
<1> DEFINE n == Len(cs)
           fs == cs[n].frames
           t == cs[n].tries
           first == FirstTry(cs, n, e)
<1>1. s \in Seq(FrameSet) /\ CallsOK(cs) /\ td \in Seq(FrameSet)
      /\ Placed(s, cs) /\ Kept(s, cs, e) /\ RefusedGone(s, cs, e) /\ Landed(s, cs)
      /\ Halfway(s, fs, td, n, first)
  BY DEF Batch, Doing
<1>2. n \in 1..Len(cs) /\ cs[n].res = "Busy"
  BY <1>1 DEF CallsOK, LastBusy
<1>3. fs \in Seq(FrameSet) /\ t \in Nat /\ t # 0 /\ AllOf(fs, n)
  BY <1>1, <1>2, CallParts DEF AllOf
<1>4. /\ Len(cs1) = n /\ CallsOK(cs1) /\ Placed(s, cs1)
      /\ \A c \in 1..n : cs1[c].frames = cs[c].frames /\ (Sole(cs1, c, e) <=> Sole(cs, c, e))
  <2>1. Changed(cs, cs1, r, t) /\ t # 0
    BY <1>3
  <2> HIDE DEF t
  <2> QED
    BY <1>1, <2>1, ChangedFacts
<1>5. cs1[n].res = r /\ cs1[n].tries = t /\ \A c \in 1..n : c # n => cs1[c] = cs[c]
  BY DEF Changed
<1>6. PICK p \in Seq(FrameSet), d \in Seq(FrameSet) :
        s = p \o d /\ d \o td = fs /\ (first => Free(p, n))
  BY <1>1 DEF Halfway
<1>7. ASSUME r = "Ok" PROVE s = p \o fs
  <2>1. td = <<>>
    BY <1>7
  <2>2. d \o <<>> = d
    OBVIOUS
  <2> QED
    BY <1>6, <2>1, <2>2, Zenon
<1>8. ASSUME r = "Err", Sole(cs, n, e) PROVE Free(s, n)
  <2>1. Len(fs) = 1 /\ td # <<>>
    BY <1>8 DEF Sole
  <2>2. d = <<>>
    <3>1. Len(d \o td) = Len(d) + Len(td)
      BY <1>1
    <3>2. Len(d) + Len(td) = 1
      BY <1>6, <2>1, <3>1
    <3> QED
      BY <1>1, <2>1, <3>2
  <2>3. s = p
    BY <1>6, <2>2
  <2> QED
    BY <1>6, <1>8, <2>3 DEF FirstTry
<1>9. Kept(s, cs1, e)
  <2>1. CASE r = "Ok" /\ first
    <3> DEFINE S == TrustedFrames(cs, e)
               S1 == TrustedFrames(cs1, e)
               m == n - 1
    <3>1. Trusted(cs1, n, e) /\ ~Trusted(cs, n, e)
      BY <1>2, <1>4, <1>5, <2>1 DEF Trusted, FirstTry
    <3>2. /\ Only(s, S) = Only(p, S) \o Only(fs, S)
          /\ Only(s, S1) = Only(p, S1) \o Only(fs, S1)
      BY <1>3, <1>7, <2>1, OnlyConcat
    <3>3. \A i \in 1..Len(fs) : fs[i] \notin S /\ fs[i] \in S1
      <4>1. \A i \in 1..Len(fs) : fs[i] \in FrameSet
        BY <1>3
      <4> QED
        BY <1>3, <3>1, <4>1 DEF AllOf, TrustedFrames
    <3>4. \A i \in 1..Len(p) : p[i] \in S <=> p[i] \in S1
      <4> SUFFICES ASSUME NEW i \in 1..Len(p)
                   PROVE  Trusted(cs, p[i].call, e) <=> Trusted(cs1, p[i].call, e)
        BY DEF TrustedFrames
      <4>1. i \in 1..Len(s) /\ s[i] = p[i]
        BY <1>6
      <4>2. p[i].call \in 1..n /\ p[i].call # n
        BY <1>1, <1>6, <2>1, <4>1 DEF Placed, Free
      <4>3. cs1[p[i].call] = cs[p[i].call]
        BY <1>5, <4>2
      <4> QED
        BY <4>3 DEF Trusted, Sole
    <3>5. Only(fs, S) = <<>> /\ Only(fs, S1) = fs /\ Only(p, S) = Only(p, S1)
          /\ Only(p, S) \in Seq(FrameSet)
      <4>1. \A i \in 1..Len(fs) : fs[i] \notin S
        BY <3>3
      <4>2. \A i \in 1..Len(fs) : fs[i] \in S1
        BY <3>3
      <4>3. fs \in Seq(FrameSet)
        BY <1>3
      <4> HIDE DEF S, S1, fs
      <4>4. Only(fs, S) = <<>>
        BY <4>1, <4>3, OnlyKeeps
      <4>5. Only(fs, S1) = fs
        BY <4>2, <4>3, OnlyKeeps
      <4>6. Only(p, S) = Only(p, S1)
        BY <3>4, OnlySame
      <4>7. Only(p, S) \in Seq(FrameSet)
        BY OnlyType
      <4> QED
        BY <4>4, <4>5, <4>6, <4>7
    <3>6. m \in Nat /\ m + 1 = n /\ m + 1 <= Len(cs) /\ m + 1 <= Len(cs1) /\ m \in 0..Len(cs)
      BY <1>2, <1>4
    <3>7. Yield(cs1, m, e) = Yield(cs, m, e)
      <4>1. \A c \in 1..m : c \in 1..n /\ c # n
        BY <1>2
      <4> QED
        BY <1>5, <4>1, YieldSame
    <3>8. YieldOf(cs, n, e) = <<>> /\ YieldOf(cs1, n, e) = fs
      BY <1>2, <1>4, <1>5, <2>1, <3>1 DEF YieldOf
    <3> HIDE DEF m
    <3>9. /\ FlattenSeq(Yield(cs, m + 1, e))
              = FlattenSeq(Yield(cs, m, e)) \o YieldOf(cs, m + 1, e)
          /\ FlattenSeq(Yield(cs1, m + 1, e))
              = FlattenSeq(Yield(cs1, m, e)) \o YieldOf(cs1, m + 1, e)
      BY <1>1, <1>4, <3>6, YieldLast
    <3>10. FlattenSeq(Yield(cs, m, e)) \in Seq(FrameSet)
      <4>1. Yield(cs, m, e) \in Seq(Seq(FrameSet))
        BY <1>1, <3>6, YieldType
      <4> QED
        BY <4>1, FlattenType
    <3>11. FlattenSeq(Yield(cs, n, e)) = FlattenSeq(Yield(cs, m, e))
      <4>1. FlattenSeq(Yield(cs, m, e)) \o <<>> = FlattenSeq(Yield(cs, m, e))
        BY <3>10
      <4> QED
        BY <3>6, <3>8, <3>9, <4>1, Zenon
    <3>12. FlattenSeq(Yield(cs1, n, e)) = FlattenSeq(Yield(cs, m, e)) \o fs
      BY <3>6, <3>7, <3>8, <3>9, Zenon
    <3>13. Only(s, S) = Only(p, S)
      <4>1. Only(p, S) \o <<>> = Only(p, S)
        BY <3>5
      <4> QED
        BY <3>2, <3>5, <4>1, Zenon
    <3>14. Only(s, S) = FlattenSeq(Yield(cs, n, e))
      BY <1>1 DEF Kept
    <3>15. Only(s, S1) = FlattenSeq(Yield(cs1, n, e))
      BY <3>2, <3>5, <3>11, <3>12, <3>13, <3>14, Zenon
    <3> QED
      BY <1>4, <3>15 DEF Kept
  <2>2. CASE ~(r = "Ok" /\ first)
    <3>1. Free(s, n) \/ (Trusted(cs, n, e) <=> Trusted(cs1, n, e))
      <4>1. CASE r = "Ok"
        BY <1>2, <1>4, <1>5, <2>2, <4>1 DEF Trusted, FirstTry
      <4>2. CASE r = "Err" /\ Sole(cs, n, e)
        BY <1>8, <4>2
      <4>3. CASE r = "Err" /\ ~Sole(cs, n, e)
        BY <1>2, <1>4, <1>5, <4>3 DEF Trusted
      <4> QED
        BY <4>1, <4>2, <4>3
    <3>2. YieldOf(cs, n, e) = <<>> /\ YieldOf(cs1, n, e) = <<>>
      <4>1. CASE r = "Ok"
        BY <1>2, <1>4, <1>5, <2>2, <4>1 DEF YieldOf, Trusted, FirstTry
      <4>2. CASE r = "Err"
        BY <1>2, <1>5, <4>2 DEF YieldOf
      <4> QED
        BY <4>1, <4>2
    <3>3. Changed(cs, cs1, r, t) /\ t # 0
      BY <1>3
    <3> QED
      BY <1>1, <3>1, <3>2, <3>3, KeptAsBefore
  <2> QED
    BY <2>1, <2>2
<1>10. RefusedGone(s, cs1, e)
  <2> SUFFICES ASSUME NEW c \in 1..n, cs1[c].res = "Err", Sole(cs1, c, e)
               PROVE  Free(s, c)
    BY <1>4 DEF RefusedGone
  <2>1. CASE c = n
    BY <1>4, <1>5, <1>8, <2>1
  <2>2. CASE c # n
    BY <1>1, <1>4, <1>5, <2>2 DEF RefusedGone
  <2> QED
    BY <2>1, <2>2
<1>11. Landed(s, cs1)
  <2> SUFFICES ASSUME NEW c \in 1..n, cs1[c].res = "Ok"
               PROVE  Whole(s, cs1[c].frames, c)
    BY <1>4 DEF Landed
  <2>1. CASE c = n
    <3>1. s = p \o fs
      BY <1>5, <1>7, <2>1
    <3>2. s = (p \o fs) \o <<>> /\ <<>> \in Seq(FrameSet)
      BY <1>1, <3>1
    <3>3. Free(<<>>, c)
      BY DEF Free
    <3>4. Whole(s, fs, c)
      BY <3>2, <3>3, Zenon DEF Whole
    <3> QED
      BY <1>4, <2>1, <3>4
  <2>2. CASE c # n
    BY <1>1, <1>5, <2>2 DEF Landed
  <2> QED
    BY <2>1, <2>2
<1>12. Doing(s, cs1, <<>>, e)
  BY <1>4, <1>5 DEF Doing, LastBusy
<1>13. <<>> \in Seq(FrameSet)
  OBVIOUS
<1> QED
  BY <1>1, <1>4, <1>9, <1>10, <1>11, <1>12, <1>13 DEF Batch

\* The call that failed is made again.
LEMMA RetryKeeps ==
  ASSUME NEW s, NEW cs, NEW cs1, NEW td, NEW e, Batch(s, cs, td, e), cs # <<>>,
         cs[Len(cs)].res = "Err", Changed(cs, cs1, "Busy", cs[Len(cs)].tries + 1)
  PROVE  Batch(s, cs1, cs[Len(cs)].frames, e)
<1> DEFINE n == Len(cs)
           fs == cs[n].frames
           t == cs[n].tries + 1
<1>1. s \in Seq(FrameSet) /\ CallsOK(cs)
      /\ Placed(s, cs) /\ Kept(s, cs, e) /\ RefusedGone(s, cs, e) /\ Landed(s, cs)
  BY DEF Batch
<1>2. n \in 1..Len(cs) /\ cs[n].res = "Err"
  BY <1>1 DEF CallsOK
<1>3. fs \in Seq(FrameSet) /\ t \in Nat /\ t # 0 /\ t # 1
  BY <1>1, <1>2, CallParts
<1>4. /\ Len(cs1) = n /\ CallsOK(cs1) /\ Placed(s, cs1)
      /\ \A c \in 1..n : cs1[c].frames = cs[c].frames /\ (Sole(cs1, c, e) <=> Sole(cs, c, e))
  BY <1>1, <1>3, ChangedFacts
<1>5. cs1[n].res = "Busy" /\ cs1[n].tries = t /\ \A c \in 1..n : c # n => cs1[c] = cs[c]
  BY DEF Changed
<1>6. Sole(cs, n, e) => Free(s, n)
  BY <1>1, <1>2 DEF RefusedGone
<1>7. Kept(s, cs1, e)
  <2>1. Free(s, n) \/ (Trusted(cs, n, e) <=> Trusted(cs1, n, e))
    BY <1>2, <1>5, <1>6 DEF Trusted
  <2>2. YieldOf(cs, n, e) = <<>> /\ YieldOf(cs1, n, e) = <<>>
    BY <1>2, <1>5 DEF YieldOf
  <2>3. Changed(cs, cs1, "Busy", t) /\ t # 0
    BY <1>3
  <2> QED
    BY <1>1, <2>1, <2>2, <2>3, KeptAsBefore
<1>8. RefusedGone(s, cs1, e)
  <2> SUFFICES ASSUME NEW c \in 1..n, cs1[c].res = "Err", Sole(cs1, c, e)
               PROVE  Free(s, c)
    BY <1>4 DEF RefusedGone
  <2>1. c # n
    BY <1>5
  <2> QED
    BY <1>1, <1>4, <1>5, <2>1 DEF RefusedGone
<1>9. Landed(s, cs1)
  <2> SUFFICES ASSUME NEW c \in 1..n, cs1[c].res = "Ok"
               PROVE  Whole(s, cs1[c].frames, c)
    BY <1>4 DEF Landed
  <2>1. c # n
    BY <1>5
  <2> QED
    BY <1>1, <1>5, <2>1 DEF Landed
<1>10. Doing(s, cs1, fs, e)
  <2>1. s = s \o <<>> /\ <<>> \o fs = fs /\ <<>> \in Seq(FrameSet)
    BY <1>1, <1>3
  <2>2. FirstTry(cs1, n, e) => Free(s, n)
    BY <1>2, <1>3, <1>4, <1>5, <1>6 DEF FirstTry
  <2>3. Halfway(s, fs, fs, n, FirstTry(cs1, n, e))
    <3> HIDE DEF fs, n
    <3> QED
      BY <1>1, <2>1, <2>2 DEF Halfway
  <2> QED
    BY <1>2, <1>4, <2>3 DEF Doing
<1> QED
  BY <1>1, <1>3, <1>4, <1>7, <1>8, <1>9, <1>10 DEF Batch
-----------------------------------------------------------------------------
(* The frames of one call.                                                 *)

KindSet == {"touch", "keyboard", "android_key", "mouse", "scroll", "gamepad", "packed"}
KeyKinds == {"keyboard", "android_key"}

\* Every press has its release later on, and a keyboard's last frame no
\* modifiers.
LetsGo(k, fs) ==
  /\ k = "keyboard" => ~fs[Len(fs)].mods
  /\ \A i \in 1..Len(fs) : fs[i].act = "press" =>
       \E j \in (i + 1)..Len(fs) : fs[j].act = "release" /\ fs[j].key = fs[i].key

CallFrames(fs, c) == fs \in Seq(FrameSet) /\ fs # <<>> /\ AllOf(fs, c)

LEMMA PlainFrames ==
  ASSUME NEW c \in Nat, NEW n \in Nat \ {0}
  PROVE  CallFrames(Plain(c, n), c)
<1> DEFINE fs == Plain(c, n)
<1>1. \A i \in 1..n : fs[i] = Frame(c, i, "data", "none", FALSE)
  BY DEF Plain
<1>2. ASSUME NEW i \in 1..n
      PROVE  fs[i] \in FrameSet /\ fs[i].call = c
  <2> DEFINE f == Frame(c, i, "data", "none", FALSE)
  <2>1. f \in FrameSet /\ f.call = c
    BY DEF Frame, FrameSet, KeyNames
  <2> HIDE DEF f
  <2>2. fs[i] = f
    BY <1>1 DEF f
  <2> QED
    BY <2>1, <2>2
<1>3. fs \in [1..n -> FrameSet]
  BY <1>2 DEF Plain
<1> HIDE DEF fs
<1>4. fs \in Seq(FrameSet) /\ Len(fs) = n
  BY <1>3
<1>5. CallFrames(fs, c)
  BY <1>2, <1>4 DEF CallFrames, AllOf
<1> QED
  BY <1>5 DEF fs

LEMMA TapFrames ==
  ASSUME NEW c \in Nat, NEW k \in KeyNames, NEW m \in BOOLEAN
  PROVE  CallFrames(Tap(c, k, m), c) /\ LetsGo("keyboard", Tap(c, k, m))
<1> DEFINE fs == Tap(c, k, m)
           f == Frame(c, 1, "press", k, m)
           g == Frame(c, 2, "release", k, FALSE)
<1>1. f \in FrameSet /\ f.call = c /\ f.act = "press" /\ f.key = k
  BY DEF Frame, FrameSet, KeyNames
<1>2. g \in FrameSet /\ g.call = c /\ g.act = "release" /\ g.key = k /\ g.mods = FALSE
  BY DEF Frame, FrameSet, KeyNames
<1>3. fs = <<f, g>>
  BY DEF Tap
<1> HIDE DEF f, g, fs
<1>4. fs \in Seq(FrameSet) /\ Len(fs) = 2 /\ fs[1] = f /\ fs[2] = g
  BY <1>1, <1>2, <1>3
<1>5. \A i \in 1..Len(fs) : i = 1 \/ i = 2
  BY <1>4
<1>6. CallFrames(fs, c)
  <2>1. fs # <<>>
    BY <1>4
  <2>2. AllOf(fs, c)
    BY <1>1, <1>2, <1>4, <1>5, Zenon DEF AllOf
  <2> QED
    BY <1>4, <2>1, <2>2 DEF CallFrames
<1>7. LetsGo("keyboard", fs)
  <2>1. 2 \in (1 + 1)..Len(fs)
    BY <1>4
  <2> QED
    BY <1>1, <1>2, <1>4, <1>5, <2>1 DEF LetsGo
<1> QED
  BY <1>6, <1>7 DEF fs

LEMMA AndroidTapFrames ==
  ASSUME NEW c \in Nat, NEW k \in KeyNames, NEW m \in BOOLEAN
  PROVE  CallFrames(AndroidTap(c, k, m), c) /\ LetsGo("android_key", AndroidTap(c, k, m))
<1> DEFINE fs == AndroidTap(c, k, m)
           f == Frame(c, 1, "press", k, m)
           g == Frame(c, 2, "release", k, m)
<1>1. f \in FrameSet /\ f.call = c /\ f.act = "press" /\ f.key = k
  BY DEF Frame, FrameSet, KeyNames
<1>2. g \in FrameSet /\ g.call = c /\ g.act = "release" /\ g.key = k
  BY DEF Frame, FrameSet, KeyNames
<1>3. fs = <<f, g>>
  BY DEF AndroidTap
<1> HIDE DEF f, g, fs
<1>4. fs \in Seq(FrameSet) /\ Len(fs) = 2 /\ fs[1] = f /\ fs[2] = g
  BY <1>1, <1>2, <1>3
<1>5. \A i \in 1..Len(fs) : i = 1 \/ i = 2
  BY <1>4
<1>6. CallFrames(fs, c)
  <2>1. fs # <<>>
    BY <1>4
  <2>2. AllOf(fs, c)
    BY <1>1, <1>2, <1>4, <1>5, Zenon DEF AllOf
  <2> QED
    BY <1>4, <2>1, <2>2 DEF CallFrames
<1>7. LetsGo("android_key", fs)
  <2>1. 2 \in (1 + 1)..Len(fs)
    BY <1>4
  <2> QED
    BY <1>1, <1>2, <1>4, <1>5, <2>1 DEF LetsGo
<1> QED
  BY <1>6, <1>7 DEF fs

\* A chord: the release of key i of n is the frame 2n + 1 - i.
LEMMA ChordFrames ==
  ASSUME NEW c \in Nat, NEW ks \in Seq(KeyNames), ks # <<>>
  PROVE  CallFrames(edge_frames(c, ks), c) /\ LetsGo("keyboard", edge_frames(c, ks))
<1> DEFINE n == Len(ks)
           fs == edge_frames(c, ks)
<1>1. n \in Nat \ {0} /\ \A i \in 1..n : ks[i] \in KeyNames
  OBVIOUS
<1>2. /\ \A i \in 1..n : fs[i] = Frame(c, i, "press", ks[i], TRUE)
      /\ \A i \in (n + 1)..(2 * n) :
           fs[i] = Frame(c, i, "release", ks[2 * n + 1 - i], i < 2 * n)
  <2> DEFINE m == 2 * n
  <2>1. \A i \in 1..n : i \in 1..m /\ i <= n
    BY <1>1
  <2>2. \A i \in (n + 1)..m : i \in 1..m /\ ~(i <= n)
    BY <1>1
  <2>3. fs = [i \in 1..m |-> IF i <= n THEN Frame(c, i, "press", ks[i], TRUE)
                            ELSE Frame(c, i, "release", ks[m + 1 - i], i < m)]
    BY DEF edge_frames
  <2> HIDE DEF m, n, fs
  <2>4. /\ \A i \in 1..n : fs[i] = Frame(c, i, "press", ks[i], TRUE)
        /\ \A i \in (n + 1)..m : fs[i] = Frame(c, i, "release", ks[m + 1 - i], i < m)
    BY <2>1, <2>2, <2>3, Zenon
  <2> QED
    BY <2>4 DEF m, n
<1>3. ASSUME NEW i \in 1..n
      PROVE  /\ fs[i] \in FrameSet /\ fs[i].call = c /\ fs[i].act = "press"
             /\ fs[i].key = ks[i]
  <2> DEFINE k == ks[i]
             f == Frame(c, i, "press", k, TRUE)
  <2>1. k \in KeyNames /\ i \in Nat
    BY <1>1
  <2> HIDE DEF k
  <2>2. f \in FrameSet /\ f.call = c /\ f.act = "press" /\ f.key = k
    BY <2>1 DEF Frame, FrameSet, KeyNames
  <2> HIDE DEF f
  <2>3. fs[i] = f
    BY <1>2 DEF f, k
  <2> QED
    BY <2>2, <2>3 DEF k
<1>4. ASSUME NEW i \in (n + 1)..(2 * n)
      PROVE  /\ fs[i] \in FrameSet /\ fs[i].call = c /\ fs[i].act = "release"
             /\ fs[i].key = ks[2 * n + 1 - i] /\ fs[i].mods = (i < 2 * n)
  <2> DEFINE j == 2 * n + 1 - i
             m == i < 2 * n
  <2>1. j \in 1..n /\ i \in Nat /\ m \in BOOLEAN
    BY <1>1
  <2>2. ks[j] \in KeyNames
    BY <1>1, <2>1
  <2>3. fs[i] = Frame(c, i, "release", ks[j], m)
    BY <1>2
  <2> HIDE DEF j, m, fs
  <2>4. /\ fs[i] \in FrameSet /\ fs[i].call = c /\ fs[i].act = "release"
        /\ fs[i].key = ks[j] /\ fs[i].mods = m
    BY <2>1, <2>2, <2>3 DEF Frame, FrameSet
  <2> QED
    BY <2>4 DEF j, m
<1>5. \A i \in 1..(2 * n) : i \in 1..n \/ i \in (n + 1)..(2 * n)
  BY <1>1
<1>6. fs \in [1..(2 * n) -> FrameSet]
  BY <1>3, <1>4, <1>5 DEF edge_frames
<1> HIDE DEF fs
<1>7. fs \in Seq(FrameSet) /\ Len(fs) = 2 * n
  BY <1>1, <1>6
<1>8. CallFrames(fs, c)
  <2>1. fs # <<>>
    BY <1>1, <1>7
  <2> QED
    BY <1>3, <1>4, <1>5, <1>7, <2>1 DEF CallFrames, AllOf
<1>9. ~fs[Len(fs)].mods
  <2>1. 2 * n \in (n + 1)..(2 * n) /\ ~(2 * n < 2 * n)
    BY <1>1
  <2> QED
    BY <1>4, <1>7, <2>1
<1>10. ASSUME NEW i \in 1..Len(fs), fs[i].act = "press"
       PROVE  \E j \in (i + 1)..Len(fs) : fs[j].act = "release" /\ fs[j].key = fs[i].key
  <2>1. i \in 1..n
    BY <1>4, <1>5, <1>7, <1>10
  <2> DEFINE j == 2 * n + 1 - i
  <2>2. j \in (i + 1)..Len(fs) /\ j \in (n + 1)..(2 * n) /\ 2 * n + 1 - j = i
    BY <1>1, <1>7, <2>1
  <2>3. fs[j].act = "release" /\ fs[j].key = ks[2 * n + 1 - j]
    BY <1>4, <2>2
  <2> QED
    BY <1>3, <2>1, <2>2, <2>3
<1>11. LetsGo("keyboard", fs)
  BY <1>9, <1>10 DEF LetsGo
<1> QED
  BY <1>8, <1>11 DEF fs

\* Whatever a call of any kind of batcher hands over.
LEMMA AnyFrames ==
  ASSUME NEW k \in KindSet, NEW c \in Nat, NEW fs \in Frames(k, c)
  PROVE  CallFrames(fs, c) /\ (k \in KeyKinds => LetsGo(k, fs))
<1>0. 1 \in Nat \ {0} /\ 3 \in Nat \ {0}
  OBVIOUS
<1>1. CASE k = "touch"
  BY <1>0, <1>1, PlainFrames DEF Frames, TouchCalls, KeyKinds
<1>2. CASE k = "mouse"
  BY <1>0, <1>2, PlainFrames DEF Frames, MouseCalls, KeyKinds
<1>3. CASE k = "scroll"
  BY <1>0, <1>3, PlainFrames DEF Frames, ScrollCalls, KeyKinds
<1>4. CASE k = "gamepad"
  BY <1>0, <1>4, PlainFrames DEF Frames, GamepadCalls, KeyKinds
<1>5. CASE k = "packed"
  BY <1>0, <1>5, PlainFrames DEF Frames, PackedCalls, KeyKinds
<1>6. CASE k = "android_key"
  <2>1. PICK m \in BOOLEAN : fs = AndroidTap(c, "home", m)
    BY <1>6 DEF Frames, AndroidKeyCalls
  <2> QED
    BY <1>6, <2>1, AndroidTapFrames DEF KeyNames
<1>7. CASE k = "keyboard"
  <2>1. fs \in KeyboardCalls(c)
    BY <1>7 DEF Frames
  <2>2. CASE fs = Tap(c, "a", TRUE)
    BY <1>7, <2>2, TapFrames DEF KeyNames
  <2>3. CASE \E ks \in Chords : fs = edge_frames(c, ks)
    <3>1. PICK ks \in Chords : fs = edge_frames(c, ks)
      BY <2>3
    <3>2. ks \in Seq(KeyNames) /\ ks # <<>>
      <4>1. /\ <<"a">> \in Seq(KeyNames) /\ <<"a", "b">> \in Seq(KeyNames)
            /\ <<"b", "a", "c">> \in Seq(KeyNames) /\ <<"shift">> \in Seq(KeyNames)
        BY DEF KeyNames
      <4>2. <<"a">> # <<>> /\ <<"a", "b">> # <<>> /\ <<"b", "a", "c">> # <<>> /\ <<"shift">> # <<>>
        OBVIOUS
      <4>3. \/ ks = <<"a">> \/ ks = <<"a", "b">> \/ ks = <<"b", "a", "c">>
            \/ ks = <<"shift">>
        BY Zenon DEF Chords
      <4> QED
        BY <4>1, <4>2, <4>3, Zenon
    <3> QED
      BY <1>7, <3>1, <3>2, ChordFrames
  <2> QED
    BY <2>1, <2>2, <2>3 DEF KeyboardCalls
<1> QED
  BY <1>1, <1>2, <1>3, <1>4, <1>5, <1>6, <1>7 DEF KindSet

-----------------------------------------------------------------------------
(* The stream of frames as the state makes it up, when nothing is in the   *)
(* ring.                                                                   *)

StreamOf(d, ch, b) == (d \o FlattenSeq(ch)) \o b

LEMMA FrameAssoc ==
  \A u, v, w \in Seq(FrameSet) : (u \o v) \o w = u \o (v \o w) /\ u \o v \in Seq(FrameSet)
  BY ConcatAssoc

LEMMA StreamOfStore ==
  ASSUME NEW d \in Seq(FrameSet), NEW ch \in Seq(Seq(FrameSet)), NEW b \in Seq(FrameSet),
         NEW x \in Seq(FrameSet)
  PROVE  StreamOf(d, ch, b) \in Seq(FrameSet) /\ StreamOf(d, ch, b \o x) = StreamOf(d, ch, b) \o x
<1> DEFINE f == FlattenSeq(ch)
           g == d \o f
<1>1. f \in Seq(FrameSet)
  BY FlattenType
<1> HIDE DEF f
<1>2. g \in Seq(FrameSet)
  BY <1>1
<1> HIDE DEF g
<1>3. g \o b \in Seq(FrameSet) /\ (g \o b) \o x = g \o (b \o x)
  <2>1. Assoc(g, b, x)
    BY <1>2, ConcatAssocAll
  <2>2. g \o b \in Seq(FrameSet)
    BY <1>2
  <2> QED
    BY <2>1, <2>2, Zenon DEF Assoc
<1> QED
  BY <1>3 DEF StreamOf, f, g

LEMMA StreamOfSend ==
  ASSUME NEW d \in Seq(FrameSet), NEW ch \in Seq(Seq(FrameSet)), NEW b \in Seq(FrameSet)
  PROVE  StreamOf(d, Append(ch, b), <<>>) = StreamOf(d, ch, b)
<1> DEFINE f == FlattenSeq(ch)
           h == FlattenSeq(Append(ch, b))
           g == (d \o f) \o b
<1>1. f \in Seq(FrameSet) /\ h = f \o b
  BY FlattenType, FlattenAppend
<1> HIDE DEF f, h
<1>2. g \in Seq(FrameSet) /\ g = d \o (f \o b)
  <2>1. g = d \o (f \o b) /\ f \o b \in Seq(FrameSet)
    BY <1>1
  <2> QED
    BY <2>1
<1>3. g \o <<>> = g
  BY <1>2
<1>4. (d \o h) \o <<>> = g
  BY <1>1, <1>2, <1>3, Zenon
<1> QED
  BY <1>4 DEF StreamOf, f, g, h

LEMMA StreamOfDispatch ==
  ASSUME NEW d \in Seq(FrameSet), NEW ch \in Seq(Seq(FrameSet)), NEW b \in Seq(FrameSet),
         ch # <<>>
  PROVE  /\ StreamOf(d \o Head(ch), Tail(ch), b) = StreamOf(d, ch, b)
         /\ d \o Head(ch) \in Seq(FrameSet) /\ Tail(ch) \in Seq(Seq(FrameSet))
<1> DEFINE F == Seq(FrameSet)
           x == Head(ch)
           t == Tail(ch)
           f == FlattenSeq(t)
           h == FlattenSeq(ch)
<1>1. x \in F /\ t \in Seq(F)
  <2>1. ch \in Seq(F)
    OBVIOUS
  <2> HIDE DEF F
  <2> QED
    BY <2>1
<1>2. f \in F /\ h = x \o f
  BY <1>1, FlattenType, FlattenHead
<1> HIDE DEF f, h, x, t
<1>3. (d \o x) \o f = d \o (x \o f) /\ d \o x \in F
  <2>1. x \in Seq(FrameSet) /\ f \in Seq(FrameSet)
    BY <1>1, <1>2
  <2> QED
    BY <2>1, FrameAssoc, Zenon
<1>4. ((d \o x) \o f) \o b = (d \o h) \o b
  BY <1>2, <1>3, Zenon
<1> QED
  BY <1>1, <1>3, <1>4, Zenon DEF StreamOf, f, h, x, t

LEMMA StreamIs ==
  ASSUME NEW d \in Seq(FrameSet), NEW ch \in Seq(Seq(FrameSet)), NEW b
  PROVE  d \o FlattenSeq(ch) \o <<>> \o b = StreamOf(d, ch, b)
<1> DEFINE f == FlattenSeq(ch)
           g == d \o f
<1>1. f \in Seq(FrameSet)
  BY FlattenType
<1> HIDE DEF f
<1>2. g \in Seq(FrameSet)
  BY <1>1
<1> HIDE DEF g
<1>3. g \o <<>> = g
  BY <1>2
<1>4. (g \o <<>>) \o b = g \o b
  BY <1>3, Zenon
<1> QED
  BY <1>4 DEF StreamOf, f, g

-----------------------------------------------------------------------------
(* The calls as the actions change them.                                   *)

LEMMA SetResult ==
  ASSUME NEW cs \in Seq(CallSet), cs # <<>>, NEW r \in {"Busy", "Ok", "Err"}
  PROVE  Changed(cs, [cs EXCEPT ![Len(cs)].res = r], r, cs[Len(cs)].tries)
<1> DEFINE n == Len(cs)
           k == cs[n]
           k1 == [k EXCEPT !.res = r]
           cs1 == [cs EXCEPT ![n] = k1]
<1>1. n \in 1..Len(cs) /\ k \in CallSet
  OBVIOUS
<1> HIDE DEF k
<1>2. /\ k1 \in CallSet /\ k1.frames = k.frames /\ k1.slice = k.slice /\ k1.res = r
      /\ k1.tries = k.tries
  <2> DEFINE F == Seq(FrameSet)
  <2>1. k \in [frames : F, slice : BOOLEAN, res : {"Busy", "Ok", "Err"}, tries : Nat]
    BY <1>1 DEF CallSet
  <2> HIDE DEF F
  <2>2. /\ k1 \in [frames : F, slice : BOOLEAN, res : {"Busy", "Ok", "Err"}, tries : Nat]
        /\ k1.frames = k.frames /\ k1.slice = k.slice /\ k1.res = r /\ k1.tries = k.tries
    BY <2>1
  <2> QED
    BY <2>2 DEF CallSet, F
<1> HIDE DEF k1
<1>3. /\ cs1 \in Seq(CallSet) /\ Len(cs1) = n /\ cs1[n] = k1
      /\ \A c \in 1..n : c # n => cs1[c] = cs[c]
  BY <1>1, <1>2
<1>4. Changed(cs, cs1, r, k.tries)
  BY <1>2, <1>3 DEF Changed, k
<1> QED
  BY <1>4 DEF k1, k

LEMMA SetBusyAgain ==
  ASSUME NEW cs \in Seq(CallSet), cs # <<>>
  PROVE  Changed(cs, [cs EXCEPT ![Len(cs)].res = "Busy", ![Len(cs)].tries = @ + 1],
                 "Busy", cs[Len(cs)].tries + 1)
<1> DEFINE n == Len(cs)
           k == cs[n]
           k1 == [k EXCEPT !.res = "Busy", !.tries = @ + 1]
           cs1 == [cs EXCEPT ![n] = k1]
           cs2 == [cs EXCEPT ![n].res = "Busy", ![n].tries = @ + 1]
<1>1. n \in 1..Len(cs) /\ k \in CallSet
  OBVIOUS
<1>0. cs2 = cs1
  BY <1>1
<1> HIDE DEF k
<1>2. /\ k1 \in CallSet /\ k1.frames = k.frames /\ k1.slice = k.slice /\ k1.res = "Busy"
      /\ k1.tries = k.tries + 1
  <2> DEFINE F == Seq(FrameSet)
  <2>1. k \in [frames : F, slice : BOOLEAN, res : {"Busy", "Ok", "Err"}, tries : Nat]
    BY <1>1 DEF CallSet
  <2> HIDE DEF F
  <2>2. /\ k1 \in [frames : F, slice : BOOLEAN, res : {"Busy", "Ok", "Err"}, tries : Nat]
        /\ k1.frames = k.frames /\ k1.slice = k.slice /\ k1.res = "Busy" /\ k1.tries = k.tries + 1
    <3> DEFINE R == [frames : F, slice : BOOLEAN, res : {"Busy", "Ok", "Err"}, tries : Nat]
               k0 == [k EXCEPT !.res = "Busy"]
               t == k.tries + 1
    <3>1. k0 \in R /\ k0.frames = k.frames /\ k0.slice = k.slice /\ k0.res = "Busy" /\ t \in Nat
      BY <2>1
    <3>2. k1 = [k0 EXCEPT !.tries = t]
      OBVIOUS
    <3> HIDE DEF k0, t, k1
    <3>3. k1 \in R /\ k1.frames = k.frames /\ k1.slice = k.slice /\ k1.res = "Busy" /\ k1.tries = t
      BY <3>1, <3>2
    <3> QED
      BY <3>3 DEF t
  <2> QED
    BY <2>2 DEF CallSet, F
<1> HIDE DEF k1
<1>3. /\ cs1 \in Seq(CallSet) /\ Len(cs1) = n /\ cs1[n] = k1
      /\ \A c \in 1..n : c # n => cs1[c] = cs[c]
  BY <1>1, <1>2
<1>4. Changed(cs, cs1, "Busy", k.tries + 1)
  BY <1>2, <1>3 DEF Changed, k
<1> QED
  BY <1>0, <1>4 DEF k

-----------------------------------------------------------------------------
(* The inductive invariant.  It says nothing once the dispatcher has ended *)
(* or the batcher is gone, and neither comes back; while they live, the    *)
(* client has no ring.                                                     *)

Parts ==
  /\ kind \in KindSet /\ size \in Nat /\ slice \in BOOLEAN
  /\ ~fast /\ ring = <<>>
  /\ buf \in Seq(FrameSet) /\ chan \in Seq(Seq(FrameSet)) /\ delivered \in Seq(FrameSet)

Progress ==
  /\ pc \in {"idle", "loop", "flush"}
  /\ pc = "idle" => ~LastBusy(calls) /\ todo = <<>>
  /\ (pc = "loop" \/ todo # <<>>) => LastBusy(calls)
  /\ LastBusy(calls) => slice = calls[Len(calls)].slice
  /\ (LastBusy(calls) /\ Sole(calls, Len(calls), Eager)) => pc = "loop"

AllLetGo(k, cs) == k \in KeyKinds => \A c \in 1..Len(cs) : LetsGo(k, cs[c].frames)
KeysLetGo == AllLetGo(kind, calls)

Batching == Batch(Stream, calls, todo, Eager)

Serving == alive /\ pc # "dropped"
Body == Parts /\ Progress /\ Batching /\ KeysLetGo
BatcherInv == Serving => Body

LEMMA BatchParts ==
  ASSUME NEW s, NEW cs, NEW td, NEW e, Batch(s, cs, td, e)
  PROVE  /\ s \in Seq(FrameSet) /\ td \in Seq(FrameSet) /\ CallsOK(cs) /\ cs \in Seq(CallSet)
         /\ Len(cs) \in Nat /\ (LastBusy(cs) => Len(cs) \in 1..Len(cs))
  BY DEF Batch, CallsOK, LastBusy

\* A batcher between calls may have anything as the rest of its call.
LEMMA IdleBatch ==
  ASSUME NEW s, NEW cs, NEW td, NEW e, NEW td1 \in Seq(FrameSet),
         Batch(s, cs, td, e), ~LastBusy(cs)
  PROVE  Batch(s, cs, td1, e)
  BY DEF Batch, Doing

LEMMA StreamNow ==
  ASSUME Parts
  PROVE  Stream = StreamOf(delivered, chan, buf)
<1>1. delivered \o FlattenSeq(chan) \o <<>> \o buf = StreamOf(delivered, chan, buf)
  BY StreamIs DEF Parts
<1> QED
  BY <1>1 DEF Parts, Stream

LEMMA StreamThen ==
  ASSUME Parts'
  PROVE  Stream' = StreamOf(delivered', chan', buf')
<1>1. delivered' \o FlattenSeq(chan') \o <<>> \o buf' = StreamOf(delivered', chan', buf')
  BY StreamIs DEF Parts
<1> QED
  BY <1>1 DEF Parts, Stream

LEMMA StreamSame ==
  ASSUME Parts, Parts', UNCHANGED <<delivered, chan, buf>>
  PROVE  Stream' = Stream
  BY StreamNow, StreamThen

LEMMA InitBody ==
  ASSUME BatcherInit, alive
  PROVE  Body
<1> DEFINE e == Eager
<1>1. Parts
  <2>1. kind \in KindSet
    BY BatcherAssumption DEF BatcherInit, KindSet
  <2>2. size \in Nat
    BY BatcherAssumption DEF BatcherInit, TouchFrameBatcher, KeyboardFrameBatcher, AndroidKeyFrameBatcher,
           MouseFrameBatcher, ScrollFrameBatcher, GamepadFrameBatcher,
           PackedGamepadFrameBatcher, Sized, Batcher
  <2>3. /\ slice \in BOOLEAN /\ ~fast /\ ring = <<>> /\ buf = <<>> /\ chan = <<>>
        /\ delivered = <<>>
    BY DEF BatcherInit
  <2>4. buf \in Seq(FrameSet) /\ delivered \in Seq(FrameSet)
    BY <2>3
  <2>5. chan \in Seq(Seq(FrameSet))
    <3> DEFINE F == Seq(FrameSet)
    <3>1. <<>> \in Seq(F)
      <4> HIDE DEF F
      <4> QED
        OBVIOUS
    <3> QED
      BY <2>3, <3>1
  <2> QED
    BY <2>1, <2>2, <2>3, <2>4, <2>5 DEF Parts
<1>2. pc = "idle" /\ todo = <<>> /\ calls = <<>> /\ buf = <<>> /\ chan = <<>> /\ delivered = <<>>
  BY DEF BatcherInit
<1>3. Progress
  BY <1>2 DEF Progress, LastBusy
<1>4. Len(calls) = 0 /\ calls \in Seq(CallSet) /\ 1..Len(calls) = {}
  BY <1>2
<1>5. KeysLetGo
  BY <1>4 DEF KeysLetGo, AllLetGo
<1>6. Stream = <<>>
  <2>1. Stream = ((<<>> \o FlattenSeq(<<>>)) \o <<>>)
    BY <1>1, <1>2, StreamNow DEF StreamOf
  <2> QED
    BY <2>1, FlattenEmpty
<1>7. Kept(<<>>, calls, e)
  <2> DEFINE y == Yield(calls, Len(calls), e)
  <2>1. CallsOK(calls)
    BY <1>4 DEF CallsOK
  <2>2. Len(calls) \in 0..Len(calls)
    BY <1>4
  <2>3. y \in Seq(Seq(FrameSet)) /\ Len(y) = 0
    BY <1>4, <2>1, <2>2, YieldType
  <2>4. y = <<>>
    <3> DEFINE F == Seq(FrameSet)
    <3>1. y \in Seq(F)
      BY <2>3
    <3> HIDE DEF F, y
    <3> QED
      BY <2>3, <3>1
  <2>5. FlattenSeq(y) = <<>>
    BY <2>4, FlattenEmpty, Zenon
  <2> QED
    BY <2>5, OnlyEmpty DEF Kept
<1>8. Batch(<<>>, calls, todo, e)
  <2>1. <<>> \in Seq(FrameSet) /\ Len(<<>>) = 0 /\ 1..Len(<<>>) = {}
    OBVIOUS
  <2>2. CallsOK(calls) /\ Placed(<<>>, calls) /\ RefusedGone(<<>>, calls, e) /\ Landed(<<>>, calls)
    BY <1>4, <2>1 DEF CallsOK, Placed, RefusedGone, Landed
  <2>3. Doing(<<>>, calls, todo, e)
    BY <1>2 DEF Doing, LastBusy
  <2> QED
    BY <1>2, <1>7, <2>1, <2>2, <2>3 DEF Batch
<1> QED
  BY <1>1, <1>3, <1>5, <1>6, <1>8 DEF Body, Batching

\* What the end of a call leaves.
LEMMA ReturnBody ==
  ASSUME Body, NEW r \in {"Ok", "Err"}, Return(r),
         r = "Ok" => todo = <<>>,
         (r = "Err" /\ LastBusy(calls) /\ Sole(calls, Len(calls), Eager)) => todo # <<>>
  PROVE  /\ Batch(Stream, calls', <<>>, Eager) /\ ~LastBusy(calls')
         /\ AllLetGo(kind, calls')
<1> DEFINE s == Stream
           e == Eager
           n == Len(calls)
<1>1. Batch(s, calls, todo, e) /\ AllLetGo(kind, calls)
  BY DEF Body, Batching, KeysLetGo
<1>2. calls \in Seq(CallSet) /\ n \in Nat /\ CallsOK(calls)
  BY <1>1, BatchParts
<1>3. CASE LastBusy(calls)
  <2>1. calls' = [calls EXCEPT ![Len(calls)].res = r] /\ calls # <<>>
    BY <1>3 DEF Return, LastBusy
  <2>2. Changed(calls, calls', r, calls[Len(calls)].tries)
    BY <1>2, <2>1, SetResult
  <2>3. Batch(s, calls', <<>>, e)
    <3>1. (r = "Err" /\ Sole(calls, Len(calls), e)) => todo # <<>>
      BY <1>3
    <3> HIDE DEF s, e
    <3> QED
      BY <1>1, <1>3, <2>2, <3>1, ReturnKeeps
  <2>4. ~LastBusy(calls')
    BY <2>2 DEF LastBusy, Changed
  <2>5. AllLetGo(kind, calls')
    <3>1. Len(calls') = n /\ \A c \in 1..n : calls'[c].frames = calls[c].frames
      BY <2>2 DEF Changed
    <3> QED
      BY <1>1, <3>1 DEF AllLetGo
  <2> QED
    BY <2>3, <2>4, <2>5
<1>4. CASE ~LastBusy(calls)
  <2>1. calls' = calls
    BY <1>4 DEF Return, LastBusy
  <2>2. Batch(s, calls, <<>>, e)
    <3>1. <<>> \in Seq(FrameSet)
      OBVIOUS
    <3> HIDE DEF s, e
    <3> QED
      BY <1>1, <1>4, <3>1, IdleBatch
  <2> QED
    BY <1>1, <1>4, <2>1, <2>2
<1> QED
  BY <1>3, <1>4

\* The end of a call that leaves the stream as it was.
LEMMA ReturnStep ==
  ASSUME Body, NEW r \in {"Ok", "Err"}, Return(r), Parts', Stream' = Stream,
         UNCHANGED kind,
         r = "Ok" => todo = <<>>,
         (r = "Err" /\ LastBusy(calls) /\ Sole(calls, Len(calls), Eager)) => todo # <<>>
  PROVE  Body'
<1>1. /\ Batch(Stream, calls', <<>>, Eager) /\ ~LastBusy(calls')
      /\ AllLetGo(kind, calls')
  BY ReturnBody
<1>2. pc' = "idle" /\ todo' = <<>> /\ Eager' = Eager
  BY DEF Return, Eager
<1>3. Batching'
  BY <1>1, <1>2 DEF Batching
<1>4. Progress'
  BY <1>1, <1>2 DEF Progress
<1>5. KeysLetGo'
  BY <1>1 DEF KeysLetGo
<1> QED
  BY <1>3, <1>4, <1>5 DEF Body

LEMMA PushStep ==
  ASSUME Body, Push
  PROVE  Body'
<1> DEFINE n == Len(calls)
<1>1. PICK fs \in Frames(kind, Len(calls) + 1), sl \in BOOLEAN :
        /\ calls' = Append(calls, [frames |-> fs, slice |-> sl, res |-> "Busy", tries |-> 1])
        /\ Start(fs, sl)
  BY DEF Push
<1> DEFINE k == [frames |-> fs, slice |-> sl, res |-> "Busy", tries |-> 1]
<1>2. /\ UNCHANGED <<kind, size, fast, ring, buf, chan, delivered>>
      /\ pc' = "loop" /\ todo' = fs /\ slice' = sl
  BY <1>1 DEF Start, batcher, client
<1>3. Batch(Stream, calls, todo, Eager) /\ ~LastBusy(calls) /\ kind \in KindSet
      /\ AllLetGo(kind, calls)
  BY DEF Push, Body, Batching, Progress, Parts, KeysLetGo
<1>4. n \in Nat /\ calls \in Seq(CallSet)
  BY <1>3, BatchParts
<1>5. CallFrames(fs, n + 1) /\ (kind \in KeyKinds => LetsGo(kind, fs))
  <2>1. n + 1 \in Nat
    BY <1>4
  <2> HIDE DEF n
  <2>2. fs \in Frames(kind, n + 1)
    BY DEF n
  <2> QED
    BY <1>3, <2>1, <2>2, AnyFrames
<1>6. /\ k \in CallSet /\ k.frames = fs /\ k.slice = sl /\ k.res = "Busy" /\ k.tries = 1
  <2> DEFINE F == Seq(FrameSet)
  <2>1. fs \in F
    BY <1>5 DEF CallFrames
  <2> HIDE DEF F
  <2>2. k \in [frames : F, slice : BOOLEAN, res : {"Busy", "Ok", "Err"}, tries : Nat]
    BY <2>1
  <2> QED
    BY <2>2 DEF CallSet, F
<1>7. calls' = Append(calls, k)
  BY <1>1
<1> HIDE DEF k
<1>8. Parts'
  BY <1>2 DEF Body, Parts
<1>9. Stream' = Stream /\ Eager' = Eager
  <2>1. Parts
    BY DEF Body
  <2> QED
    BY <1>2, <1>8, <2>1, StreamSame DEF Eager
<1>10. Batching'
  <2> DEFINE s == Stream
             e == Eager
  <2>1. k.frames # <<>> /\ k.tries # 0 /\ AllOf(k.frames, Len(calls) + 1) /\ k.res = "Busy"
    BY <1>5, <1>6 DEF CallFrames
  <2>2. Batch(s, Append(calls, k), k.frames, e)
    <3> HIDE DEF s, e
    <3>1. Batch(s, calls, todo, e)
      BY <1>3 DEF s, e
    <3> QED
      BY <1>3, <1>6, <2>1, <3>1, PushKeeps
  <2> QED
    BY <1>2, <1>6, <1>7, <1>9, <2>2 DEF Batching
<1>11. Len(calls') = n + 1 /\ calls'[n + 1] = k /\ calls' # <<>>
       /\ \A c \in 1..n : calls'[c] = calls[c]
  BY <1>4, <1>6, <1>7
<1>12. Progress'
  BY <1>2, <1>6, <1>11 DEF Progress, LastBusy
<1>13. KeysLetGo'
  <2>1. \A c \in 1..Len(calls') : c = n + 1 \/ c \in 1..n
    BY <1>4, <1>11
  <2> QED
    BY <1>2, <1>3, <1>5, <1>6, <1>11, <2>1 DEF KeysLetGo, AllLetGo
<1> QED
  BY <1>8, <1>10, <1>12, <1>13 DEF Body

LEMMA RetryStep ==
  ASSUME Body, Retry
  PROVE  Body'
<1> DEFINE n == Len(calls)
           fs == calls[n].frames
<1>1. /\ pc = "idle" /\ n > 0 /\ calls[n].res = "Err"
      /\ calls' = [calls EXCEPT ![Len(calls)].res = "Busy", ![Len(calls)].tries = @ + 1]
      /\ Start(fs, calls[n].slice)
  BY DEF Retry
<1>2. /\ UNCHANGED <<kind, size, fast, ring, buf, chan, delivered>>
      /\ pc' = "loop" /\ todo' = fs /\ slice' = calls[n].slice
  BY <1>1 DEF Start, batcher, client
<1>3. Batch(Stream, calls, todo, Eager) /\ AllLetGo(kind, calls)
  BY DEF Body, Batching, KeysLetGo
<1>4. n \in Nat /\ calls \in Seq(CallSet) /\ CallsOK(calls)
  BY <1>3, BatchParts
<1>5. n \in 1..n /\ calls # <<>>
  BY <1>1, <1>4
<1>6. Changed(calls, calls', "Busy", calls[Len(calls)].tries + 1)
  BY <1>1, <1>4, <1>5, SetBusyAgain
<1>7. calls[n].slice \in BOOLEAN
  BY <1>4, <1>5, CallParts
<1>8. Parts'
  BY <1>2, <1>7 DEF Body, Parts
<1>9. Stream' = Stream /\ Eager' = Eager
  <2>1. Parts
    BY DEF Body
  <2> QED
    BY <1>2, <1>8, <2>1, StreamSame DEF Eager
<1>10. Batching'
  <2> DEFINE s == Stream
             e == Eager
  <2>1. Batch(s, calls', fs, e)
    <3> HIDE DEF s, e
    <3>1. Batch(s, calls, todo, e)
      BY <1>3 DEF s, e
    <3> QED
      BY <1>1, <1>5, <1>6, <3>1, RetryKeeps
  <2> QED
    BY <1>2, <1>9, <2>1 DEF Batching
<1>11. /\ Len(calls') = n /\ calls' # <<>> /\ calls'[n].res = "Busy" /\ calls'[n].slice = calls[n].slice
       /\ \A c \in 1..n : calls'[c].frames = calls[c].frames
  BY <1>4, <1>5, <1>6 DEF Changed
<1>12. Progress'
  BY <1>2, <1>11 DEF Progress, LastBusy
<1>13. KeysLetGo'
  BY <1>2, <1>3, <1>11 DEF KeysLetGo, AllLetGo
<1> QED
  BY <1>8, <1>10, <1>12, <1>13 DEF Body

\* One turn of the loop stores at least one frame and no more than there are.
LEMMA TurnBounds ==
  ASSUME Body, Store
  PROVE  Turn \in 1..Len(todo) /\ todo \in Seq(FrameSet)
<1>1. todo \in Seq(FrameSet) /\ todo # <<>> /\ buf \in Seq(FrameSet) /\ size \in Nat
  BY BatchParts DEF Body, Batching, Parts, Store
<1>2. Len(todo) \in Nat \ {0} /\ Len(buf) \in Nat
  BY <1>1
<1>3. slice => size - Len(buf) > 0
  BY <1>1, <1>2 DEF Store, Blocked, Full
<1> QED
  BY <1>1, <1>2, <1>3 DEF Turn

LEMMA StoreStep ==
  ASSUME Body, Store
  PROVE  Body'
<1> DEFINE n == Len(calls)
           x == SubSeq(todo, 1, Turn)
           rest == SubSeq(todo, Turn + 1, Len(todo))
           s == Stream
           e == Eager
<1>1. /\ pc = "loop" /\ buf' = buf \o x /\ todo' = rest
      /\ pc' = IF Len(buf') >= size /\ (Eager \/ slice) THEN "flush" ELSE "loop"
      /\ UNCHANGED <<kind, size, slice, fast, ring, chan, delivered, calls>>
  BY DEF Store, batcher, client
<1>2. Batch(s, calls, todo, e) /\ Parts /\ Progress /\ LastBusy(calls)
  BY <1>1 DEF Body, Batching, Progress
<1>3. x \in Seq(FrameSet) /\ rest \in Seq(FrameSet) /\ todo = x \o rest
  <2> DEFINE t == Turn
  <2>1. t \in 1..Len(todo) /\ todo \in Seq(FrameSet)
    BY TurnBounds
  <2> HIDE DEF t
  <2>2. /\ SubSeq(todo, 1, t) \in Seq(FrameSet) /\ SubSeq(todo, t + 1, Len(todo)) \in Seq(FrameSet)
        /\ todo = SubSeq(todo, 1, t) \o SubSeq(todo, t + 1, Len(todo))
    BY <2>1
  <2> QED
    BY <2>2 DEF t
<1> HIDE DEF x, rest
<1>4. Parts'
  <2>1. buf' \in Seq(FrameSet)
    BY <1>1, <1>2, <1>3 DEF Parts
  <2> QED
    BY <1>1, <1>2, <2>1 DEF Parts
<1>5. Stream' = s \o x /\ Eager' = Eager
  <2>1. Stream' = StreamOf(delivered, chan, buf \o x)
    BY <1>1, <1>4, StreamThen
  <2>2. StreamOf(delivered, chan, buf \o x) = StreamOf(delivered, chan, buf) \o x
    BY <1>2, <1>3, StreamOfStore DEF Parts
  <2>3. s = StreamOf(delivered, chan, buf)
    BY <1>2, StreamNow
  <2> QED
    BY <1>1, <2>1, <2>2, <2>3, Zenon DEF Eager
<1>6. Batching'
  <2>1. Batch(s \o x, calls, rest, e)
    <3> HIDE DEF s, e
    <3> QED
      BY <1>2, <1>3, StoreKeeps
  <2> QED
    BY <1>1, <1>5, <2>1 DEF Batching
<1>7. Progress'
  <2>1. slice = calls[n].slice
    BY <1>2 DEF Progress
  <2>2. Sole(calls, n, Eager) => ~slice /\ ~Eager
    BY <2>1 DEF Sole
  <2> QED
    BY <1>1, <1>2, <1>5, <2>1, <2>2 DEF Progress
<1>8. KeysLetGo'
  BY <1>1 DEF Body, KeysLetGo
<1> QED
  BY <1>4, <1>6, <1>7, <1>8 DEF Body

LEMMA PushReturnStep ==
  ASSUME Body, PushReturn
  PROVE  Body'
<1>1. /\ todo = <<>> /\ Return("Ok") /\ slice' = FALSE
      /\ UNCHANGED <<kind, size, fast, ring, buf, chan, delivered>>
  BY DEF PushReturn, Return, batcher, client
<1>2. Parts /\ Parts'
  BY <1>1 DEF Body, Parts
<1>3. Stream' = Stream
  BY <1>1, <1>2, StreamSame
<1> QED
  BY <1>1, <1>2, <1>3, ReturnStep

LEMMA FlushStep ==
  ASSUME Body, Flush
  PROVE  Body'
<1>1. /\ pc = "idle" /\ pc' = "flush"
      /\ UNCHANGED <<kind, size, slice, fast, ring, buf, chan, delivered, calls, todo>>
  BY DEF Flush, batcher, client
<1>2. Parts /\ Parts' /\ ~LastBusy(calls) /\ todo = <<>>
  BY <1>1 DEF Body, Parts, Progress
<1>3. Stream' = Stream /\ Eager' = Eager
  BY <1>1, <1>2, StreamSame DEF Eager
<1>4. Batching' /\ KeysLetGo'
  BY <1>1, <1>3 DEF Body, Batching, KeysLetGo
<1>5. Progress'
  BY <1>1, <1>2 DEF Progress
<1> QED
  BY <1>2, <1>4, <1>5 DEF Body

\* The batch goes to the channel; the call ends or its loop goes on.
LEMMA SendOkStep ==
  ASSUME Body, SendOk
  PROVE  Body'
<1>1. /\ chan' = Append(chan, buf) /\ buf' = <<>> /\ Flushed /\ slice' \in {slice, FALSE}
      /\ UNCHANGED <<kind, size, fast, ring, delivered>>
  BY DEF SendOk, Flushed, Return, batcher, running
<1>2. Parts
  BY DEF Body
<1>3. Parts'
  <2> DEFINE F == Seq(FrameSet)
  <2>1. chan \in Seq(F) /\ buf \in F
    BY <1>2 DEF Parts
  <2>2. <<>> \in F
    OBVIOUS
  <2> HIDE DEF F
  <2>3. Append(chan, buf) \in Seq(F)
    BY <2>1
  <2>4. chan' \in Seq(Seq(FrameSet)) /\ buf' \in Seq(FrameSet)
    BY <1>1, <2>2, <2>3 DEF F
  <2> QED
    BY <1>1, <1>2, <2>4 DEF Parts
<1>4. Stream' = Stream
  <2>1. Stream' = StreamOf(delivered, Append(chan, buf), <<>>)
    BY <1>1, <1>3, StreamThen
  <2>2. StreamOf(delivered, Append(chan, buf), <<>>) = StreamOf(delivered, chan, buf)
    BY <1>2, StreamOfSend DEF Parts
  <2> QED
    BY <1>2, <2>1, <2>2, StreamNow
<1>5. CASE todo = <<>>
  <2>1. Return("Ok")
    BY <1>1, <1>5 DEF Flushed
  <2> QED
    BY <1>1, <1>3, <1>4, <1>5, <2>1, ReturnStep
<1>6. CASE todo # <<>>
  <2>1. pc' = "loop" /\ UNCHANGED <<todo, slice, calls>>
    BY <1>1, <1>6 DEF Flushed, running
  <2>2. LastBusy(calls)
    BY <1>6 DEF Body, Progress
  <2>3. Eager' = Eager
    BY <1>1 DEF Eager
  <2>4. Batching' /\ KeysLetGo'
    BY <1>1, <1>4, <2>1, <2>3 DEF Body, Batching, KeysLetGo
  <2>5. Progress'
    BY <2>1, <2>2 DEF Body, Progress
  <2> QED
    BY <1>3, <2>4, <2>5 DEF Body
<1> QED
  BY <1>5, <1>6

LEMMA SendErrStep ==
  ASSUME Body, SendErr
  PROVE  Body'
<1>1. /\ Flushing /\ Return("Err") /\ slice' = FALSE
      /\ UNCHANGED <<kind, size, fast, ring, buf, chan, delivered>>
  BY DEF SendErr, Return, batcher, client
<1>2. Parts /\ Parts'
  BY <1>1 DEF Body, Parts
<1>3. Stream' = Stream
  BY <1>1, <1>2, StreamSame
<1>4. (LastBusy(calls) /\ Sole(calls, Len(calls), Eager)) => todo # <<>>
  BY <1>1 DEF Flushing, Body, Progress
<1> QED
  BY <1>1, <1>2, <1>3, <1>4, ReturnStep

\* The dispatcher takes the next command out of the channel.
LEMMA DispatchStep ==
  ASSUME Body, Dispatch
  PROVE  Body'
<1>1. Parts /\ ring = <<>>
  BY DEF Body, Parts
<1>2. /\ chan # <<>> /\ delivered' = delivered \o Head(chan) /\ chan' = Tail(chan)
      /\ UNCHANGED <<kind, size, fast, ring, buf, pc, todo, slice, calls>>
  BY <1>1 DEF Dispatch, batcher, running
<1>3. /\ StreamOf(delivered', chan', buf) = StreamOf(delivered, chan, buf)
      /\ delivered' \in Seq(FrameSet) /\ chan' \in Seq(Seq(FrameSet))
  BY <1>1, <1>2, StreamOfDispatch DEF Parts
<1>4. Parts'
  BY <1>1, <1>2, <1>3 DEF Parts
<1>5. Stream' = Stream /\ Eager' = Eager
  BY <1>1, <1>2, <1>3, <1>4, StreamNow, StreamThen DEF Eager
<1>6. Batching' /\ KeysLetGo' /\ Progress'
  BY <1>2, <1>5 DEF Body, Batching, KeysLetGo, Progress
<1> QED
  BY <1>4, <1>6 DEF Body

LEMMA BatcherStep ==
  ASSUME BatcherInv, [BatcherNext]_batcherVars
  PROVE  BatcherInv'
<1> SUFFICES ASSUME Serving'
             PROVE  Body'
  BY DEF BatcherInv
<1>1. CASE Push
  <2>1. Serving
    BY <1>1 DEF Push, Start, client, Serving
  <2> QED
    BY <1>1, <2>1, PushStep DEF BatcherInv
<1>2. CASE Retry
  <2>1. Serving
    BY <1>2 DEF Retry, Start, client, Serving
  <2> QED
    BY <1>2, <2>1, RetryStep DEF BatcherInv
<1>3. CASE Flush
  <2>1. Serving
    BY <1>3 DEF Flush, client, Serving
  <2> QED
    BY <1>3, <2>1, FlushStep DEF BatcherInv
<1>4. CASE Drop
  BY <1>4 DEF Drop, Serving
<1>5. CASE Store
  <2>1. Serving
    BY <1>5 DEF Store, client, Serving
  <2> QED
    BY <1>5, <2>1, StoreStep DEF BatcherInv
<1>6. CASE PushReturn
  <2>1. Serving
    BY <1>6 DEF PushReturn, client, Serving
  <2> QED
    BY <1>6, <2>1, PushReturnStep DEF BatcherInv
<1>7. CASE SendOk
  <2>1. Serving
    BY <1>7 DEF SendOk, Flushing, Serving
  <2> QED
    BY <1>7, <2>1, SendOkStep DEF BatcherInv
<1>8. CASE SendErr
  <2>1. Serving
    BY <1>8 DEF SendErr, Flushing, client, Serving
  <2> QED
    BY <1>8, <2>1, SendErrStep DEF BatcherInv
<1>9. CASE RingOne \/ RingBegin
  <2>1. fast /\ Serving
    BY <1>9 DEF RingOne, RingBegin, RingSingle, RingBatch, Flushing, client, Serving
  <2> QED
    BY <2>1 DEF BatcherInv, Body, Parts
<1>10. CASE RingPush \/ RingEnd
  <2>1. pc = "ring" /\ Serving
    BY <1>10 DEF RingPush, RingEnd, client, Serving
  <2> QED
    BY <2>1 DEF BatcherInv, Body, Progress
<1>11. CASE Dispatch
  <2>1. Serving
    BY <1>11 DEF Dispatch, Serving
  <2> QED
    BY <1>11, <2>1, DispatchStep DEF BatcherInv
<1>12. CASE DispatcherEnds
  BY <1>12 DEF DispatcherEnds, Serving
<1>13. CASE UNCHANGED batcherVars
  BY <1>13 DEF batcherVars, batcher, running, flush, client, BatcherInv, Serving, Body, Parts,
     Progress, Batching, KeysLetGo, Stream, Eager
<1> QED
  BY <1>1, <1>2, <1>3, <1>4, <1>5, <1>6, <1>7, <1>8, <1>9, <1>10, <1>11, <1>12, <1>13
     DEF BatcherNext, CallStep

-----------------------------------------------------------------------------
(* What the invariant gives.                                               *)

LEMMA BodyKeepsFrames ==
  ASSUME Body
  PROVE  Only(Stream, {f \in Range(Stream) : Settled(f.call)}) = FlattenSeq(Settle)
<1> DEFINE s == Stream
           e == Eager
           S == {f \in Range(s) : Settled(f.call)}
           T == TrustedFrames(calls, e)
           n == Len(calls)
<1>1. s \in Seq(FrameSet) /\ Kept(s, calls, e)
  BY DEF Body, Batching, Batch
<1>2. \A c : Settled(c) <=> Trusted(calls, c, e)
  BY DEF Settled, OneFrame, Trusted, Sole
<1>3. \A i \in 1..Len(s) : s[i] \in S <=> s[i] \in T
  <2> SUFFICES ASSUME NEW i \in 1..Len(s)
               PROVE  s[i] \in S <=> s[i] \in T
    OBVIOUS
  <2> HIDE DEF s
  <2>1. s[i] \in Range(s) /\ s[i] \in FrameSet
    BY <1>1 DEF Range
  <2> QED
    BY <1>2, <2>1 DEF TrustedFrames
<1>4. Only(s, S) = Only(s, T)
  <2> HIDE DEF s, S, T
  <2> QED
    BY <1>1, <1>3, OnlySame
<1>5. Settle = Yield(calls, n, e)
  <2>1. ASSUME NEW c \in 1..n
        PROVE  (IF Settled(c) THEN StoredBy(c) ELSE <<>>) = YieldOf(calls, c, e)
    BY <1>2 DEF StoredBy, YieldOf
  <2> QED
    BY <2>1 DEF Settle, Yield
<1> QED
  BY <1>1, <1>4, <1>5 DEF Kept

\* A call whose frames are in the stream in one piece, nothing of it after them.
LEMMA WholeLetsGo ==
  ASSUME NEW s \in Seq(FrameSet), NEW fs \in Seq(FrameSet), NEW c, NEW k, fs # <<>>,
         AllOf(fs, c), LetsGo(k, fs), Whole(s, fs, c),
         \A j \in 1..Len(s) : s[j].call = c => \E i \in 1..Len(fs) : s[j] = fs[i]
  PROVE  /\ Down(s, c) = {}
         /\ \E i \in 1..Len(s) : /\ s[i].call = c /\ (k = "keyboard" => ~s[i].mods)
                                 /\ \A j \in (i + 1)..Len(s) : s[j].call # c
<1>1. PICK p \in Seq(FrameSet), d \in Seq(FrameSet) : s = (p \o fs) \o d /\ Free(d, c)
  BY DEF Whole
<1> DEFINE P == Len(p)
           n == Len(fs)
           m == Len(d)
<1>2. /\ P \in Nat /\ n \in Nat \ {0} /\ m \in Nat /\ Len(s) = P + n + m
      /\ \A i \in 1..n : s[P + i] = fs[i]
      /\ \A i \in 1..m : s[P + n + i] = d[i]
  BY <1>1
<1> HIDE DEF P, n, m
<1>3. \A j \in (P + n + 1)..Len(s) : s[j].call # c
  <2> SUFFICES ASSUME NEW j \in (P + n + 1)..Len(s)
               PROVE  s[j].call # c
    OBVIOUS
  <2> DEFINE i == j - P - n
  <2>1. i \in 1..m /\ P + n + i = j
    BY <1>2
  <2>2. s[j] = d[i]
    BY <1>2, <2>1
  <2> HIDE DEF i
  <2> QED
    BY <1>1, <2>1, <2>2 DEF Free, m
<1>4. ASSUME NEW j \in 1..Len(s), s[j].call = c, s[j].act = "press"
      PROVE  \E l \in (j + 1)..Len(s) :
               s[l].call = c /\ s[l].act = "release" /\ s[l].key = s[j].key
  <2>1. j <= P + n
    BY <1>2, <1>3, <1>4
  <2>2. PICK i \in 1..n : s[j] = fs[i] /\ j <= P + i
    <3>1. CASE j <= P
      <4>1. PICK i \in 1..n : s[j] = fs[i]
        BY <1>4 DEF n
      <4>2. j <= P + i
        BY <1>2, <3>1
      <4> QED
        BY <4>1, <4>2
    <3>2. CASE j > P
      <4> DEFINE i == j - P
      <4>1. i \in 1..n /\ P + i = j /\ j <= P + i
        BY <1>2, <2>1, <3>2
      <4> HIDE DEF i
      <4>2. s[j] = fs[i]
        BY <1>2, <4>1
      <4> QED
        BY <4>1, <4>2
    <3> QED
      BY <1>2, <3>1, <3>2
  <2>3. PICK r \in (i + 1)..n : fs[r].act = "release" /\ fs[r].key = fs[i].key
    BY <1>4, <2>2 DEF LetsGo, n
  <2> DEFINE l == P + r
  <2>4. r \in 1..n /\ l \in (j + 1)..Len(s)
    BY <1>2, <2>2, <2>3
  <2>5. s[l] = fs[r] /\ fs[r].call = c
    BY <1>2, <2>4 DEF AllOf, n
  <2> HIDE DEF l
  <2> QED
    BY <2>2, <2>3, <2>4, <2>5
<1>5. Down(s, c) = {}
  <2> DEFINE J == {j \in 1..Len(s) :
                     s[j].call = c /\ s[j].act = "press"
                     /\ \A l \in (j + 1)..Len(s) :
                          ~(s[l].call = c /\ s[l].act = "release" /\ s[l].key = s[j].key)}
  <2>1. J = {}
    BY <1>4
  <2>2. Down(s, c) = {f.key : f \in {s[i] : i \in J}}
    BY DEF Down
  <2> HIDE DEF J
  <2> QED
    BY <2>1, <2>2
<1>6. \E i \in 1..Len(s) : /\ s[i].call = c /\ (k = "keyboard" => ~s[i].mods)
                           /\ \A j \in (i + 1)..Len(s) : s[j].call # c
  <2> DEFINE i == P + n
  <2>1. i \in 1..Len(s) /\ n \in 1..n
    BY <1>2
  <2>2. s[i] = fs[n] /\ fs[n].call = c /\ (k = "keyboard" => ~fs[n].mods)
    BY <1>2, <2>1 DEF AllOf, LetsGo, n
  <2>3. \A j \in (i + 1)..Len(s) : s[j].call # c
    BY <1>3
  <2> HIDE DEF i
  <2> QED
    BY <2>1, <2>2, <2>3
<1> QED
  BY <1>5, <1>6

LEMMA BodyLetsGo ==
  ASSUME Body, kind \in KeyKinds, NEW c \in 1..Len(calls), calls[c].res = "Ok"
  PROVE  /\ Down(Stream, c) = {}
         /\ \E i \in 1..Len(Stream) :
              /\ Stream[i].call = c /\ (kind = "keyboard" => ~Stream[i].mods)
              /\ \A j \in (i + 1)..Len(Stream) : Stream[j].call # c
<1> DEFINE s == Stream
           fs == calls[c].frames
<1>1. s \in Seq(FrameSet) /\ CallsOK(calls) /\ Placed(s, calls) /\ Landed(s, calls)
  BY DEF Body, Batching, Batch
<1>2. fs \in Seq(FrameSet) /\ fs # <<>> /\ AllOf(fs, c)
  BY <1>1, CallParts DEF AllOf
<1>3. LetsGo(kind, fs) /\ Whole(s, fs, c)
  BY <1>1 DEF Body, KeysLetGo, AllLetGo, Landed
<1>4. \A j \in 1..Len(s) : s[j].call = c => \E i \in 1..Len(fs) : s[j] = fs[i]
  BY <1>1 DEF Placed
<1> HIDE DEF s, fs
<1>5. /\ Down(s, c) = {}
      /\ \E i \in 1..Len(s) : /\ s[i].call = c /\ (kind = "keyboard" => ~s[i].mods)
                              /\ \A j \in (i + 1)..Len(s) : s[j].call # c
  BY <1>1, <1>2, <1>3, <1>4, WholeLetsGo
<1> QED
  BY <1>5 DEF s

LEMMA DropStep ==
  ASSUME BatcherInv, BatcherNext, pc # "dropped", pc' = "dropped", alive, Len(chan) < Bound
  PROVE  delivered' \o FlattenSeq(chan') = Stream
<1>1. Body
  BY DEF BatcherInv, Serving
<1>2. Drop
  BY <1>1 DEF BatcherNext, CallStep, Push, Retry, Start, Flush, Store, PushReturn, SendOk, SendErr,
     RingOne, RingBegin, RingPush, RingEnd, Flushed, Return, Dispatch, DispatcherEnds
<1>3. Parts /\ ~fast
  BY <1>1 DEF Body, Parts
<1>4. Stream = StreamOf(delivered, chan, buf) /\ delivered' = delivered
  BY <1>2, <1>3, StreamNow DEF Drop
<1>5. chan' = IF buf # <<>> THEN Append(chan, buf) ELSE chan
  BY <1>2, <1>3 DEF Drop
<1>6. Parts /\ chan' \in Seq(Seq(FrameSet))
  <2> DEFINE F == Seq(FrameSet)
  <2>1. chan \in Seq(F) /\ buf \in F
    BY <1>3 DEF Parts
  <2> HIDE DEF F
  <2>2. chan' \in Seq(F)
    BY <1>5, <2>1
  <2> QED
    BY <1>3, <2>2 DEF F
<1>7. delivered' \o FlattenSeq(chan') = StreamOf(delivered, chan', <<>>)
  <2> DEFINE g == delivered \o FlattenSeq(chan')
  <2>1. FlattenSeq(chan') \in Seq(FrameSet) /\ delivered \in Seq(FrameSet)
    BY <1>6, FlattenType DEF Parts
  <2>2. g \in Seq(FrameSet)
    BY <2>1
  <2>3. g \o <<>> = g
    <3> HIDE DEF g
    <3> QED
      BY <2>2
  <2> QED
    BY <1>4, <2>3 DEF StreamOf
<1>8. StreamOf(delivered, chan', <<>>) = StreamOf(delivered, chan, buf)
  <2>1. CASE buf = <<>>
    BY <1>5, <2>1
  <2>2. CASE buf # <<>>
    BY <1>3, <1>5, <2>2, StreamOfSend DEF Parts
  <2> QED
    BY <2>1, <2>2
<1> QED
  BY <1>4, <1>7, <1>8

-----------------------------------------------------------------------------
(* The gamepad fast path.  Its channel has no receiver and stays empty; a  *)
(* frame is in the batcher, in the ring or delivered.  A batch may be in   *)
(* the ring and still in the batcher, so no order is claimed here, only    *)
(* that the frames of a call that returned Ok are somewhere: the batcher   *)
(* is emptied only when the ring has taken each of its frames.             *)

\* What has left the batcher, and what its end has.
Out  == Range(delivered) \cup Range(ring)
Held == Out \cup Range(buf)

\* Y has the frames of the calls that returned Ok, and those the running call
\* has stored: td are the others.
Complete(cs, Y, td) ==
  /\ \A c \in 1..Len(cs) : cs[c].res = "Ok" => Range(cs[c].frames) \subseteq Y
  /\ LastBusy(cs) => Range(cs[Len(cs)].frames) \subseteq Y \cup Range(td)

FastParts ==
  /\ ~alive /\ chan = <<>> /\ kind \in KindSet
  /\ size \in Nat /\ slice \in BOOLEAN
  /\ buf \in Seq(FrameSet) /\ ring \in Seq(FrameSet) /\ delivered \in Seq(FrameSet)
  /\ todo \in Seq(FrameSet) /\ calls \in Seq(CallSet)

\* A batch on its way into the ring.
InRing ==
  pc = "ring" => /\ at \in 1..(Len(buf) + 1) /\ spilled \in Nat
                 /\ spilled = 0 => \A i \in 1..(at - 1) : buf[i] \in Out

FastBody == FastParts /\ InRing /\ Complete(calls, Held, todo)
RingModeInv  == fast /\ pc # "dropped" => FastBody

LEMMA RangeOfConcat ==
  ASSUME NEW A, NEW u \in Seq(A), NEW v \in Seq(A)
  PROVE  Range(u \o v) = Range(u) \cup Range(v)
<1> DEFINE w == u \o v
           m == Len(u)
           n == Len(v)
<1>1. /\ m \in Nat /\ n \in Nat /\ DOMAIN u = 1..m /\ DOMAIN v = 1..n /\ DOMAIN w = 1..(m + n)
      /\ \A i \in 1..m : w[i] = u[i]
      /\ \A i \in 1..n : w[m + i] = v[i]
  OBVIOUS
<1> HIDE DEF w, m, n
<1>2. \A i \in 1..(m + n) : i \in 1..m \/ (i - m \in 1..n /\ m + (i - m) = i)
  BY <1>1
<1>3. \A i \in 1..m : i \in 1..(m + n)
  BY <1>1
<1>4. \A i \in 1..n : m + i \in 1..(m + n)
  BY <1>1
<1>5. \A x \in Range(w) : x \in Range(u) \cup Range(v)
  <2> SUFFICES ASSUME NEW i \in 1..(m + n)
               PROVE  w[i] \in Range(u) \cup Range(v)
    BY <1>1 DEF Range
  <2> DEFINE j == i - m
  <2>1. i \in 1..m \/ (j \in 1..n /\ m + j = i)
    BY <1>2
  <2> HIDE DEF j
  <2> QED
    BY <1>1, <2>1 DEF Range
<1>6. \A x \in Range(u) : x \in Range(w)
  BY <1>1, <1>3 DEF Range
<1>7. \A x \in Range(v) : x \in Range(w)
  <2> SUFFICES ASSUME NEW i \in 1..n
               PROVE  v[i] \in Range(w)
    BY <1>1 DEF Range
  <2>1. w[m + i] = v[i] /\ m + i \in DOMAIN w
    BY <1>1, <1>4
  <2> QED
    BY <2>1 DEF Range
<1> QED
  BY <1>5, <1>6, <1>7 DEF w

LEMMA RangeOfAppend ==
  ASSUME NEW A, NEW u \in Seq(A), NEW x \in A
  PROVE  Append(u, x) \in Seq(A) /\ Range(Append(u, x)) = Range(u) \cup {x}
<1>1. Append(u, x) = u \o <<x>> /\ <<x>> \in Seq(A) /\ Append(u, x) \in Seq(A)
  OBVIOUS
<1>2. Range(<<x>>) = {x}
  BY DEF Range
<1>3. Range(u \o <<x>>) = Range(u) \cup Range(<<x>>)
  BY <1>1, RangeOfConcat
<1> QED
  BY <1>1, <1>2, <1>3

LEMMA RangeOfHead ==
  ASSUME NEW A, NEW u \in Seq(A), u # <<>>
  PROVE  Tail(u) \in Seq(A) /\ Head(u) \in A /\ Range(u) = {Head(u)} \cup Range(Tail(u))
<1>1. /\ u = <<Head(u)>> \o Tail(u) /\ <<Head(u)>> \in Seq(A) /\ Tail(u) \in Seq(A)
      /\ Head(u) \in A
  OBVIOUS
<1> DEFINE x == Head(u)
           t == Tail(u)
<1> HIDE DEF x, t
<1>2. Range(<<x>>) = {x}
  BY DEF Range
<1>3. Range(<<x>> \o t) = Range(<<x>>) \cup Range(t)
  BY <1>1, RangeOfConcat DEF x, t
<1> QED
  BY <1>1, <1>2, <1>3 DEF x, t

LEMMA RangeOfOne ==
  ASSUME NEW A, NEW u \in Seq(A), Len(u) = 1
  PROVE  Range(u) = {u[1]} /\ u[1] \in A
<1> DEFINE n == Len(u)
<1>1. DOMAIN u = 1..n /\ \A i \in 1..n : u[i] \in A
  OBVIOUS
<1>2. n = 1 /\ 1..1 = {1}
  OBVIOUS
<1> HIDE DEF n
<1>3. DOMAIN u = {1} /\ u[1] \in A
  BY <1>1, <1>2
<1> QED
  BY <1>3 DEF Range

LEMMA CompleteGrows ==
  ASSUME NEW cs, NEW Y, NEW td, NEW Y1, NEW td1, Complete(cs, Y, td), Y \subseteq Y1,
         Range(td) \subseteq Y1 \cup Range(td1)
  PROVE  Complete(cs, Y1, td1)
  BY DEF Complete

\* The end of a call: with nothing left to store all of it is in Y.
LEMMA CompleteReturns ==
  ASSUME FastBody, NEW r \in {"Ok", "Err"}, Return(r), r = "Ok" => todo = <<>>,
         NEW Y, Held \subseteq Y
  PROVE  calls' \in Seq(CallSet) /\ Complete(calls', Y, <<>>)
<1>1. calls \in Seq(CallSet) /\ Complete(calls, Y, todo)
  BY CompleteGrows DEF FastBody, FastParts
<1>2. Range(<<>>) = {}
  BY DEF Range
<1>3. CASE LastBusy(calls)
  <2>1. calls' = [calls EXCEPT ![Len(calls)].res = r] /\ calls # <<>>
    BY <1>3 DEF Return, LastBusy
  <2>2. Changed(calls, calls', r, calls[Len(calls)].tries)
    BY <1>1, <2>1, SetResult
  <2>3. r = "Ok" => Range(calls[Len(calls)].frames) \subseteq Y
    BY <1>1, <1>2, <1>3 DEF Complete
  <2> QED
    BY <1>1, <2>2, <2>3 DEF Changed, Complete, LastBusy
<1>4. CASE ~LastBusy(calls)
  <2>1. calls' = calls
    BY <1>4 DEF Return, LastBusy
  <2> QED
    BY <1>1, <1>4, <2>1 DEF Complete
<1> QED
  BY <1>3, <1>4

\* A call ends and the batcher keeps, or has handed on, what it held.
LEMMA FastReturn ==
  ASSUME FastBody, NEW r \in {"Ok", "Err"}, Return(r), r = "Ok" => todo = <<>>,
         UNCHANGED <<alive, chan, kind, size>>,
         buf' \in Seq(FrameSet), ring' \in Seq(FrameSet), delivered' \in Seq(FrameSet),
         Held \subseteq Held'
  PROVE  FastBody'
<1>1. calls' \in Seq(CallSet) /\ Complete(calls', Held', <<>>)
  BY CompleteReturns
<1>2. pc' = "idle" /\ todo' = <<>> /\ slice' = FALSE
  BY DEF Return
<1>3. todo' \in Seq(FrameSet)
  BY <1>2
<1> QED
  BY <1>1, <1>2, <1>3 DEF FastBody, FastParts, InRing

\* The batch has been handed on whole.
LEMMA FastFlushed ==
  ASSUME FastBody, Flushed, UNCHANGED <<alive, chan, kind, size, delivered>>,
         ring' \in Seq(FrameSet), Held \subseteq Range(delivered) \cup Range(ring')
  PROVE  FastBody'
<1>1. buf' = <<>> /\ buf' \in Seq(FrameSet) /\ delivered' \in Seq(FrameSet)
  BY DEF Flushed, FastBody, FastParts
<1>2. Held \subseteq Held'
  BY DEF Held, Out
<1>3. CASE todo = <<>>
  <2>1. Return("Ok")
    BY <1>3 DEF Flushed
  <2> QED
    BY <1>1, <1>2, <1>3, <2>1, FastReturn
<1>4. CASE todo # <<>>
  <2>1. pc' = "loop" /\ UNCHANGED <<todo, slice, calls>>
    BY <1>4 DEF Flushed, running
  <2>2. Complete(calls, Held', todo)
    BY <1>2, CompleteGrows DEF FastBody
  <2> QED
    BY <1>1, <2>1, <2>2 DEF FastBody, FastParts, InRing
<1> QED
  BY <1>3, <1>4

LEMMA FastPush ==
  ASSUME FastBody, Push
  PROVE  FastBody'
<1>1. PICK fs \in Frames(kind, Len(calls) + 1), sl \in BOOLEAN :
        /\ calls' = Append(calls, [frames |-> fs, slice |-> sl, res |-> "Busy", tries |-> 1])
        /\ Start(fs, sl)
  BY DEF Push
<1> DEFINE k == [frames |-> fs, slice |-> sl, res |-> "Busy", tries |-> 1]
           n == Len(calls)
<1>2. /\ UNCHANGED <<kind, size, buf, chan, alive, ring, delivered>>
      /\ pc' = "loop" /\ todo' = fs /\ slice' = sl
  BY <1>1 DEF Start, batcher, client
<1>3. calls \in Seq(CallSet) /\ n \in Nat /\ kind \in KindSet
  BY DEF FastBody, FastParts
<1>4. fs \in Seq(FrameSet)
  <2>1. n + 1 \in Nat
    BY <1>3
  <2> HIDE DEF n
  <2>2. fs \in Frames(kind, n + 1)
    BY DEF n
  <2>3. CallFrames(fs, n + 1)
    BY <1>3, <2>1, <2>2, AnyFrames
  <2> QED
    BY <2>3 DEF CallFrames
<1>5. k \in CallSet /\ k.frames = fs /\ k.res = "Busy"
  <2> DEFINE F == Seq(FrameSet)
  <2>1. fs \in F
    BY <1>4
  <2> HIDE DEF F
  <2>2. k \in [frames : F, slice : BOOLEAN, res : {"Busy", "Ok", "Err"}, tries : Nat]
    BY <2>1
  <2> QED
    BY <2>2 DEF CallSet, F
<1>6. calls' = Append(calls, k)
  BY <1>1
<1> HIDE DEF k
<1>7. /\ calls' \in Seq(CallSet) /\ Len(calls') = n + 1 /\ calls'[n + 1] = k
      /\ \A c \in 1..n : calls'[c] = calls[c]
      /\ \A c \in 1..(n + 1) : c = n + 1 \/ c \in 1..n
  BY <1>3, <1>5, <1>6
<1>8. Held' = Held /\ Complete(calls, Held, todo)
  BY <1>2 DEF Held, Out, FastBody
<1>9. Complete(calls', Held, fs)
  BY <1>5, <1>7, <1>8 DEF Complete
<1> QED
  BY <1>2, <1>4, <1>7, <1>8, <1>9 DEF FastBody, FastParts, InRing

LEMMA FastRetry ==
  ASSUME FastBody, Retry
  PROVE  FastBody'
<1> DEFINE n == Len(calls)
           fs == calls[n].frames
<1>1. /\ n > 0 /\ Start(fs, calls[n].slice)
      /\ calls' = [calls EXCEPT ![Len(calls)].res = "Busy", ![Len(calls)].tries = @ + 1]
  BY DEF Retry
<1>2. /\ UNCHANGED <<kind, size, buf, chan, alive, ring, delivered>>
      /\ pc' = "loop" /\ todo' = fs /\ slice' = calls[n].slice
  BY <1>1 DEF Start, batcher, client
<1>3. calls \in Seq(CallSet) /\ calls # <<>> /\ n \in 1..n
  BY <1>1 DEF FastBody, FastParts
<1>4. Changed(calls, calls', "Busy", calls[Len(calls)].tries + 1)
  BY <1>1, <1>3, SetBusyAgain
<1>5. calls[n].slice \in BOOLEAN /\ fs \in Seq(FrameSet)
  <2>1. calls[n] \in CallSet
    BY <1>3
  <2> DEFINE F == Seq(FrameSet)
             k == calls[n]
  <2>2. k \in [frames : F, slice : BOOLEAN, res : {"Busy", "Ok", "Err"}, tries : Nat]
    BY <2>1 DEF CallSet
  <2> HIDE DEF F, k
  <2>3. k.slice \in BOOLEAN /\ k.frames \in F
    BY <2>2
  <2> QED
    BY <2>3 DEF F, k
<1>6. Held' = Held /\ Complete(calls, Held, todo)
  BY <1>2 DEF Held, Out, FastBody
<1>7. calls' \in Seq(CallSet) /\ Complete(calls', Held, fs)
  BY <1>4, <1>6 DEF Complete, Changed, LastBusy
<1> QED
  BY <1>2, <1>5, <1>6, <1>7 DEF FastBody, FastParts, InRing

LEMMA FastStore ==
  ASSUME FastBody, Store
  PROVE  FastBody'
<1> DEFINE t == Turn
           x == SubSeq(todo, 1, t)
           rest == SubSeq(todo, t + 1, Len(todo))
<1>1. /\ buf' = buf \o x /\ todo' = rest /\ pc' # "ring"
      /\ UNCHANGED <<alive, chan, kind, size, slice, ring, delivered, calls>>
  BY DEF Store, batcher, client
<1>2. /\ todo \in Seq(FrameSet) /\ buf \in Seq(FrameSet) /\ size \in Nat /\ todo # <<>>
      /\ Len(todo) \in Nat \ {0} /\ Len(buf) \in Nat
  BY DEF FastBody, FastParts, Store
<1>3. t \in 1..Len(todo)
  <2>1. slice => size - Len(buf) > 0
    BY <1>2 DEF Store, Blocked, Full
  <2> QED
    BY <1>2, <2>1 DEF Turn
<1>4. x \in Seq(FrameSet) /\ rest \in Seq(FrameSet) /\ todo = x \o rest
  <2> HIDE DEF t
  <2>1. /\ SubSeq(todo, 1, t) \in Seq(FrameSet) /\ SubSeq(todo, t + 1, Len(todo)) \in Seq(FrameSet)
        /\ todo = SubSeq(todo, 1, t) \o SubSeq(todo, t + 1, Len(todo))
    BY <1>2, <1>3
  <2> QED
    BY <2>1
<1> HIDE DEF x, rest
<1>5. Range(todo) = Range(x) \cup Range(rest) /\ Range(buf') = Range(buf) \cup Range(x)
  BY <1>1, <1>2, <1>4, RangeOfConcat
<1>6. buf' \in Seq(FrameSet)
  BY <1>1, <1>2, <1>4
<1>7. Held' = Held \cup Range(x)
  BY <1>1, <1>5 DEF Held, Out
<1>8. Complete(calls, Held', rest)
  BY <1>5, <1>7, CompleteGrows DEF FastBody
<1> QED
  BY <1>1, <1>4, <1>6, <1>8 DEF FastBody, FastParts, InRing

LEMMA FastOne ==
  ASSUME FastBody, RingOne
  PROVE  FastBody'
<1>1. /\ Len(buf) = 1 /\ UNCHANGED <<alive, chan, kind, size, delivered>>
      /\ buf \in Seq(FrameSet) /\ ring \in Seq(FrameSet) /\ delivered \in Seq(FrameSet)
  BY DEF RingOne, RingSingle, batcher, FastBody, FastParts
<1>2. CASE ring' = Append(ring, buf[1]) /\ Flushed
  <2>1. Range(buf) = {buf[1]} /\ buf[1] \in FrameSet
    BY <1>1, RangeOfOne
  <2>2. ring' \in Seq(FrameSet) /\ Range(ring') = Range(ring) \cup {buf[1]}
    BY <1>1, <1>2, <2>1, RangeOfAppend
  <2> QED
    BY <1>1, <1>2, <2>1, <2>2, FastFlushed DEF Held, Out
<1>3. CASE Return("Err") /\ UNCHANGED <<ring, buf>>
  BY <1>1, <1>3, FastReturn DEF Held, Out
<1> QED
  BY <1>2, <1>3 DEF RingOne

LEMMA FastRing ==
  ASSUME FastBody, RingPush
  PROVE  FastBody'
<1>1. /\ pc = "ring" /\ at <= Len(buf) /\ at' = at + 1
      /\ UNCHANGED <<buf, pc, todo, slice, alive, chan, kind, size, delivered, calls>>
      /\ buf \in Seq(FrameSet) /\ ring \in Seq(FrameSet)
  BY DEF RingPush, batcher, running, FastBody, FastParts
<1>2. at \in 1..(Len(buf) + 1) /\ spilled \in Nat /\ Len(buf) \in Nat
      /\ (spilled = 0 => \A i \in 1..(at - 1) : buf[i] \in Out)
  BY <1>1 DEF FastBody, InRing
<1>3. at' \in 1..(Len(buf) + 1) /\ buf[at] \in FrameSet
      /\ \A i \in 1..(at' - 1) : i = at \/ i \in 1..(at - 1)
  BY <1>1, <1>2
<1>4. CASE ring' = Append(ring, buf[at]) /\ UNCHANGED spilled
  <2>1. ring' \in Seq(FrameSet) /\ Range(ring') = Range(ring) \cup {buf[at]}
    BY <1>1, <1>3, <1>4, RangeOfAppend
  <2>2. Out' = Out \cup {buf[at]} /\ Held \subseteq Held'
    BY <1>1, <2>1 DEF Out, Held
  <2>3. InRing'
    BY <1>1, <1>2, <1>3, <1>4, <2>2 DEF InRing
  <2>4. Complete(calls, Held', todo)
    BY <2>2, CompleteGrows DEF FastBody
  <2> QED
    BY <1>1, <2>1, <2>3, <2>4 DEF FastBody, FastParts
<1>5. CASE spilled' = spilled + 1 /\ UNCHANGED ring
  <2>1. Held' = Held
    BY <1>1, <1>5 DEF Out, Held
  <2>2. InRing'
    BY <1>1, <1>2, <1>3, <1>5 DEF InRing
  <2> QED
    BY <1>1, <1>5, <2>1, <2>2 DEF FastBody, FastParts
<1> QED
  BY <1>4, <1>5 DEF RingPush

LEMMA FastEnd ==
  ASSUME FastBody, RingEnd
  PROVE  FastBody'
<1>1. /\ pc = "ring" /\ at > Len(buf)
      /\ UNCHANGED <<alive, chan, kind, size, ring, delivered>>
      /\ buf \in Seq(FrameSet) /\ ring \in Seq(FrameSet) /\ delivered \in Seq(FrameSet)
  BY DEF RingEnd, batcher, client, FastBody, FastParts
<1>2. CASE spilled = 0 /\ Flushed
  <2>1. \A i \in 1..Len(buf) : i \in 1..(at - 1)
    BY <1>1 DEF FastBody, InRing
  <2>2. Range(buf) \subseteq Out
    BY <1>1, <1>2, <2>1 DEF FastBody, InRing, Range
  <2> QED
    BY <1>1, <1>2, <2>2, FastFlushed DEF Held, Out
<1>3. CASE Return("Err") /\ UNCHANGED buf
  BY <1>1, <1>3, FastReturn DEF Held, Out
<1> QED
  BY <1>2, <1>3 DEF RingEnd

LEMMA FastDispatch ==
  ASSUME FastBody, Dispatch
  PROVE  FastBody'
<1>1. /\ ring # <<>> /\ delivered' = Append(delivered, Head(ring)) /\ ring' = Tail(ring)
      /\ UNCHANGED <<alive, chan, kind, size, slice, buf, pc, todo, at, spilled, calls>>
      /\ ring \in Seq(FrameSet) /\ delivered \in Seq(FrameSet)
  BY DEF Dispatch, batcher, running, flush, FastBody, FastParts
<1>2. /\ Head(ring) \in FrameSet /\ ring' \in Seq(FrameSet)
      /\ Range(ring) = {Head(ring)} \cup Range(ring')
  BY <1>1, RangeOfHead
<1>3. /\ delivered' \in Seq(FrameSet)
      /\ Range(delivered') = Range(delivered) \cup {Head(ring)}
  BY <1>1, <1>2, RangeOfAppend
<1>4. Out' = Out /\ Held' = Held
  BY <1>1, <1>2, <1>3 DEF Out, Held
<1> QED
  BY <1>1, <1>2, <1>3, <1>4 DEF FastBody, FastParts, InRing

LEMMA FastInit ==
  ASSUME BatcherInit, fast
  PROVE  FastBody
<1>1. kind \in KindSet /\ size \in Nat
  <2>1. kind \in KindSet
    BY BatcherAssumption DEF BatcherInit, KindSet
  <2> QED
    BY <2>1, BatcherAssumption DEF BatcherInit, TouchFrameBatcher, KeyboardFrameBatcher,
       AndroidKeyFrameBatcher, MouseFrameBatcher, ScrollFrameBatcher, GamepadFrameBatcher,
       PackedGamepadFrameBatcher, Sized, Batcher
<1>2. /\ ~alive /\ chan = <<>> /\ slice = FALSE /\ pc = "idle" /\ calls = <<>>
      /\ buf = <<>> /\ ring = <<>> /\ delivered = <<>> /\ todo = <<>>
  BY DEF BatcherInit
<1>3. <<>> \in Seq(FrameSet) /\ <<>> \in Seq(CallSet) /\ 1..Len(calls) = {}
  BY <1>2
<1> QED
  BY <1>1, <1>2, <1>3 DEF FastBody, FastParts, InRing, Complete, LastBusy

LEMMA FastStep ==
  ASSUME RingModeInv, [BatcherNext]_batcherVars
  PROVE  RingModeInv'
<1> SUFFICES ASSUME fast', pc' # "dropped"
             PROVE  FastBody'
  BY DEF RingModeInv
<1>1. CASE BatcherNext
  <2>1. fast /\ pc # "dropped"
    BY <1>1 DEF BatcherNext, CallStep, Push, Retry, Start, Flush, Drop, Store, PushReturn, SendOk,
       SendErr, RingOne, RingBegin, RingPush, RingEnd, Flushing, Dispatch, DispatcherEnds, batcher
  <2>2. FastBody /\ ~alive
    BY <2>1 DEF RingModeInv, FastBody, FastParts
  <2>3. CASE Push
    BY <2>2, <2>3, FastPush
  <2>4. CASE Retry
    BY <2>2, <2>4, FastRetry
  <2>5. CASE Flush
    BY <2>2, <2>5 DEF Flush, batcher, client, FastBody, FastParts, InRing, Held, Out
  <2>6. CASE Drop
    BY <2>6 DEF Drop
  <2>7. CASE Store
    BY <2>2, <2>7, FastStore
  <2>8. CASE PushReturn \/ SendErr
    <3>1. PICK r \in {"Ok", "Err"} : Return(r) /\ (r = "Ok" => todo = <<>>)
      BY <2>8 DEF PushReturn, SendErr
    <3>2. UNCHANGED <<alive, chan, kind, size, buf, ring, delivered>>
      BY <2>8 DEF PushReturn, SendErr, batcher, client
    <3>3. Held' = Held
      BY <3>2 DEF Held, Out
    <3> QED
      BY <2>2, <3>1, <3>2, <3>3, FastReturn DEF FastBody, FastParts
  <2>9. CASE SendOk
    BY <2>2, <2>9 DEF SendOk
  <2>10. CASE RingOne
    BY <2>2, <2>10, FastOne
  <2>11. CASE RingBegin
    <3>1. /\ at' = 1 /\ spilled' = 0
          /\ UNCHANGED <<kind, size, slice, buf, todo, alive, chan, ring, delivered, calls>>
      BY <2>11 DEF RingBegin, batcher, running, client
    <3>2. at' \in 1..(Len(buf') + 1) /\ spilled' \in Nat /\ 1..(at' - 1) = {}
      BY <2>2, <3>1 DEF FastBody, FastParts
    <3> QED
      BY <2>2, <3>1, <3>2 DEF FastBody, FastParts, InRing, Held, Out
  <2>12. CASE RingPush
    BY <2>2, <2>12, FastRing
  <2>13. CASE RingEnd
    BY <2>2, <2>13, FastEnd
  <2>14. CASE Dispatch
    BY <2>2, <2>14, FastDispatch
  <2>15. CASE DispatcherEnds
    BY <2>2, <2>15 DEF DispatcherEnds
  <2> QED
    BY <1>1, <2>3, <2>4, <2>5, <2>6, <2>7, <2>8, <2>9, <2>10, <2>11, <2>12, <2>13, <2>14, <2>15
       DEF BatcherNext, CallStep
<1>2. CASE UNCHANGED batcherVars
  BY <1>2 DEF batcherVars, batcher, running, flush, client, RingModeInv, FastBody, FastParts, InRing,
     Held, Out
<1> QED
  BY <1>1, <1>2

\* The calls that returned Ok are in the stream, on the fast path
LEMMA FastKeepsOk ==
  ASSUME FastBody, NEW c \in 1..Len(calls), calls[c].res = "Ok"
  PROVE  Range(calls[c].frames) \subseteq Range(Stream)
<1>1. /\ chan = <<>> /\ delivered \in Seq(FrameSet) /\ ring \in Seq(FrameSet)
      /\ buf \in Seq(FrameSet)
  BY DEF FastBody, FastParts
<1>2. Range(calls[c].frames) \subseteq Held
  BY DEF FastBody, Complete
<1> DEFINE d == delivered \o FlattenSeq(chan)
           g == d \o ring
<1>3. d = delivered
  <2>1. delivered \o <<>> = delivered
    BY <1>1
  <2> QED
    BY <1>1, <2>1, FlattenEmpty
<1> HIDE DEF d
<1>4. g \in Seq(FrameSet) /\ Range(g) = Range(delivered) \cup Range(ring)
  BY <1>1, <1>3, RangeOfConcat
<1> HIDE DEF g
<1>5. Range(g \o buf) = Range(g) \cup Range(buf)
  BY <1>1, <1>4, RangeOfConcat
<1> QED
  BY <1>2, <1>4, <1>5 DEF Stream, Held, Out, d, g

\* ... and with a dispatcher.
LEMMA BodyKeepsOk ==
  ASSUME Body, NEW c \in 1..Len(calls), calls[c].res = "Ok"
  PROVE  Range(calls[c].frames) \subseteq Range(Stream)
<1> DEFINE s == Stream
           fs == calls[c].frames
<1>1. s \in Seq(FrameSet) /\ CallsOK(calls) /\ Landed(s, calls)
  BY DEF Body, Batching, Batch
<1>2. fs \in Seq(FrameSet)
  BY <1>1, CallParts
<1>3. PICK p \in Seq(FrameSet), d \in Seq(FrameSet) : s = (p \o fs) \o d
  BY <1>1 DEF Landed, Whole
<1> DEFINE g == p \o fs
<1> HIDE DEF fs, s
<1>4. g \in Seq(FrameSet) /\ Range(g) = Range(p) \cup Range(fs)
  BY <1>2, RangeOfConcat
<1> HIDE DEF g
<1>5. Range(g \o d) = Range(g) \cup Range(d)
  BY <1>4, RangeOfConcat
<1>6. Range(fs) \subseteq Range(s)
  BY <1>3, <1>4, <1>5 DEF g
<1> QED
  BY <1>6 DEF fs, s

-----------------------------------------------------------------------------
(* The theorems.                                                           *)

(* The batchers of client.rs (KeyboardFrameBatcher and the others),        *)
(* whatever the kind, the size of the batch, the bound of the channel and  *)
(* the number of calls and retries: the stream holds the calls' frames as  *)
(* Body says.                                                              *)
THEOREM BatcherInvariant == BatcherSpec => []BatcherInv
<1>1. BatcherInit => BatcherInv
  BY InitBody DEF BatcherInv, Serving
<1>2. BatcherInv /\ [BatcherNext]_batcherVars => BatcherInv'
  BY BatcherStep
<1> QED
  BY <1>1, <1>2, PTL DEF BatcherSpec

(* The push, push_slice and flush of every batcher, with the retries of    *)
(* its callers: while the dispatcher lives, the frames of the calls that   *)
(* returned Ok at once, or of single frames that did in the end, are in    *)
(* the stream exactly once and in the order of the calls; and there, as on *)
(* the gamepad fast path of send_frame_batch_fixed, a call that returned   *)
(* Ok misses none of its frames.                                           *)
THEOREM BatcherFramesOnceInOrder == BatcherSpec => []OkFramesOnceInOrder
<1>1. BatcherSpec => []RingModeInv
  BY FastInit, FastStep, PTL DEF BatcherSpec, RingModeInv
<1>2. BatcherInv /\ RingModeInv => OkFramesOnceInOrder
  BY BodyKeepsFrames, BodyKeepsOk, FastKeepsOk
     DEF BatcherInv, Serving, RingModeInv, OkFramesOnceInOrder
<1> QED
  BY <1>1, <1>2, BatcherInvariant, PTL

(* The tap and the chord helpers of the keyboard and the Android-key       *)
(* batcher: one that returned Ok has released every key it pressed, and    *)
(* the keyboard's end without a modifier.                                  *)
THEOREM BatcherTapsLetGo == BatcherSpec => []TapsLetGo
<1>1. BatcherInv => TapsLetGo
  BY BodyLetsGo DEF BatcherInv, Serving, TapsLetGo, KeyKinds
<1> QED
  BY <1>1, BatcherInvariant, PTL

(* The Drop of every batcher: with room in the channel it hands over every *)
(* frame that was buffered, in order.                                      *)
THEOREM BatcherDropHandsOver == BatcherSpec => DropHandsOver
<1>1. BatcherInv /\ [BatcherNext]_batcherVars =>
        [pc # "dropped" /\ pc' = "dropped" /\ alive /\ Len(chan) < Bound =>
           delivered' \o FlattenSeq(chan') = Stream]_batcherVars
  BY DropStep
<1> QED
  BY <1>1, BatcherInvariant, PTL DEF BatcherSpec, DropHandsOver

-----------------------------------------------------------------------------
(* The HID drivers.                                                        *)
(*                                                                         *)
(* The argument: what the phone makes of the messages sent is a value that *)
(* each message changes (its view of a pad, the last keyboard report, the  *)
(* wheel steps so far).  A failed flush sends a part of the buffer again;  *)
(* the buffer holds reports only, the last of them for a device is what    *)
(* counts, and it comes again, so the value is the same.  Then a push ends *)
(* in one of few ways (Outcome), and each driver is followed through them. *)

PadValues == Int \cup Buttons \cup {{}}
PadStates == [Fields -> PadValues]
KeySets   == SUBSET (Keys \cup {"rollover"})
Bodies    == {Neutral} \cup {slot_to_payload(p) : p \in PadStates}
             \cup [mods : Mods, keys : KeySets]
             \cup [buttons : {{}, {"left"}}, wheel : [Axes -> Int]]

Packet ==
  {m \in [id : Nat, size : {1}, critical : BOOLEAN, dev : Nat,
          kind : {"create", "input", "destroy"}, body : Bodies] :
     m.dev = HID_ID_MOUSE => m.body.wheel \in [Axes -> Int]}

Views == {<<"none">>} \cup {<<"on", b>> : b \in Bodies \cup {slot_to_payload(Neutral)}}

-----------------------------------------------------------------------------
(* The recursive functions, step by step.                                  *)

LEMMA SeenType ==
  /\ <<"none">> \in Views
  /\ \A v \in Views, m \in Packet : \A i : Seen(v, m, i) \in Views
<1>1. <<"none">> \in Views
  BY DEF Views
<1>2. \A m \in Packet : m.body \in Bodies
  BY DEF Packet
<1>3. \A b \in Bodies \cup {slot_to_payload(Neutral)} : <<"on", b>> \in Views
  BY DEF Views
<1> QED
  BY <1>1, <1>2, <1>3, Zenon DEF Seen

LEMMA TurnedType ==
  ASSUME NEW a \in Axes
  PROVE  \A n \in Int, m \in Packet : Turned(n, m, a) \in Int
<1> SUFFICES ASSUME NEW n \in Int, NEW m \in Packet
             PROVE  Turned(n, m, a) \in Int
  OBVIOUS
<1>1. m.dev = HID_ID_MOUSE => m.body.wheel[a] \in Int
  BY DEF Packet
<1> QED
  BY <1>1 DEF Turned

LEMMA AddKeyType ==
  /\ {} \in KeySets
  /\ \A r \in KeySets, k \in Keys : \A pressed : AddKey(r, k, pressed) \in KeySets
  BY DEF KeySets, AddKey

(* The views a pad goes through are views, each from the one before.       *)
LEMMA PhoneViewsSteps ==
  ASSUME NEW s \in Seq(Packet), NEW d
  PROVE  /\ PhoneViews(s, d) \in [0..Len(s) -> Views]
         /\ PhoneViews(s, d)[0] = <<"none">>
         /\ \A i \in 1..Len(s) :
              PhoneViews(s, d)[i] = Seen(PhoneViews(s, d)[i - 1], s[i], d)
<1> DEFINE n == Len(s)
           Advance(g) == [i \in 0..n |-> IF i = 0 THEN <<"none">> ELSE Seen(g[i - 1], s[i], d)]
           step == [i \in 1..n |-> [t \in Views |-> Seen(t, s[i], d)]]
           f == PhoneViews(s, d)
<1>1. n \in Nat /\ <<"none">> \in Views /\ \A i \in 1..n : s[i] \in Packet
  BY SeenType
<1>2. step \in [1..n -> [Views -> Views]]
  <2>1. \A i \in 1..n, t \in Views : Seen(t, s[i], d) \in Views
    BY <1>1, SeenType
  <2> QED
    BY <2>1
<1>3. PICK g \in [0..n -> Views] :
        g[0] = <<"none">> /\ \A i \in 1..n : g[i] = step[i][g[i - 1]]
  <2> DEFINE T == Views
             b == <<"none">>
  <2>1. n \in Nat /\ b \in T /\ step \in [1..n -> [T -> T]]
    BY <1>1, <1>2
  <2>2. \E g \in [0..n -> T] : Steps(g, b, n, step)
    <3> HIDE DEF step, n, T, b
    <3> QED
      BY <2>1, StepsExist
  <2> QED
    BY <2>2 DEF Steps
<1>4. \A i \in 1..n : g[i] = Seen(g[i - 1], s[i], d)
  <2> SUFFICES ASSUME NEW i \in 1..n
               PROVE  g[i] = Seen(g[i - 1], s[i], d)
    OBVIOUS
  <2>1. g[i - 1] \in Views
    OBVIOUS
  <2>2. step[i][g[i - 1]] = Seen(g[i - 1], s[i], d)
    BY <2>1
  <2> QED
    BY <1>3, <2>2
<1>5. g = Advance(g)
  <2>1. \A i \in 0..n : g[i] = Advance(g)[i]
    <3> SUFFICES ASSUME NEW i \in 0..n
                 PROVE  g[i] = Advance(g)[i]
      OBVIOUS
    <3>1. CASE i = 0
      BY <1>3, <3>1
    <3>2. CASE i # 0
      <4>1. i \in 1..n
        BY <3>2
      <4>2. Advance(g)[i] = Seen(g[i - 1], s[i], d)
        BY <4>1
      <4> QED
        BY <1>4, <4>1, <4>2
    <3> QED
      BY <3>1, <3>2
  <2>2. DOMAIN g = 0..n /\ Advance(g) = [i \in 0..n |-> Advance(g)[i]]
    OBVIOUS
  <2> HIDE DEF Advance
  <2> QED
    BY <2>1, <2>2
<1>6. f = Advance(f)
  BY <1>5 DEF PhoneViews
<1> HIDE DEF f
<1>7. f[0] = <<"none">>
  <2>1. Advance(f)[0] = <<"none">>
    OBVIOUS
  <2> HIDE DEF Advance
  <2> QED
    BY <1>6, <2>1
<1>8. \A i \in 1..n : f[i] = Seen(f[i - 1], s[i], d)
  <2> SUFFICES ASSUME NEW i \in 1..n
               PROVE  f[i] = Seen(f[i - 1], s[i], d)
    OBVIOUS
  <2>1. Advance(f)[i] = Seen(f[i - 1], s[i], d)
    OBVIOUS
  <2> HIDE DEF Advance
  <2> QED
    BY <1>6, <2>1
<1>9. \A i \in 0..n : f[i] = g[i]
  <2>1. StepAlike(f, g, n)
    BY <1>3, <1>4, <1>7, <1>8 DEF StepAlike
  <2>2. Alike(f, g, n)
    BY <1>1, <2>1, SameSteps
  <2> QED
    BY <2>2 DEF Alike
<1>10. f \in [0..n -> Views]
  <2>1. f = [i \in 0..n |-> f[i]]
    <3>1. Advance(f) = [i \in 0..n |-> Advance(f)[i]]
      OBVIOUS
    <3> HIDE DEF Advance
    <3> QED
      BY <1>6, <3>1
  <2> QED
    BY <1>9, <2>1
<1> QED
  BY <1>7, <1>8, <1>10 DEF f

(* The sums of the wheel are integers, each from the one before.           *)
LEMMA WheelSumsSteps ==
  ASSUME NEW s \in Seq(Packet), NEW a \in Axes
  PROVE  /\ WheelSums(s, a) \in [0..Len(s) -> Int]
         /\ WheelSums(s, a)[0] = 0
         /\ \A i \in 1..Len(s) :
              WheelSums(s, a)[i] = Turned(WheelSums(s, a)[i - 1], s[i], a)
<1> DEFINE n == Len(s)
           Advance(g) == [i \in 0..n |-> IF i = 0 THEN 0 ELSE Turned(g[i - 1], s[i], a)]
           step == [i \in 1..n |-> [t \in Int |-> Turned(t, s[i], a)]]
           f == WheelSums(s, a)
<1>1. n \in Nat /\ 0 \in Int /\ \A i \in 1..n : s[i] \in Packet
  BY TurnedType
<1>2. step \in [1..n -> [Int -> Int]]
  <2>1. \A i \in 1..n, t \in Int : Turned(t, s[i], a) \in Int
    BY <1>1, TurnedType
  <2> QED
    BY <2>1
<1>3. PICK g \in [0..n -> Int] :
        g[0] = 0 /\ \A i \in 1..n : g[i] = step[i][g[i - 1]]
  <2> DEFINE T == Int
             b == 0
  <2>1. n \in Nat /\ b \in T /\ step \in [1..n -> [T -> T]]
    BY <1>1, <1>2
  <2>2. \E g \in [0..n -> T] : Steps(g, b, n, step)
    <3> HIDE DEF step, n, T, b
    <3> QED
      BY <2>1, StepsExist
  <2> QED
    BY <2>2 DEF Steps
<1>4. \A i \in 1..n : g[i] = Turned(g[i - 1], s[i], a)
  <2> SUFFICES ASSUME NEW i \in 1..n
               PROVE  g[i] = Turned(g[i - 1], s[i], a)
    OBVIOUS
  <2>1. g[i - 1] \in Int
    OBVIOUS
  <2>2. step[i][g[i - 1]] = Turned(g[i - 1], s[i], a)
    BY <2>1
  <2> QED
    BY <1>3, <2>2
<1>5. g = Advance(g)
  <2>1. \A i \in 0..n : g[i] = Advance(g)[i]
    <3> SUFFICES ASSUME NEW i \in 0..n
                 PROVE  g[i] = Advance(g)[i]
      OBVIOUS
    <3>1. CASE i = 0
      BY <1>3, <3>1
    <3>2. CASE i # 0
      <4>1. i \in 1..n
        BY <3>2
      <4>2. Advance(g)[i] = Turned(g[i - 1], s[i], a)
        BY <4>1
      <4> QED
        BY <1>4, <4>1, <4>2
    <3> QED
      BY <3>1, <3>2
  <2>2. DOMAIN g = 0..n /\ Advance(g) = [i \in 0..n |-> Advance(g)[i]]
    OBVIOUS
  <2> HIDE DEF Advance
  <2> QED
    BY <2>1, <2>2
<1>6. f = Advance(f)
  BY <1>5 DEF WheelSums
<1> HIDE DEF f
<1>7. f[0] = 0
  <2>1. Advance(f)[0] = 0
    OBVIOUS
  <2> HIDE DEF Advance
  <2> QED
    BY <1>6, <2>1
<1>8. \A i \in 1..n : f[i] = Turned(f[i - 1], s[i], a)
  <2> SUFFICES ASSUME NEW i \in 1..n
               PROVE  f[i] = Turned(f[i - 1], s[i], a)
    OBVIOUS
  <2>1. Advance(f)[i] = Turned(f[i - 1], s[i], a)
    OBVIOUS
  <2> HIDE DEF Advance
  <2> QED
    BY <1>6, <2>1
<1>9. \A i \in 0..n : f[i] = g[i]
  <2>1. StepAlike(f, g, n)
    BY <1>3, <1>4, <1>7, <1>8 DEF StepAlike
  <2>2. Alike(f, g, n)
    BY <1>1, <2>1, SameSteps
  <2> QED
    BY <2>2 DEF Alike
<1>10. f \in [0..n -> Int]
  <2>1. f = [i \in 0..n |-> f[i]]
    <3>1. Advance(f) = [i \in 0..n |-> Advance(f)[i]]
      OBVIOUS
    <3> HIDE DEF Advance
    <3> QED
      BY <1>6, <3>1
  <2> QED
    BY <1>9, <2>1
<1> QED
  BY <1>7, <1>8, <1>10 DEF f

(* The reports of the scan are sets of keys, each from the one before.     *)
LEMMA KeyScanSteps ==
  ASSUME NEW s \in Seq(Keys), NEW pressed
  PROVE  /\ KeyScan(s, pressed) \in [0..Len(s) -> KeySets]
         /\ KeyScan(s, pressed)[0] = {}
         /\ \A i \in 1..Len(s) :
              KeyScan(s, pressed)[i] = AddKey(KeyScan(s, pressed)[i - 1], s[i], pressed)
<1> DEFINE n == Len(s)
           Advance(g) == [i \in 0..n |-> IF i = 0 THEN {} ELSE AddKey(g[i - 1], s[i], pressed)]
           step == [i \in 1..n |-> [t \in KeySets |-> AddKey(t, s[i], pressed)]]
           f == KeyScan(s, pressed)
<1>1. n \in Nat /\ {} \in KeySets /\ \A i \in 1..n : s[i] \in Keys
  BY AddKeyType
<1>2. step \in [1..n -> [KeySets -> KeySets]]
  <2>1. \A i \in 1..n, t \in KeySets : AddKey(t, s[i], pressed) \in KeySets
    BY <1>1, AddKeyType
  <2> QED
    BY <2>1
<1>3. PICK g \in [0..n -> KeySets] :
        g[0] = {} /\ \A i \in 1..n : g[i] = step[i][g[i - 1]]
  <2> DEFINE T == KeySets
             b == {}
  <2>1. n \in Nat /\ b \in T /\ step \in [1..n -> [T -> T]]
    BY <1>1, <1>2
  <2>2. \E g \in [0..n -> T] : Steps(g, b, n, step)
    <3> HIDE DEF step, n, T, b
    <3> QED
      BY <2>1, StepsExist
  <2> QED
    BY <2>2 DEF Steps
<1>4. \A i \in 1..n : g[i] = AddKey(g[i - 1], s[i], pressed)
  <2> SUFFICES ASSUME NEW i \in 1..n
               PROVE  g[i] = AddKey(g[i - 1], s[i], pressed)
    OBVIOUS
  <2>1. g[i - 1] \in KeySets
    OBVIOUS
  <2>2. step[i][g[i - 1]] = AddKey(g[i - 1], s[i], pressed)
    BY <2>1
  <2> QED
    BY <1>3, <2>2
<1>5. g = Advance(g)
  <2>1. \A i \in 0..n : g[i] = Advance(g)[i]
    <3> SUFFICES ASSUME NEW i \in 0..n
                 PROVE  g[i] = Advance(g)[i]
      OBVIOUS
    <3>1. CASE i = 0
      BY <1>3, <3>1
    <3>2. CASE i # 0
      <4>1. i \in 1..n
        BY <3>2
      <4>2. Advance(g)[i] = AddKey(g[i - 1], s[i], pressed)
        BY <4>1
      <4> QED
        BY <1>4, <4>1, <4>2
    <3> QED
      BY <3>1, <3>2
  <2>2. DOMAIN g = 0..n /\ Advance(g) = [i \in 0..n |-> Advance(g)[i]]
    OBVIOUS
  <2> HIDE DEF Advance
  <2> QED
    BY <2>1, <2>2
<1>6. f = Advance(f)
  BY <1>5 DEF KeyScan
<1> HIDE DEF f
<1>7. f[0] = {}
  <2>1. Advance(f)[0] = {}
    OBVIOUS
  <2> HIDE DEF Advance
  <2> QED
    BY <1>6, <2>1
<1>8. \A i \in 1..n : f[i] = AddKey(f[i - 1], s[i], pressed)
  <2> SUFFICES ASSUME NEW i \in 1..n
               PROVE  f[i] = AddKey(f[i - 1], s[i], pressed)
    OBVIOUS
  <2>1. Advance(f)[i] = AddKey(f[i - 1], s[i], pressed)
    OBVIOUS
  <2> HIDE DEF Advance
  <2> QED
    BY <1>6, <2>1
<1>9. \A i \in 0..n : f[i] = g[i]
  <2>1. StepAlike(f, g, n)
    BY <1>3, <1>4, <1>7, <1>8 DEF StepAlike
  <2>2. Alike(f, g, n)
    BY <1>1, <2>1, SameSteps
  <2> QED
    BY <2>2 DEF Alike
<1>10. f \in [0..n -> KeySets]
  <2>1. f = [i \in 0..n |-> f[i]]
    <3>1. Advance(f) = [i \in 0..n |-> Advance(f)[i]]
      OBVIOUS
    <3> HIDE DEF Advance
    <3> QED
      BY <1>6, <3>1
  <2> QED
    BY <1>9, <2>1
<1> QED
  BY <1>7, <1>8, <1>10 DEF f

View(s, d) == PhoneViews(s, d)[Len(s)]

LEMMA ViewEmpty ==
  ASSUME NEW d
  PROVE  View(<<>>, d) = <<"none">>
<1>1. <<>> \in Seq(Packet) /\ Len(<<>>) = 0
  OBVIOUS
<1>2. PhoneViews(<<>>, d)[0] = <<"none">>
  BY <1>1, PhoneViewsSteps
<1> QED
  BY <1>1, <1>2 DEF View

(* What one more message does to the view of a pad.                        *)
LEMMA ViewAppend ==
  ASSUME NEW s \in Seq(Packet), NEW e \in Packet, NEW d
  PROVE  /\ View(s, d) \in Views
         /\ View(Append(s, e), d) = Seen(View(s, d), e, d)
<1> DEFINE t == Append(s, e)
           n == Len(s)
           f == PhoneViews(s, d)
           g == PhoneViews(t, d)
<1>1. n \in Nat /\ t \in Seq(Packet) /\ Len(t) = n + 1 /\ t[n + 1] = e
  OBVIOUS
<1>2. \A i \in 1..n : t[i] = s[i]
  OBVIOUS
<1>3. /\ f \in [0..n -> Views] /\ f[0] = <<"none">>
      /\ \A i \in 1..n : f[i] = Seen(f[i - 1], s[i], d)
  BY PhoneViewsSteps
<1>4. /\ g[0] = <<"none">>
      /\ \A i \in 1..(n + 1) : g[i] = Seen(g[i - 1], t[i], d)
  <2>1. \A u \in Seq(Packet) :
          /\ PhoneViews(u, d)[0] = <<"none">>
          /\ \A i \in 1..Len(u) : PhoneViews(u, d)[i] = Seen(PhoneViews(u, d)[i - 1], u[i], d)
    BY PhoneViewsSteps
  <2> HIDE DEF t, n
  <2> QED
    BY <1>1, <2>1
<1> HIDE DEF t, f, g, n
<1>5. StepAlike(f, g, n)
  <2>1. ASSUME NEW i \in 1..n, f[i - 1] = g[i - 1]
        PROVE  f[i] = g[i]
    <3>1. i \in 1..(n + 1) /\ t[i] = s[i]
      BY <1>1, <1>2
    <3>2. f[i] = Seen(f[i - 1], s[i], d) /\ g[i] = Seen(g[i - 1], t[i], d)
      BY <1>3, <1>4, <3>1
    <3> QED
      BY <2>1, <3>1, <3>2
  <2> QED
    BY <1>3, <1>4, <2>1 DEF StepAlike
<1>6. Alike(f, g, n)
  BY <1>1, <1>5, SameSteps
<1>7. f[n] = g[n] /\ f[n] \in Views
  BY <1>1, <1>3, <1>6 DEF Alike
<1>8. g[n + 1] = Seen(f[n], e, d)
  <2>1. n + 1 \in 1..(n + 1) /\ (n + 1) - 1 = n
    BY <1>1
  <2>2. g[n + 1] = Seen(g[(n + 1) - 1], t[n + 1], d)
    BY <1>4, <2>1
  <2> QED
    BY <1>1, <1>7, <2>1, <2>2
<1>9. View(s, d) = f[n] /\ View(t, d) = g[n + 1]
  BY <1>1 DEF View, f, g, n
<1> QED
  BY <1>7, <1>8, <1>9 DEF t

Wheel(s, a) == WheelSums(s, a)[Len(s)]

LEMMA WheelEmpty ==
  ASSUME NEW a \in Axes
  PROVE  Wheel(<<>>, a) = 0
<1>1. <<>> \in Seq(Packet) /\ Len(<<>>) = 0
  OBVIOUS
<1>2. WheelSums(<<>>, a)[0] = 0
  BY <1>1, WheelSumsSteps
<1> QED
  BY <1>1, <1>2 DEF Wheel

(* What one more message does to the wheel.                                *)
LEMMA WheelAppend ==
  ASSUME NEW s \in Seq(Packet), NEW e \in Packet, NEW a \in Axes
  PROVE  /\ Wheel(s, a) \in Int
         /\ Wheel(Append(s, e), a) = Turned(Wheel(s, a), e, a)
<1> DEFINE t == Append(s, e)
           n == Len(s)
           f == WheelSums(s, a)
           g == WheelSums(t, a)
<1>1. n \in Nat /\ t \in Seq(Packet) /\ Len(t) = n + 1 /\ t[n + 1] = e
  OBVIOUS
<1>2. \A i \in 1..n : t[i] = s[i]
  OBVIOUS
<1>3. /\ f \in [0..n -> Int] /\ f[0] = 0
      /\ \A i \in 1..n : f[i] = Turned(f[i - 1], s[i], a)
  BY WheelSumsSteps
<1>4. /\ g[0] = 0
      /\ \A i \in 1..(n + 1) : g[i] = Turned(g[i - 1], t[i], a)
  <2>1. \A u \in Seq(Packet) :
          /\ WheelSums(u, a)[0] = 0
          /\ \A i \in 1..Len(u) : WheelSums(u, a)[i] = Turned(WheelSums(u, a)[i - 1], u[i], a)
    BY WheelSumsSteps
  <2> HIDE DEF t, n
  <2> QED
    BY <1>1, <2>1
<1> HIDE DEF t, f, g, n
<1>5. StepAlike(f, g, n)
  <2>1. ASSUME NEW i \in 1..n, f[i - 1] = g[i - 1]
        PROVE  f[i] = g[i]
    <3>1. i \in 1..(n + 1) /\ t[i] = s[i]
      BY <1>1, <1>2
    <3>2. f[i] = Turned(f[i - 1], s[i], a) /\ g[i] = Turned(g[i - 1], t[i], a)
      BY <1>3, <1>4, <3>1
    <3> QED
      BY <2>1, <3>1, <3>2
  <2> QED
    BY <1>3, <1>4, <2>1 DEF StepAlike
<1>6. Alike(f, g, n)
  BY <1>1, <1>5, SameSteps
<1>7. f[n] = g[n] /\ f[n] \in Int
  BY <1>1, <1>3, <1>6 DEF Alike
<1>8. g[n + 1] = Turned(f[n], e, a)
  <2>1. n + 1 \in 1..(n + 1) /\ (n + 1) - 1 = n
    BY <1>1
  <2>2. g[n + 1] = Turned(g[(n + 1) - 1], t[n + 1], a)
    BY <1>4, <2>1
  <2> QED
    BY <1>1, <1>7, <2>1, <2>2
<1>9. Wheel(s, a) = f[n] /\ Wheel(t, a) = g[n + 1]
  BY <1>1 DEF Wheel, f, g, n
<1> QED
  BY <1>7, <1>8, <1>9 DEF t

Scanned(s, pressed) == KeyScan(s, pressed)[Len(s)]

LEMMA ScannedEmpty ==
  ASSUME NEW pressed
  PROVE  Scanned(<<>>, pressed) = {}
<1>1. <<>> \in Seq(Keys) /\ Len(<<>>) = 0
  OBVIOUS
<1>2. KeyScan(<<>>, pressed)[0] = {}
  BY <1>1, KeyScanSteps
<1> QED
  BY <1>1, <1>2 DEF Scanned

(* What one more key does to the report.                                   *)
LEMMA ScannedAppend ==
  ASSUME NEW s \in Seq(Keys), NEW e \in Keys, NEW pressed
  PROVE  /\ Scanned(s, pressed) \in KeySets
         /\ Scanned(Append(s, e), pressed) = AddKey(Scanned(s, pressed), e, pressed)
<1> DEFINE t == Append(s, e)
           n == Len(s)
           f == KeyScan(s, pressed)
           g == KeyScan(t, pressed)
<1>1. n \in Nat /\ t \in Seq(Keys) /\ Len(t) = n + 1 /\ t[n + 1] = e
  OBVIOUS
<1>2. \A i \in 1..n : t[i] = s[i]
  OBVIOUS
<1>3. /\ f \in [0..n -> KeySets] /\ f[0] = {}
      /\ \A i \in 1..n : f[i] = AddKey(f[i - 1], s[i], pressed)
  BY KeyScanSteps
<1>4. /\ g[0] = {}
      /\ \A i \in 1..(n + 1) : g[i] = AddKey(g[i - 1], t[i], pressed)
  <2>1. \A u \in Seq(Keys) :
          /\ KeyScan(u, pressed)[0] = {}
          /\ \A i \in 1..Len(u) : KeyScan(u, pressed)[i] = AddKey(KeyScan(u, pressed)[i - 1], u[i], pressed)
    BY KeyScanSteps
  <2> HIDE DEF t, n
  <2> QED
    BY <1>1, <2>1
<1> HIDE DEF t, f, g, n
<1>5. StepAlike(f, g, n)
  <2>1. ASSUME NEW i \in 1..n, f[i - 1] = g[i - 1]
        PROVE  f[i] = g[i]
    <3>1. i \in 1..(n + 1) /\ t[i] = s[i]
      BY <1>1, <1>2
    <3>2. f[i] = AddKey(f[i - 1], s[i], pressed) /\ g[i] = AddKey(g[i - 1], t[i], pressed)
      BY <1>3, <1>4, <3>1
    <3> QED
      BY <2>1, <3>1, <3>2
  <2> QED
    BY <1>3, <1>4, <2>1 DEF StepAlike
<1>6. Alike(f, g, n)
  BY <1>1, <1>5, SameSteps
<1>7. f[n] = g[n] /\ f[n] \in KeySets
  BY <1>1, <1>3, <1>6 DEF Alike
<1>8. g[n + 1] = AddKey(f[n], e, pressed)
  <2>1. n + 1 \in 1..(n + 1) /\ (n + 1) - 1 = n
    BY <1>1
  <2>2. g[n + 1] = AddKey(g[(n + 1) - 1], t[n + 1], pressed)
    BY <1>4, <2>1
  <2> QED
    BY <1>1, <1>7, <2>1, <2>2
<1>9. Scanned(s, pressed) = f[n] /\ Scanned(t, pressed) = g[n + 1]
  BY <1>1 DEF Scanned, f, g, n
<1> QED
  BY <1>7, <1>8, <1>9 DEF t

-----------------------------------------------------------------------------
(* A write that failed leaves the buffer as it was and may have sent its   *)
(* first messages: the buffer then arrives behind a part of itself.        *)

InputsOnly(p) == \A k \in 1..Len(p) : p[k].kind = "input"
Names(p, d)   == \E k \in 1..Len(p) : p[k].dev = d

LEMMA AppendNames ==
  ASSUME NEW p \in Seq(Packet), NEW m \in Packet
  PROVE  /\ InputsOnly(Append(p, m)) <=> (InputsOnly(p) /\ m.kind = "input")
         /\ \A d : Names(Append(p, m), d) <=> (Names(p, d) \/ m.dev = d)
<1> DEFINE t == Append(p, m)
           n == Len(p)
<1>1. n \in Nat /\ Len(t) = n + 1 /\ t[n + 1] = m /\ \A k \in 1..n : t[k] = p[k]
  OBVIOUS
<1>2. n + 1 \in 1..(n + 1) /\ \A k \in 1..(n + 1) : k \in 1..n \/ k = n + 1
  BY <1>1
<1>3. \A k \in 1..n : k \in 1..(n + 1)
  BY <1>1
<1> HIDE DEF t, n
<1>4. InputsOnly(t) <=> (InputsOnly(p) /\ m.kind = "input")
  BY <1>1, <1>2, <1>3 DEF InputsOnly, n
<1>5. \A d : Names(t, d) <=> (Names(p, d) \/ m.dev = d)
  BY <1>1, <1>2, <1>3 DEF Names, n
<1> QED
  BY <1>4, <1>5 DEF t

LEMMA NoNames == InputsOnly(<<>>) /\ \A d : ~Names(<<>>, d)
<1>1. Len(<<>>) = 0 /\ 1..0 = {}
  OBVIOUS
<1> QED
  BY <1>1, Zenon DEF InputsOnly, Names

\* What reports make of a view: they neither create nor destroy the device, and
\* once one names it the view is that report's, whatever it was before.
Reports(p, d) ==
  \A w \in Seq(Packet) :
    /\ View(w, d) = <<"none">> <=> View(w \o p, d) = <<"none">>
    /\ ~Names(p, d) => View(w \o p, d) = View(w, d)
    /\ \A x \in Seq(Packet) :
         /\ Names(p, d) /\ View(w, d) # <<"none">> /\ View(x, d) # <<"none">>
         => View(w \o p, d) = View(x \o p, d)

LEMMA ReportsView ==
  ASSUME NEW d, NEW p \in Seq(Packet), InputsOnly(p)
  PROVE  Reports(p, d)
<1> DEFINE P == {u \in Seq(Packet) : InputsOnly(u) => Reports(u, d)}
<1>1. <<>> \in P
  <2>1. \A w \in Seq(Packet) : w \o <<>> = w
    BY ConcatEmpty
  <2>2. <<>> \in Seq(Packet)
    OBVIOUS
  <2> QED
    BY <2>1, <2>2, NoNames, Zenon DEF Reports
<1>2. ASSUME NEW u \in Seq(Packet), NEW m \in Packet, u \in P
      PROVE  Append(u, m) \in P
  <2> DEFINE t == Append(u, m)
  <2>1. t \in Seq(Packet)
    OBVIOUS
  <2> SUFFICES ASSUME InputsOnly(t)
               PROVE  Reports(t, d)
    BY <2>1
  <2>2. InputsOnly(u) /\ m.kind = "input" /\ (Names(t, d) <=> (Names(u, d) \/ m.dev = d))
    BY AppendNames
  <2>3. Reports(u, d)
    BY <1>2, <2>2
  <2>4. \A w \in Seq(Packet) : View(w \o t, d) = Seen(View(w \o u, d), m, d)
    <3> SUFFICES ASSUME NEW w \in Seq(Packet)
                 PROVE  View(w \o t, d) = Seen(View(w \o u, d), m, d)
      OBVIOUS
    <3>1. w \o u \in Seq(Packet) /\ w \o t = Append(w \o u, m)
      BY ConcatAppend
    <3>2. \A z \in Seq(Packet) : View(Append(z, m), d) = Seen(View(z, d), m, d)
      BY ViewAppend
    <3> HIDE DEF t
    <3> QED
      BY <3>1, <3>2, Zenon
  <2>5. \A v : Seen(v, m, d) = IF m.dev # d \/ v = <<"none">> THEN v ELSE <<"on", m.body>>
    BY <2>2 DEF Seen
  <2>6. <<"on", m.body>> # <<"none">>
    OBVIOUS
  <2> HIDE DEF t
  <2>7. \A w \in Seq(Packet) :
          View(w \o t, d) = IF m.dev # d \/ View(w \o u, d) = <<"none">>
                            THEN View(w \o u, d) ELSE <<"on", m.body>>
    BY <2>4, <2>5
  <2> SUFFICES ASSUME NEW w \in Seq(Packet), NEW x \in Seq(Packet)
               PROVE  /\ View(w, d) = <<"none">> <=> View(w \o t, d) = <<"none">>
                      /\ ~Names(t, d) => View(w \o t, d) = View(w, d)
                      /\ Names(t, d) /\ View(w, d) # <<"none">> /\ View(x, d) # <<"none">>
                         => View(w \o t, d) = View(x \o t, d)
    BY DEF Reports
  <2>8. /\ View(w, d) = <<"none">> <=> View(w \o u, d) = <<"none">>
        /\ View(x, d) = <<"none">> <=> View(x \o u, d) = <<"none">>
        /\ ~Names(u, d) => View(w \o u, d) = View(w, d)
        /\ Names(u, d) /\ View(w, d) # <<"none">> /\ View(x, d) # <<"none">>
           => View(w \o u, d) = View(x \o u, d)
    BY <2>3 DEF Reports
  <2>9. /\ View(w \o t, d) = IF m.dev # d \/ View(w \o u, d) = <<"none">>
                              THEN View(w \o u, d) ELSE <<"on", m.body>>
        /\ View(x \o t, d) = IF m.dev # d \/ View(x \o u, d) = <<"none">>
                              THEN View(x \o u, d) ELSE <<"on", m.body>>
    BY <2>7
  <2> QED
    <3> DEFINE none == <<"none">>
               on == <<"on", m.body>>
               v1 == View(w, d)
               v2 == View(w \o u, d)
               v3 == View(w \o t, d)
               x1 == View(x, d)
               x2 == View(x \o u, d)
               x3 == View(x \o t, d)
               nu == Names(u, d)
               nt == Names(t, d)
               md == m.dev = d
    <3>1. (nt <=> (nu \/ md)) /\ on # none
      BY <2>2, <2>6
    <3>2. /\ v1 = none <=> v2 = none
          /\ x1 = none <=> x2 = none
          /\ ~nu => v2 = v1
          /\ (nu /\ v1 # none /\ x1 # none) => v2 = x2
      BY <2>8
    <3>3. /\ v3 = IF ~md \/ v2 = none THEN v2 ELSE on
          /\ x3 = IF ~md \/ x2 = none THEN x2 ELSE on
      BY <2>9
    <3> HIDE DEF none, on, v1, v2, v3, x1, x2, x3, nu, nt, md
    <3>4. /\ v1 = none <=> v3 = none
          /\ ~nt => v3 = v1
          /\ (nt /\ v1 # none /\ x1 # none) => v3 = x3
      BY <3>1, <3>2, <3>3
    <3> QED
      BY <3>4 DEF none, v1, v3, x1, x3, nt
<1>3. Seq(Packet) \subseteq P
  <2> HIDE DEF P
  <2> QED
    BY <1>1, <1>2, SeqSetInduction
<1> QED
  BY <1>3

\* The first k messages of p.
LEMMA PrefixFacts ==
  ASSUME NEW p \in Seq(Packet), NEW k \in 0..Len(p)
  PROVE  /\ SubSeq(p, 1, k) \in Seq(Packet) /\ Len(SubSeq(p, 1, k)) = k
         /\ \A j \in 1..k : j \in 1..Len(p) /\ SubSeq(p, 1, k)[j] = p[j]
<1>1. Len(p) \in Nat /\ k \in Nat /\ k <= Len(p)
  OBVIOUS
<1>2. \A j \in 1..k : j \in 1..Len(p) /\ p[j] \in Packet
  BY <1>1
<1>3. /\ SubSeq(p, 1, k) \in Seq(Packet)
      /\ Len(SubSeq(p, 1, k)) = IF 1 <= k THEN k - 1 + 1 ELSE 0
      /\ \A j \in 1..(k - 1 + 1) : SubSeq(p, 1, k)[j] = p[1 + j - 1]
  BY <1>1, <1>2, SubSeqProperties
<1> QED
  BY <1>1, <1>2, <1>3

LEMMA PrefixNames ==
  ASSUME NEW p \in Seq(Packet), NEW k \in 0..Len(p)
  PROVE  /\ InputsOnly(p) => InputsOnly(SubSeq(p, 1, k))
         /\ \A d : Names(SubSeq(p, 1, k), d) => Names(p, d)
  BY PrefixFacts DEF InputsOnly, Names

LEMMA ReplayView ==
  ASSUME NEW w \in Seq(Packet), NEW p \in Seq(Packet), InputsOnly(p),
         NEW k \in 0..Len(p), NEW d
  PROVE  View((w \o SubSeq(p, 1, k)) \o p, d) = View(w \o p, d)
<1> DEFINE q == SubSeq(p, 1, k)
           x == w \o q
<1>1. q \in Seq(Packet) /\ InputsOnly(q) /\ (Names(q, d) => Names(p, d))
  BY PrefixFacts, PrefixNames
<1> HIDE DEF q
<1>2. x \in Seq(Packet)
  BY <1>1
<1>3. Reports(p, d) /\ Reports(q, d)
  BY <1>1, ReportsView
<1>4. /\ View(w, d) = <<"none">> <=> View(x, d) = <<"none">>
      /\ ~Names(q, d) => View(x, d) = View(w, d)
  BY <1>3 DEF Reports
<1> HIDE DEF x
<1>5. View(x \o p, d) = View(w \o p, d)
  BY <1>1, <1>2, <1>3, <1>4, Zenon DEF Reports
<1> QED
  BY <1>5 DEF x, q

-----------------------------------------------------------------------------
(* The last message for a device.                                          *)

LastIs(s, d, b) ==
  \A n \in 1..Len(s) :
    (s[n].dev = d /\ \A l \in (n + 1)..Len(s) : s[l].dev # d) => s[n].body = b

LEMMA LastAppend ==
  ASSUME NEW s \in Seq(Packet), NEW m \in Packet, NEW d
  PROVE  /\ m.dev = d => LastIs(Append(s, m), d, m.body)
         /\ m.dev # d => \A b : LastIs(s, d, b) => LastIs(Append(s, m), d, b)
<1> DEFINE t == Append(s, m)
           n == Len(s)
<1>1. n \in Nat /\ Len(t) = n + 1 /\ t[n + 1] = m /\ \A k \in 1..n : t[k] = s[k]
  OBVIOUS
<1> HIDE DEF t
<1>2. ASSUME m.dev = d
      PROVE  LastIs(t, d, m.body)
  <2> SUFFICES ASSUME NEW k \in 1..(n + 1), \A l \in (k + 1)..(n + 1) : t[l].dev # d
               PROVE  t[k].body = m.body
    BY <1>1 DEF LastIs
  <2>1. k = n + 1
    BY <1>1, <1>2
  <2> QED
    BY <1>1, <2>1
<1>3. ASSUME m.dev # d, NEW b, LastIs(s, d, b)
      PROVE  LastIs(t, d, b)
  <2> SUFFICES ASSUME NEW k \in 1..(n + 1), t[k].dev = d,
                      \A l \in (k + 1)..(n + 1) : t[l].dev # d
               PROVE  t[k].body = b
    BY <1>1 DEF LastIs
  <2>1. k \in 1..n /\ t[k] = s[k]
    BY <1>1, <1>3
  <2>2. \A l \in (k + 1)..n : s[l].dev # d
    <3> SUFFICES ASSUME NEW l \in (k + 1)..n
                 PROVE  s[l].dev # d
      OBVIOUS
    <3>1. l \in (k + 1)..(n + 1) /\ l \in 1..n
      BY <1>1, <2>1
    <3> QED
      BY <1>1, <3>1
  <2> QED
    BY <1>3, <2>1, <2>2 DEF LastIs
<1> QED
  BY <1>2, <1>3 DEF t

LEMMA ReplayLast ==
  ASSUME NEW w \in Seq(Packet), NEW p \in Seq(Packet), NEW k \in 0..Len(p), NEW d,
         NEW b, LastIs(w \o p, d, b)
  PROVE  LastIs((w \o SubSeq(p, 1, k)) \o p, d, b)
<1> DEFINE q == SubSeq(p, 1, k)
           x == w \o q
           s == w \o p
           t == x \o p
<1>1. q \in Seq(Packet) /\ Len(q) = k /\ \A j \in 1..k : j \in 1..Len(p) /\ q[j] = p[j]
  BY PrefixFacts
<1>2. Len(w) \in Nat /\ Len(p) \in Nat /\ k \in Nat
  OBVIOUS
<1> HIDE DEF q
<1>3. /\ x \in Seq(Packet) /\ Len(x) = Len(w) + k
      /\ \A j \in 1..(Len(w) + k) : x[j] = IF j <= Len(w) THEN w[j] ELSE q[j - Len(w)]
  BY <1>1, ConcatProperties
<1>4. /\ s \in Seq(Packet) /\ Len(s) = Len(w) + Len(p)
      /\ \A j \in 1..(Len(w) + Len(p)) : s[j] = IF j <= Len(w) THEN w[j] ELSE p[j - Len(w)]
  BY ConcatProperties
<1> HIDE DEF x
<1>5. /\ Len(t) = Len(w) + k + Len(p)
      /\ \A j \in 1..(Len(w) + k + Len(p)) :
           t[j] = IF j <= Len(w) + k THEN x[j] ELSE p[j - (Len(w) + k)]
  <2>1. /\ Len(x \o p) = Len(x) + Len(p)
        /\ \A j \in 1..(Len(x) + Len(p)) :
             (x \o p)[j] = IF j <= Len(x) THEN x[j] ELSE p[j - Len(x)]
    BY <1>3, ConcatProperties
  <2>2. Len(x) = Len(w) + k
    BY <1>3
  <2> HIDE DEF t
  <2> QED
    BY <2>1, <2>2 DEF t
<1>6. LastIs(s, d, b)
  OBVIOUS
<1> HIDE DEF s, t
<1> SUFFICES ASSUME NEW n \in 1..Len(t), t[n].dev = d,
                    \A l \in (n + 1)..Len(t) : t[l].dev # d
             PROVE  t[n].body = b
  BY DEF LastIs, t, x, q
<1>7. \A j \in 1..Len(p) : /\ Len(w) + k + j \in 1..Len(t) /\ t[Len(w) + k + j] = p[j]
                           /\ Len(w) + j \in 1..Len(s) /\ s[Len(w) + j] = p[j]
  <2> SUFFICES ASSUME NEW j \in 1..Len(p)
               PROVE  /\ Len(w) + k + j \in 1..Len(t) /\ t[Len(w) + k + j] = p[j]
                      /\ Len(w) + j \in 1..Len(s) /\ s[Len(w) + j] = p[j]
    OBVIOUS
  <2>1. /\ Len(w) + k + j \in 1..(Len(w) + k + Len(p)) /\ ~(Len(w) + k + j <= Len(w) + k)
        /\ (Len(w) + k + j) - (Len(w) + k) = j
        /\ Len(w) + j \in 1..(Len(w) + Len(p)) /\ ~(Len(w) + j <= Len(w))
        /\ (Len(w) + j) - Len(w) = j
    BY <1>2
  <2> QED
    BY <1>4, <1>5, <2>1
<1>8. CASE n > Len(w) + k
  <2>1. PICK j \in 1..Len(p) : n = Len(w) + k + j
    <3>1. n - (Len(w) + k) \in 1..Len(p) /\ n = Len(w) + k + (n - (Len(w) + k))
      BY <1>2, <1>5, <1>8
    <3> QED
      BY <3>1
  <2>2. t[n] = p[j] /\ s[Len(w) + j] = p[j] /\ Len(w) + j \in 1..Len(s)
    BY <1>7, <2>1
  <2>3. \A l \in (Len(w) + j + 1)..Len(s) : s[l].dev # d
    <3> SUFFICES ASSUME NEW l \in (Len(w) + j + 1)..Len(s)
                 PROVE  s[l].dev # d
      OBVIOUS
    <3>1. l - Len(w) \in 1..Len(p) /\ l = Len(w) + (l - Len(w))
      BY <1>2, <1>4
    <3>2. s[l] = p[l - Len(w)] /\ t[Len(w) + k + (l - Len(w))] = p[l - Len(w)]
      BY <1>7, <3>1
    <3>3. Len(w) + k + (l - Len(w)) \in (n + 1)..Len(t)
      BY <1>2, <1>4, <1>5, <2>1, <3>1
    <3> QED
      BY <3>2, <3>3
  <2> QED
    BY <1>6, <2>2, <2>3 DEF LastIs
<1>9. CASE n <= Len(w) + k
  <2>1. \A j \in 1..Len(p) : p[j].dev # d
    <3> SUFFICES ASSUME NEW j \in 1..Len(p)
                 PROVE  p[j].dev # d
      OBVIOUS
    <3>1. Len(w) + k + j \in (n + 1)..Len(t)
      BY <1>2, <1>5, <1>9
    <3> QED
      BY <1>7, <3>1
  <2>2. n \in 1..(Len(w) + k + Len(p)) /\ n \in 1..(Len(w) + k)
    BY <1>2, <1>5, <1>9
  <2>3. t[n] = x[n]
    BY <1>5, <1>9, <2>2
  <2>4. n <= Len(w)
    <3> SUFFICES ASSUME ~(n <= Len(w))
                 PROVE  FALSE
      OBVIOUS
    <3>1. n - Len(w) \in 1..k
      BY <1>2, <2>2
    <3>2. x[n] = q[n - Len(w)]
      BY <1>3, <2>2
    <3>3. q[n - Len(w)] = p[n - Len(w)] /\ n - Len(w) \in 1..Len(p)
      BY <1>1, <3>1
    <3> QED
      BY <2>1, <2>3, <3>2, <3>3
  <2>5. n \in 1..(Len(w) + Len(p)) /\ x[n] = w[n] /\ s[n] = w[n]
    BY <1>2, <1>3, <1>4, <2>2, <2>4
  <2>6. \A l \in (n + 1)..Len(s) : s[l].dev # d
    <3> SUFFICES ASSUME NEW l \in (n + 1)..Len(s)
                 PROVE  s[l].dev # d
      OBVIOUS
    <3>1. l \in 1..(Len(w) + Len(p)) /\ n \in Nat
      BY <1>2, <1>4, <2>2
    <3>2. CASE l <= Len(w)
      <4>1. l \in 1..(Len(w) + k) /\ l \in 1..(Len(w) + k + Len(p)) /\ l \in (n + 1)..Len(t)
            /\ l <= Len(w) + k
        BY <1>2, <1>5, <3>1, <3>2
      <4>2. s[l] = w[l] /\ t[l] = x[l] /\ x[l] = w[l]
        BY <1>3, <1>4, <1>5, <3>1, <3>2, <4>1
      <4> QED
        BY <4>1, <4>2
    <3>3. CASE ~(l <= Len(w))
      <4>1. l - Len(w) \in 1..Len(p)
        BY <1>2, <3>1, <3>3
      <4>2. s[l] = p[l - Len(w)]
        BY <1>4, <3>1, <3>3
      <4> QED
        BY <2>1, <4>1, <4>2
    <3> QED
      BY <3>2, <3>3
  <2> QED
    BY <1>4, <1>6, <2>3, <2>5, <2>6 DEF LastIs
<1> QED
  BY <1>2, <1>8, <1>9

-----------------------------------------------------------------------------
(* The writer, as the drivers use it.                                      *)

WriterOK ==
  /\ wire \in Seq(Packet) /\ pending \in Seq(Packet) /\ accepted \in Seq(Packet)
  /\ pushed \in Nat /\ faults \in Nat
  /\ direct => pending = <<>>
  /\ InputsOnly(pending)

\* What is sent is what was sent, perhaps with a part of the buffer twice.
Replays(p) == \E k \in 0..Len(p) : Sent' = (wire \o SubSeq(p, 1, k)) \o p

\* What a push of m does: it is sent or buffered behind everything else, or it
\* is lost, and only in a failed push.
Outcome(m) ==
  \/ Sent' = Append(Sent, m)
  \/ Failed /\ Sent' = Sent
  \/ Failed /\ Replays(pending)
  \/ Failed /\ m.kind = "input" /\ Replays(Append(pending, m))

Accepts(m) ==
  \/ accepted' = Append(accepted, m) /\ faults <= faults'
  \/ /\ accepted' = accepted /\ faults' = faults + 1
     /\ direct \/ m.critical

LEMMA LandFacts ==
  ASSUME wire \in Seq(Packet), NEW b \in Seq(Packet), NEW k \in 0..Len(b),
         W!Lands(b, k)
  PROVE  wire' = wire \o SubSeq(b, 1, k) /\ wire' \in Seq(Packet)
<1>1. SubSeq(b, 1, k) \in Seq(Packet)
  BY PrefixFacts
<1>2. wire' = wire \o SubSeq(b, 1, k)
  BY DEF W!Lands
<1> QED
  BY <1>1, <1>2

\* flush_now with p in the buffer.
LEMMA FlushOutcome ==
  ASSUME WriterOK, NEW p \in Seq(Packet), NEW n, InputsOnly(p), direct => p = <<>>,
         W!FlushOk(p, n) \/ W!FlushErr(p, n)
  PROVE  /\ wire' \in Seq(Packet) /\ pending' \in Seq(Packet) /\ InputsOnly(pending')
         /\ direct => pending' = <<>>
         /\ faults' \in Nat /\ faults <= faults'
         /\ W!FlushOk(p, n) => Sent' = wire \o p
         /\ W!FlushErr(p, n) => Replays(p)
<1>1. wire \in Seq(Packet) /\ faults \in Nat /\ <<>> \in Seq(Packet)
  BY DEF WriterOK
<1>2. W!FlushOk(p, n) => /\ wire' = wire \o p /\ pending' = <<>> /\ faults' = faults
  BY DEF W!FlushOk, W!WriteOk
<1>3. ASSUME W!FlushErr(p, n)
      PROVE  /\ wire' \in Seq(Packet) /\ pending' = p /\ faults' = faults + 1
             /\ Replays(p)
  <2>1. PICK k \in 0..Len(p) : W!Lands(p, k)
    BY <1>3 DEF W!FlushErr, W!WriteErr
  <2>2. wire' = wire \o SubSeq(p, 1, k) /\ wire' \in Seq(Packet)
    BY <1>1, <2>1, LandFacts
  <2>3. pending' = p /\ faults' = faults + 1
    BY <1>3 DEF W!FlushErr, W!WriteErr
  <2> QED
    BY <2>2, <2>3 DEF Replays, Sent
<1>4. CASE W!FlushOk(p, n)
  <2>1. wire \o p \in Seq(Packet)
    BY <1>1
  <2>2. Sent' = wire \o p
    <3>1. (wire \o p) \o <<>> = wire \o p
      BY <2>1, ConcatEmpty
    <3> QED
      BY <1>2, <1>4, <3>1 DEF Sent
  <2>3. W!FlushErr(p, n) => Replays(p)
    BY <1>3
  <2>4. InputsOnly(pending') /\ pending' = <<>>
    BY <1>2, <1>4, NoNames, Zenon
  <2>5. wire' \in Seq(Packet) /\ pending' \in Seq(Packet) /\ faults' = faults
    BY <1>1, <1>2, <1>4, <2>1
  <2> QED
    BY <1>1, <2>2, <2>3, <2>4, <2>5
<1>5. CASE W!FlushErr(p, n)
  <2>1. W!FlushOk(p, n) => Sent' = wire \o p
    BY <1>1, <1>2, <1>3, <1>5
  <2> QED
    BY <1>1, <1>3, <1>5, <2>1
<1> QED
  BY <1>4, <1>5

LEMMA SentFacts ==
  ASSUME WriterOK, NEW m \in Packet
  PROVE  /\ Sent \in Seq(Packet) /\ Append(pending, m) \in Seq(Packet)
         /\ wire \o Append(pending, m) = Append(Sent, m)
         /\ Append(accepted, m) \in Seq(Packet)
  BY ConcatAppend DEF WriterOK, Sent

LEMMA BufferOutcome ==
  ASSUME WriterOK, NEW m \in Packet, m.kind = "input", ~direct, W!BufferMsg(m)
  PROVE  WriterOK' /\ Outcome(m) /\ direct' = direct /\ Accepts(m)
<1> DEFINE p == Append(pending, m)
           n == pendingLen + m.size
<1>1. p \in Seq(Packet) /\ InputsOnly(p) /\ wire \o p = Append(Sent, m)
      /\ accepted' \in Seq(Packet) /\ accepted' = Append(accepted, m)
  BY SentFacts, AppendNames DEF WriterOK, W!BufferMsg
<1>2. direct' = direct /\ pushed' \in Nat
  BY DEF W!BufferMsg, W!control, WriterOK
<1>3. \/ W!FlushOk(p, n)
      \/ W!FlushErr(p, n) /\ last' = "Err"
      \/ W!Keep(p, n)
  BY DEF W!BufferMsg, W!FlushNow
<1> HIDE DEF p, n
<1>4. CASE W!Keep(p, n)
  <2>1. pending' = p /\ wire' = wire /\ faults' = faults
    BY <1>4 DEF W!Keep
  <2>2. Sent' = Append(Sent, m)
    BY <1>1, <2>1 DEF Sent
  <2> QED
    BY <1>1, <1>2, <2>1, <2>2 DEF WriterOK, Outcome, Accepts
<1>5. CASE W!FlushOk(p, n) \/ (W!FlushErr(p, n) /\ last' = "Err")
  <2>1. /\ wire' \in Seq(Packet) /\ pending' \in Seq(Packet) /\ InputsOnly(pending')
        /\ faults' \in Nat /\ faults <= faults'
        /\ W!FlushOk(p, n) => Sent' = wire \o p
        /\ W!FlushErr(p, n) => Replays(p)
    BY <1>1, <1>5, FlushOutcome
  <2>2. Outcome(m)
    BY <1>1, <1>5, <2>1 DEF Outcome, Failed, p
  <2> QED
    BY <1>1, <1>2, <2>1, <2>2 DEF WriterOK, Accepts
<1> QED
  BY <1>3, <1>4, <1>5

LEMMA CriticalOutcome ==
  ASSUME WriterOK, NEW m \in Packet, m.critical, ~direct, W!CriticalMsg(m)
  PROVE  WriterOK' /\ Outcome(m) /\ direct' = direct /\ Accepts(m)
<1> DEFINE b == Append(pending, m)
<1>1. /\ b \in Seq(Packet) /\ wire \o b = Append(Sent, m) /\ Sent \in Seq(Packet)
      /\ Append(accepted, m) \in Seq(Packet) /\ Append(Sent, m) \in Seq(Packet)
  <2>1. Sent \in Seq(Packet)
    BY SentFacts
  <2>2. Append(Sent, m) \in Seq(Packet)
    BY <2>1
  <2> QED
    BY <2>1, <2>2, SentFacts
<1>2. direct' = direct /\ pushed' \in Nat /\ faults \in Nat /\ wire \in Seq(Packet)
      /\ pending \in Seq(Packet) /\ accepted \in Seq(Packet) /\ InputsOnly(pending)
  BY DEF W!CriticalMsg, W!control, WriterOK
<1>3. <<>> \in Seq(Packet) /\ InputsOnly(<<>>)
  BY NoNames
<1>4. CASE W!FlushErr(pending, pendingLen) /\ last' = "Err" /\ accepted' = accepted
  <2>1. /\ wire' \in Seq(Packet) /\ pending' \in Seq(Packet) /\ InputsOnly(pending')
        /\ faults' \in Nat /\ Replays(pending)
    BY <1>2, <1>4, FlushOutcome
  <2>2. faults' = faults + 1
    BY <1>4 DEF W!FlushErr, W!WriteErr
  <2> QED
    BY <1>2, <1>4, <2>1, <2>2 DEF WriterOK, Outcome, Failed, Accepts
<1>5. CASE /\ W!WriteOk(b) /\ pending' = <<>>
           /\ accepted' = Append(accepted, m)
  <2>1. wire' = Append(Sent, m) /\ faults' = faults
    BY <1>1, <1>5 DEF W!WriteOk
  <2>2. Sent' = Append(Sent, m)
    BY <1>1, <1>5, <2>1, ConcatEmpty DEF Sent
  <2> QED
    BY <1>1, <1>2, <1>3, <1>5, <2>1, <2>2 DEF WriterOK, Outcome, Accepts
<1>6. CASE /\ faults' = faults + 1
           /\ \E k \in {0, 1} : W!Lands(b, Len(pending) + k)
           /\ pending' = <<>> /\ last' = "Err" /\ accepted' = accepted
  <2>1. PICK k \in {0, 1} : W!Lands(b, Len(pending) + k)
    BY <1>6
  <2>2. Len(b) = Len(pending) + 1 /\ Len(pending) \in Nat
    BY <1>2
  <2>3. wire' = wire \o SubSeq(b, 1, Len(pending) + k) /\ wire' \in Seq(Packet)
    <3>1. Len(pending) + k \in 0..Len(b)
      BY <2>2
    <3> HIDE DEF b
    <3> QED
      BY <1>1, <1>2, <2>1, <3>1, LandFacts
  <2>4. SubSeq(b, 1, Len(pending)) = pending /\ SubSeq(b, 1, Len(pending) + 1) = b
    <3>1. /\ \A j \in 1..Len(pending) : b[j] = pending[j]
          /\ Len(pending) \in 0..Len(b)
      BY <1>2, <2>2
    <3>2. SubSeq(b, 1, Len(b)) = b
      BY <1>1, SubSeqFull
    <3> HIDE DEF b
    <3>3. /\ SubSeq(b, 1, Len(pending)) \in Seq(Packet)
          /\ Len(SubSeq(b, 1, Len(pending))) = Len(pending)
          /\ \A j \in 1..Len(pending) : SubSeq(b, 1, Len(pending))[j] = b[j]
      BY <1>1, <3>1, PrefixFacts
    <3>4. SubSeq(b, 1, Len(pending)) = pending
      BY <1>2, <3>1, <3>3, SeqEqual
    <3> QED
      BY <2>2, <3>2, <3>4
  <2>5. wire' = Sent \/ wire' = Append(Sent, m)
    <3>1. wire' = wire \o pending \/ wire' = wire \o b
      <4>1. CASE k = 0
        <5>1. Len(pending) + k = Len(pending)
          BY <2>2, <4>1
        <5> QED
          BY <2>3, <2>4, <5>1, Zenon
      <4>2. CASE k = 1
        BY <2>3, <2>4, <4>2, Zenon
      <4> QED
        BY <4>1, <4>2
    <3> QED
      BY <1>1, <3>1 DEF Sent
  <2>6. Sent' = wire'
    BY <1>6, <2>3, ConcatEmpty DEF Sent
  <2>7. Outcome(m)
    BY <1>6, <2>5, <2>6, Zenon DEF Outcome, Failed
  <2>8. Accepts(m)
    BY <1>6 DEF Accepts
  <2>9. WriterOK'
    <3>1. InputsOnly(pending')
      BY <1>3, <1>6, Zenon
    <3> QED
      BY <1>2, <1>3, <1>6, <2>3, <3>1 DEF WriterOK
  <2> QED
    BY <1>2, <2>7, <2>8, <2>9
<1> QED
  BY <1>4, <1>5, <1>6 DEF W!CriticalMsg

LEMMA DirectOutcome ==
  ASSUME WriterOK, NEW m \in Packet, direct, W!DirectMsg(m)
  PROVE  WriterOK' /\ Outcome(m) /\ direct' = direct /\ Accepts(m)
<1>1. /\ pending = <<>> /\ pending' = <<>> /\ direct' = direct /\ pushed' \in Nat
      /\ wire \in Seq(Packet) /\ accepted \in Seq(Packet) /\ faults \in Nat
      /\ InputsOnly(pending') /\ pending' \in Seq(Packet)
  <2>1. InputsOnly(<<>>) /\ <<>> \in Seq(Packet)
    BY NoNames
  <2>2. pending = <<>> /\ pending' = pending /\ direct' = direct
    BY DEF WriterOK, W!DirectMsg, W!control
  <2> QED
    BY <2>1, <2>2 DEF WriterOK, W!DirectMsg
<1>2. /\ Sent = wire /\ <<m>> \in Seq(Packet) /\ wire \o <<m>> = Append(wire, m)
      /\ Append(wire, m) \in Seq(Packet) /\ Append(accepted, m) \in Seq(Packet)
  <2>1. Sent = wire
    BY <1>1, ConcatEmpty DEF Sent
  <2> QED
    BY <1>1, <2>1
<1>3. ASSUME wire' \in Seq(Packet)
      PROVE  Sent' = wire'
  BY <1>1, <1>3, ConcatEmpty DEF Sent
<1>4. CASE W!WriteOk(<<m>>) /\ accepted' = Append(accepted, m)
  <2>1. wire' = Append(wire, m) /\ faults' = faults
    BY <1>2, <1>4 DEF W!WriteOk
  <2>2. Sent' = Append(Sent, m)
    BY <1>2, <1>3, <2>1
  <2> QED
    BY <1>1, <1>2, <1>4, <2>1, <2>2 DEF WriterOK, Outcome, Accepts
<1>5. CASE W!WriteErr(<<m>>) /\ last' = "Err" /\ accepted' = accepted
  <2>1. PICK k \in 0..Len(<<m>>) : W!Lands(<<m>>, k)
    BY <1>5 DEF W!WriteErr
  <2>2. faults' = faults + 1
    BY <1>5 DEF W!WriteErr
  <2>3. wire' = wire \o SubSeq(<<m>>, 1, k) /\ wire' \in Seq(Packet)
    BY <1>1, <1>2, <2>1, LandFacts
  <2>4. SubSeq(<<m>>, 1, k) = <<>> \/ SubSeq(<<m>>, 1, k) = <<m>>
    <3>1. k = 0 \/ k = Len(<<m>>)
      OBVIOUS
    <3>2. SubSeq(<<m>>, 1, Len(<<m>>)) = <<m>>
      BY <1>2, SubSeqFull
    <3>3. SubSeq(<<m>>, 1, 0) = <<>>
      OBVIOUS
    <3> QED
      BY <3>1, <3>2, <3>3
  <2>5. wire' = Sent \/ wire' = Append(Sent, m)
    BY <1>1, <1>2, <2>3, <2>4, ConcatEmpty
  <2>6. Sent' = wire'
    BY <1>3, <2>3
  <2>7. Outcome(m)
    BY <1>5, <2>5, <2>6, Zenon DEF Outcome, Failed
  <2>8. Accepts(m)
    BY <1>5, <2>2 DEF Accepts
  <2>9. WriterOK'
    BY <1>1, <1>5, <2>2, <2>3 DEF WriterOK
  <2> QED
    BY <1>1, <2>7, <2>8, <2>9
<1> QED
  BY <1>4, <1>5 DEF W!DirectMsg

LEMMA PushOutcome ==
  ASSUME WriterOK, NEW m \in Packet, m.critical <=> m.kind # "input", W!Push(m)
  PROVE  WriterOK' /\ Outcome(m) /\ direct' = direct /\ Accepts(m)
<1>1. CASE direct
  BY <1>1, DirectOutcome DEF W!Push
<1>2. CASE ~direct /\ m.critical
  BY <1>2, CriticalOutcome DEF W!Push
<1>3. CASE ~direct /\ ~m.critical
  BY <1>3, BufferOutcome DEF W!Push
<1> QED
  BY <1>1, <1>2, <1>3

\* A replayed buffer of reports changes nothing of what the phone will have.
LEMMA ReplayKeeps ==
  ASSUME wire \in Seq(Packet), NEW p \in Seq(Packet), InputsOnly(p), Replays(p)
  PROVE  /\ \A d : View(Sent', d) = View(wire \o p, d)
         /\ \A d, b : LastIs(wire \o p, d, b) => LastIs(Sent', d, b)
<1>1. PICK k \in 0..Len(p) : Sent' = (wire \o SubSeq(p, 1, k)) \o p
  BY DEF Replays
<1>2. ASSUME NEW d
      PROVE  View(Sent', d) = View(wire \o p, d)
  <2>1. View((wire \o SubSeq(p, 1, k)) \o p, d) = View(wire \o p, d)
    BY ReplayView
  <2> QED
    BY <1>1, <2>1, Zenon
<1>3. ASSUME NEW d, NEW b, LastIs(wire \o p, d, b)
      PROVE  LastIs(Sent', d, b)
  <2>1. LastIs((wire \o SubSeq(p, 1, k)) \o p, d, b)
    BY <1>3, ReplayLast
  <2> QED
    BY <1>1, <2>1, Zenon
<1> QED
  BY <1>2, <1>3

\* What the phone gets of a pad and of a keyboard through a push.
LEMMA PushViews ==
  ASSUME WriterOK, NEW m \in Packet, Outcome(m)
  PROVE  /\ \/ \A d : PhonePad(d)' = Seen(PhonePad(d), m, d)
            \/ Failed /\ \A d : PhonePad(d)' = PhonePad(d)
         /\ \A d, b : LastIs(Sent, d, b) /\ m.dev # d => LastIs(Sent', d, b)
         /\ \A d : ~Failed /\ m.dev = d => LastIs(Sent', d, m.body)
<1>1. /\ Sent \in Seq(Packet) /\ wire \in Seq(Packet) /\ pending \in Seq(Packet)
      /\ Append(pending, m) \in Seq(Packet) /\ wire \o Append(pending, m) = Append(Sent, m)
      /\ wire \o pending = Sent /\ InputsOnly(pending)
  BY SentFacts DEF WriterOK, Sent
<1>2. \A d : PhonePad(d) = View(Sent, d) /\ PhonePad(d)' = View(Sent', d)
  BY DEF PhonePad, View
<1>3. \A d : View(Append(Sent, m), d) = Seen(View(Sent, d), m, d)
  BY <1>1, ViewAppend
<1>4. /\ \A d, b : LastIs(Sent, d, b) /\ m.dev # d => LastIs(Append(Sent, m), d, b)
      /\ \A d : m.dev = d => LastIs(Append(Sent, m), d, m.body)
  BY <1>1, LastAppend
<1>5. CASE Sent' = Append(Sent, m)
  BY <1>2, <1>3, <1>4, <1>5
<1>6. CASE Failed /\ Sent' = Sent
  BY <1>2, <1>6
<1>7. CASE Failed /\ Replays(pending)
  <2>1. /\ \A d : View(Sent', d) = View(wire \o pending, d)
        /\ \A d, b : LastIs(wire \o pending, d, b) => LastIs(Sent', d, b)
    BY <1>1, <1>7, ReplayKeeps
  <2>2. /\ \A d : View(Sent', d) = View(Sent, d)
        /\ \A d, b : LastIs(Sent, d, b) => LastIs(Sent', d, b)
    BY <1>1, <2>1, Zenon
  <2> QED
    BY <1>2, <1>7, <2>2, Zenon
<1>8. CASE Failed /\ m.kind = "input" /\ Replays(Append(pending, m))
  <2> DEFINE p == Append(pending, m)
  <2>1. InputsOnly(p)
    BY <1>1, <1>8, AppendNames
  <2>2. p \in Seq(Packet) /\ wire \o p = Append(Sent, m) /\ Replays(p)
    BY <1>1, <1>8
  <2> HIDE DEF p
  <2>3. /\ \A d : View(Sent', d) = View(wire \o p, d)
        /\ \A d, b : LastIs(wire \o p, d, b) => LastIs(Sent', d, b)
    BY <1>1, <2>1, <2>2, ReplayKeeps
  <2>4. /\ \A d : View(Sent', d) = View(Append(Sent, m), d)
        /\ \A d, b : LastIs(Append(Sent, m), d, b) => LastIs(Sent', d, b)
    BY <2>2, <2>3, Zenon
  <2> QED
    BY <1>2, <1>3, <1>4, <1>8, <2>4, Zenon
<1> QED
  BY <1>5, <1>6, <1>7, <1>8 DEF Outcome

\* A flush changes nothing of what the phone will have.
LEMMA FlushViews ==
  ASSUME WriterOK, W!ExplicitFlush
  PROVE  /\ WriterOK' /\ direct' = direct /\ accepted' = accepted /\ faults <= faults'
         /\ \A d : PhonePad(d)' = PhonePad(d)
         /\ \A d, b : LastIs(Sent, d, b) => LastIs(Sent', d, b)
<1>1. /\ Sent \in Seq(Packet) /\ wire \in Seq(Packet) /\ pending \in Seq(Packet)
      /\ wire \o pending = Sent /\ InputsOnly(pending)
      /\ direct => pending = <<>>
      /\ faults \in Nat /\ pushed \in Nat /\ accepted \in Seq(Packet)
  <2>1. wire \in Seq(Packet) /\ pending \in Seq(Packet)
    BY DEF WriterOK
  <2>2. wire \o pending \in Seq(Packet)
    BY <2>1
  <2> QED
    BY <2>2 DEF WriterOK, Sent
<1>2. pushed' = pushed /\ accepted' = accepted /\ direct' = direct
  BY DEF W!ExplicitFlush, W!control
<1>3. W!FlushOk(pending, pendingLen) \/ W!FlushErr(pending, pendingLen)
  BY DEF W!ExplicitFlush, W!FlushNow
<1>4. /\ wire' \in Seq(Packet) /\ pending' \in Seq(Packet) /\ InputsOnly(pending')
      /\ direct => pending' = <<>>
      /\ faults' \in Nat /\ faults <= faults'
      /\ Sent' = Sent \/ Replays(pending)
  BY <1>1, <1>3, FlushOutcome
<1>5. WriterOK'
  BY <1>1, <1>2, <1>4 DEF WriterOK
<1>6. \A d : PhonePad(d) = View(Sent, d) /\ PhonePad(d)' = View(Sent', d)
  BY DEF PhonePad, View
<1>7. CASE Sent' = Sent
  BY <1>2, <1>4, <1>5, <1>6, <1>7
<1>8. CASE Replays(pending)
  <2>1. /\ \A d : View(Sent', d) = View(wire \o pending, d)
        /\ \A d, b : LastIs(wire \o pending, d, b) => LastIs(Sent', d, b)
    BY <1>1, <1>8, ReplayKeeps
  <2>2. /\ \A d : View(Sent', d) = View(Sent, d)
        /\ \A d, b : LastIs(Sent, d, b) => LastIs(Sent', d, b)
    BY <1>1, <2>1, Zenon
  <2> QED
    BY <1>2, <1>4, <1>5, <1>6, <2>2
<1> QED
  BY <1>4, <1>7, <1>8

-----------------------------------------------------------------------------
(* The keyboard's report.                                                  *)

Listed(u)   == {u[i] : i \in 1..Len(u)}
Unrepeated(u) == \A i, j \in 1..Len(u) : u[i] = u[j] => i = j

\* The key slots of a report with these keys held.
Slotted(pressed) == IF Cardinality(pressed) <= MaxKeys THEN pressed ELSE {"rollover"}

\* The order of the scan has every key once.
LEMMA ScanOrder ==
  /\ SetToSeq(Keys) \in Seq(Keys) /\ Listed(SetToSeq(Keys)) = Keys
  /\ Unrepeated(SetToSeq(Keys))
<1> DEFINE n == Cardinality(Keys)
           f == SetToSeq(Keys)
<1>1. IsFiniteSet(Keys) /\ n \in Nat /\ ExistsBijection(1..n, Keys)
  BY DriverAssumption, FS_CardinalityType
<1>2. \E g \in [1..n -> Keys] : IsInjective(g)
  BY <1>1 DEF ExistsBijection, Bijection, Injection, IsInjective
<1>3. f \in [1..n -> Keys] /\ IsInjective(f)
  BY <1>2 DEF SetToSeq
<1> HIDE DEF f
<1>4. IsFiniteSet(1..n) /\ Cardinality(1..n) = n
  BY <1>1, FS_Interval
<1>5. f \in Injection(1..n, Keys)
  BY <1>3 DEF Injection, IsInjective
<1>6. f \in Surjection(1..n, Keys)
  BY <1>1, <1>4, <1>5, FS_Injection
<1> HIDE DEF n
<1>7. f \in Seq(Keys) /\ Len(f) = n
  BY <1>1, <1>3
<1>8. Unrepeated(f)
  BY <1>3, <1>7 DEF Unrepeated, IsInjective
<1>9. Listed(f) = Keys
  BY <1>3, <1>6, <1>7 DEF Listed, Surjection
<1> QED
  BY <1>7, <1>8, <1>9 DEF f

LEMMA ListedAppend ==
  ASSUME NEW u \in Seq(Keys), NEW k \in Keys, Unrepeated(Append(u, k))
  PROVE  Listed(Append(u, k)) = Listed(u) \cup {k} /\ Unrepeated(u) /\ k \notin Listed(u)
         /\ Listed(u) \subseteq Keys
<1> DEFINE t == Append(u, k)
           n == Len(u)
<1>1. n \in Nat /\ Len(t) = n + 1 /\ t[n + 1] = k /\ \A i \in 1..n : t[i] = u[i]
  OBVIOUS
<1>2. n + 1 \in 1..(n + 1) /\ (\A i \in 1..n : i \in 1..(n + 1) /\ i # n + 1)
      /\ \A i \in 1..(n + 1) : i \in 1..n \/ i = n + 1
  BY <1>1
<1>3. Unrepeated(t)
  OBVIOUS
<1>4. \A i \in 1..n : u[i] \in Keys
  OBVIOUS
<1> HIDE DEF t, n
<1>5. Listed(t) = Listed(u) \cup {k}
  BY <1>1, <1>2 DEF Listed, n
<1>6. Unrepeated(u)
  BY <1>1, <1>2, <1>3 DEF Unrepeated, n
<1>7. k \notin Listed(u)
  BY <1>1, <1>2, <1>3 DEF Unrepeated, Listed, n
<1>8. Listed(u) \subseteq Keys
  BY <1>4 DEF Listed, n
<1> QED
  BY <1>5, <1>6, <1>7, <1>8 DEF t

\* One more key of the scan.
LEMMA SlottedMore ==
  ASSUME NEW S, S \subseteq Keys, NEW k \in Keys, k \notin S, NEW pressed
  PROVE  AddKey(Slotted(S), k, pressed) = Slotted(IF k \in pressed THEN S \cup {k} ELSE S)
<1>1. IsFiniteSet(S) /\ "rollover" \notin Keys /\ MaxKeys \in Nat
  BY DriverAssumption, FS_Subset
<1>2. /\ Cardinality(S) \in Nat
      /\ Cardinality(S \cup {k}) = Cardinality(S) + 1
  BY <1>1, FS_AddElement, FS_CardinalityType
<1>3. S # {"rollover"}
  BY <1>1
<1>4. CASE k \notin pressed
  BY <1>4 DEF AddKey
<1>5. CASE k \in pressed /\ Cardinality(S) > MaxKeys
  <2>1. Slotted(S) = {"rollover"} /\ Slotted(S \cup {k}) = {"rollover"}
    BY <1>1, <1>2, <1>5 DEF Slotted
  <2> QED
    BY <1>5, <2>1 DEF AddKey
<1>6. CASE k \in pressed /\ Cardinality(S) <= MaxKeys
  <2>1. Slotted(S) = S
    BY <1>6 DEF Slotted
  <2>2. AddKey(S, k, pressed) = IF Cardinality(S) >= MaxKeys THEN {"rollover"} ELSE S \cup {k}
    BY <1>3, <1>6 DEF AddKey
  <2>3. Slotted(S \cup {k}) = IF Cardinality(S) >= MaxKeys THEN {"rollover"} ELSE S \cup {k}
    BY <1>1, <1>2 DEF Slotted
  <2> QED
    BY <1>6, <2>1, <2>2, <2>3
<1> QED
  BY <1>1, <1>2, <1>4, <1>5, <1>6

\* The scan of build_report over any keys.
LEMMA ScanIs ==
  ASSUME NEW pressed
  PROVE  \A u \in Seq(Keys) :
           Unrepeated(u) => Scanned(u, pressed) = Slotted(pressed \cap Listed(u))
<1> DEFINE P == {u \in Seq(Keys) :
                   Unrepeated(u) => Scanned(u, pressed) = Slotted(pressed \cap Listed(u))}
<1>1. <<>> \in P
  <2>1. Listed(<<>>) = {}
    <3>1. Len(<<>>) = 0 /\ 1..0 = {}
      OBVIOUS
    <3> QED
      BY <3>1, Zenon DEF Listed
  <2>2. Slotted({}) = {}
    BY FS_EmptySet, DriverAssumption DEF Slotted
  <2>3. pressed \cap {} = {}
    OBVIOUS
  <2>4. Scanned(<<>>, pressed) = Slotted(pressed \cap Listed(<<>>))
    BY <2>1, <2>2, <2>3, ScannedEmpty, Zenon
  <2>5. <<>> \in Seq(Keys)
    OBVIOUS
  <2> QED
    BY <2>4, <2>5
<1>2. ASSUME NEW u \in Seq(Keys), NEW k \in Keys, u \in P
      PROVE  Append(u, k) \in P
  <2> DEFINE t == Append(u, k)
             S == pressed \cap Listed(u)
  <2>1. t \in Seq(Keys)
    OBVIOUS
  <2> SUFFICES ASSUME Unrepeated(t)
               PROVE  Scanned(t, pressed) = Slotted(pressed \cap Listed(t))
    BY <2>1
  <2>2. /\ Listed(t) = Listed(u) \cup {k} /\ Unrepeated(u) /\ k \notin Listed(u)
        /\ Listed(u) \subseteq Keys
    BY ListedAppend
  <2>3. Scanned(t, pressed) = AddKey(Scanned(u, pressed), k, pressed)
    BY ScannedAppend
  <2>4. Scanned(u, pressed) = Slotted(S)
    BY <1>2, <2>2
  <2>5. S \subseteq Keys /\ k \notin S
    BY <2>2
  <2>6. pressed \cap Listed(t) = IF k \in pressed THEN S \cup {k} ELSE S
    <3> HIDE DEF t
    <3> QED
      BY <2>2
  <2> HIDE DEF S, t
  <2>7. AddKey(Slotted(S), k, pressed) = Slotted(IF k \in pressed THEN S \cup {k} ELSE S)
    BY <2>5, SlottedMore
  <2> QED
    BY <2>3, <2>4, <2>6, <2>7, Zenon
<1>3. Seq(Keys) \subseteq P
  <2> HIDE DEF P
  <2> QED
    BY <1>1, <1>2, SeqSetInduction
<1> QED
  BY <1>3

\* KeyboardHid::build_report: the keys held, or roll-over when they are too many.
LEMMA ReportIs ==
  ASSUME NEW pressed, pressed \subseteq Keys, NEW m
  PROVE  build_report(pressed, m) = [mods |-> m, keys |-> Slotted(pressed)]
<1> DEFINE order == SetToSeq(Keys)
<1>1. order \in Seq(Keys) /\ Listed(order) = Keys /\ Unrepeated(order)
  BY ScanOrder
<1>2. build_report(pressed, m) = [mods |-> m, keys |-> Scanned(order, pressed)]
  BY DEF build_report, Scanned
<1> HIDE DEF order
<1>3. Scanned(order, pressed) = Slotted(pressed \cap Keys)
  BY <1>1, ScanIs
<1>4. pressed \cap Keys = pressed
  OBVIOUS
<1> QED
  BY <1>2, <1>3, <1>4

-----------------------------------------------------------------------------
(* The invariant of the drivers.                                           *)

Events == [code : Keys \cup {"modifier", "invalid"}, down : BOOLEAN, mods : Mods]

\* The phone has the keys held, unless the last report was refused.
KeyboardOK ==
  /\ script \in Seq(Events) /\ keys \subseteq Keys
  /\ stale[HID_ID_KEYBOARD] = "no" =>
       LastIs(Sent, HID_ID_KEYBOARD, [mods |-> device_mod, keys |-> Slotted(keys)])

Lost == IF direct THEN 2 * MaxStep * faults ELSE 0

MouseOK ==
  /\ residual \in [Axes -> Int] /\ scrolled \in [Axes -> Int]
  /\ ~clipped => \A a \in Axes : -Lost <= ScrollGap(a) /\ ScrollGap(a) <= Lost

\* A pad's state is what was asked for; the phone has the device if the slot is
\* taken, unless a message for the device was lost, and has its state unless a
\* report was lost or passed by.
PadOK(i) ==
  /\ slots[i].pad = asked[i]
  /\ stale[i] # "device" => (PhonePad(i) = <<"none">> <=> slots[i].id = 0)
  /\ stale[i] = "no" => PhonePad(i) = AskedPad(i)

PadTypes ==
  /\ slots \in [PadSlots -> [id : PadIds \cup {0}, pad : PadStates]]
  /\ asked \in [PadSlots -> PadStates]
  /\ stale \in [PadSlots \cup {HID_ID_KEYBOARD} -> {"no", "report", "device"}]

PadsOK == PadTypes /\ \A i \in PadSlots : PadOK(i)

DriverInv == WriterOK /\ KeyboardOK /\ MouseOK /\ PadsOK

-----------------------------------------------------------------------------
(* Values.                                                                 *)

LEMMA SlotFacts ==
  /\ PadSlots \subseteq Nat /\ HID_ID_GAMEPAD_FIRST \in PadSlots
  /\ HID_ID_KEYBOARD \notin PadSlots /\ HID_ID_MOUSE \notin PadSlots
  /\ HID_ID_KEYBOARD \in Nat /\ HID_ID_MOUSE \in Nat /\ HID_ID_MOUSE # HID_ID_KEYBOARD
  BY DriverAssumption
     DEF PadSlots, HID_ID_GAMEPAD_FIRST, HID_ID_KEYBOARD, HID_ID_MOUSE

LEMMA FirstFacts ==
  ASSUME NEW S, S \subseteq PadSlots, S # {}
  PROVE  First(S) \in S
<1>1. S \subseteq Nat
  BY SlotFacts
<1>2. \E x \in S : \A y \in S : ~(y < x)
  BY <1>1, LeastOf
<1>3. \E x \in S : \A y \in S : x <= y
  BY <1>1, <1>2
<1> QED
  BY <1>3 DEF First

LEMMA MessageFacts ==
  ASSUME WriterOK, NEW d \in Nat, NEW k \in {"create", "input", "destroy"}, NEW b \in Bodies,
         d = HID_ID_MOUSE => b.wheel \in [Axes -> Int]
  PROVE  /\ Message(d, k, b) \in Packet
         /\ Message(d, k, b).dev = d /\ Message(d, k, b).kind = k
         /\ Message(d, k, b).body = b
         /\ Message(d, k, b).critical <=> Message(d, k, b).kind # "input"
<1> DEFINE m == Message(d, k, b)
           c == k # "input"
<1>1. pushed + 1 \in Nat /\ 1 \in {1} /\ c \in BOOLEAN
  BY DEF WriterOK
<1>2. /\ m = [id |-> pushed + 1, size |-> 1, critical |-> c, dev |-> d, kind |-> k, body |-> b]
  BY DEF Message
<1> HIDE DEF c, m
<1>3. /\ m \in [id : Nat, size : {1}, critical : BOOLEAN, dev : Nat,
                kind : {"create", "input", "destroy"}, body : Bodies]
  BY <1>1, <1>2
<1>4. m.dev = d /\ m.kind = k /\ m.body = b
  BY <1>2
<1>5. m.critical = c
  BY <1>2
<1>6. m \in Packet
  BY <1>3, <1>4 DEF Packet
<1>7. m.critical <=> m.kind # "input"
  BY <1>4, <1>5, Zenon DEF c
<1> QED
  BY <1>4, <1>6, <1>7 DEF m

LEMMA BodyFacts ==
  /\ Unused \in PadStates /\ Neutral \in PadStates /\ Neutral \in Bodies
  /\ \A p \in PadStates : slot_to_payload(p) \in Bodies
  /\ [mods : Mods, keys : KeySets] \subseteq Bodies
  /\ [buttons : {{}, {"left"}}, wheel : [Axes -> Int]] \subseteq Bodies
<1>1. Neutral \in PadStates
  <2>1. \A f \in Fields : f # "buttons" => Stored(f, 0) \in Int
    BY DriverAssumption DEF Fields, Sticks, Stored, axis_rescale
  <2>2. \A f \in Fields : (IF f = "buttons" THEN {} ELSE Stored(f, 0)) \in PadValues
    BY <2>1 DEF PadValues
  <2> QED
    BY <2>2 DEF Neutral, PadStates
<1>2. Unused \in PadStates
  BY DEF Unused, PadStates, PadValues
<1> QED
  BY <1>1, <1>2 DEF Bodies

LEMMA FrameFacts ==
  ASSUME NEW fs \in Setters, NEW f \in PadFrame(fs), NEW pad \in PadStates
  PROVE  /\ Apply(pad, f) \in PadStates
         /\ Same(pad, f) => Apply(pad, f) = pad
<1>1. fs \subseteq Fields
  BY DEF Setters, Fields, Sticks
<1>2. PICK v \in Raw, b \in Buttons : f = [x \in fs |-> IF x = "buttons" THEN b ELSE v]
  BY DEF PadFrame
<1>3. v \in Int /\ Mid \in Int
  BY DriverAssumption
<1>4. DOMAIN f = fs
  BY <1>2
<1>5. ASSUME NEW x \in fs
      PROVE  Stored(x, f[x]) \in PadValues
  <2>1. CASE x = "buttons"
    <3>1. f[x] = b /\ Stored(x, f[x]) = f[x]
      BY <1>2, <2>1 DEF Stored, Sticks
    <3> QED
      BY <3>1 DEF PadValues
  <2>2. CASE x # "buttons"
    <3>1. f[x] = v /\ x \in Sticks \cup {"left_trigger"}
      BY <1>1, <1>2, <2>2 DEF Fields
    <3>2. Stored(x, v) \in Int
      BY <1>3, <3>1 DEF Stored, Sticks, axis_rescale
    <3> QED
      BY <3>1, <3>2 DEF PadValues
  <2> QED
    BY <2>1, <2>2
<1>6. \A x \in Fields : pad[x] \in PadValues
  BY DEF PadStates
<1>7. Apply(pad, f) \in PadStates
  BY <1>4, <1>5, <1>6 DEF Apply, PadStates
<1>8. ASSUME Same(pad, f)
      PROVE  Apply(pad, f) = pad
  <2>1. \A x \in Fields : (IF x \in DOMAIN f THEN Stored(x, f[x]) ELSE pad[x]) = pad[x]
    BY <1>8 DEF Same
  <2>2. pad = [x \in Fields |-> pad[x]]
    BY DEF PadStates
  <2> QED
    BY <2>1, <2>2 DEF Apply
<1> QED
  BY <1>7, <1>8

-----------------------------------------------------------------------------
(* What a push for one device leaves alone.                                *)

LEMMA KeyboardRests ==
  ASSUME WriterOK, NEW m \in Packet, Outcome(m), m.dev # HID_ID_KEYBOARD, KeyboardOK,
         UNCHANGED <<script, keys, device_mod>>,
         stale'[HID_ID_KEYBOARD] = stale[HID_ID_KEYBOARD]
  PROVE  KeyboardOK'
<1>1. \A b : LastIs(Sent, HID_ID_KEYBOARD, b) => LastIs(Sent', HID_ID_KEYBOARD, b)
  BY PushViews
<1>2. /\ script' \in Seq(Events) /\ keys' \subseteq Keys
  BY DEF KeyboardOK
<1>3. ASSUME stale'[HID_ID_KEYBOARD] = "no"
      PROVE  LastIs(Sent', HID_ID_KEYBOARD, [mods |-> device_mod', keys |-> Slotted(keys')])
  <2> DEFINE b == [mods |-> device_mod, keys |-> Slotted(keys)]
  <2>1. LastIs(Sent, HID_ID_KEYBOARD, b)
    BY <1>3 DEF KeyboardOK
  <2>2. [mods |-> device_mod', keys |-> Slotted(keys')] = b
    OBVIOUS
  <2> HIDE DEF b
  <2> QED
    BY <1>1, <2>1, <2>2
<1> QED
  BY <1>2, <1>3 DEF KeyboardOK, Slotted

\* The bound on the scroll that is lost grows with the faults.
LEMMA LostGrows ==
  ASSUME NEW x \in Nat, NEW y \in Nat, x <= y
  PROVE  /\ 2 * MaxStep * x \in Nat /\ 2 * MaxStep * y \in Nat
         /\ 2 * MaxStep * x <= 2 * MaxStep * y
         /\ 2 * MaxStep * (x + 1) = 2 * MaxStep * x + 2 * MaxStep
<1>1. MaxStep \in Nat
  BY DriverAssumption
<1> DEFINE M == 2 * MaxStep
<1>2. M \in Nat /\ M * x = 2 * MaxStep * x /\ M * y = 2 * MaxStep * y
  BY <1>1
<1> HIDE DEF M
<1>3. M * x \in Nat /\ M * y \in Nat /\ M * x <= M * y /\ M * (x + 1) = M * x + M
  BY <1>2
<1> QED
  BY <1>2, <1>3 DEF M

LEMMA LostMore ==
  ASSUME WriterOK, faults' \in Nat, faults <= faults', direct' = direct
  PROVE  Lost \in Nat /\ Lost' \in Nat /\ Lost <= Lost'
<1>1. faults \in Nat
  BY DEF WriterOK
<1>2. /\ 2 * MaxStep * faults \in Nat /\ 2 * MaxStep * faults' \in Nat
      /\ 2 * MaxStep * faults <= 2 * MaxStep * faults'
  BY <1>1, LostGrows
<1> DEFINE x == 2 * MaxStep * faults
           y == 2 * MaxStep * faults'
<1>3. Lost = (IF direct THEN x ELSE 0) /\ Lost' = (IF direct' THEN y ELSE 0)
  BY DEF Lost
<1>4. x \in Nat /\ y \in Nat /\ x <= y
  BY <1>2
<1> HIDE DEF x, y
<1> QED
  BY <1>3, <1>4

LEMMA GapIs ==
  \A a : ScrollGap(a) = 2 * Wheel(accepted, a) + residual[a] - scrolled[a]
  BY DEF ScrollGap, Wheel

\* Any step that turns no wheel.
LEMMA WheelRests ==
  ASSUME WriterOK, MouseOK, UNCHANGED mouse,
         faults' \in Nat, faults <= faults', direct' = direct,
         \A a \in Axes : Wheel(accepted', a) = Wheel(accepted, a)
  PROVE  MouseOK'
<1>1. Lost \in Nat /\ Lost' \in Nat /\ Lost <= Lost'
  BY LostMore
<1>2. residual' = residual /\ scrolled' = scrolled /\ clipped' = clipped
  BY DEF mouse
<1>3. residual' \in [Axes -> Int] /\ scrolled' \in [Axes -> Int]
  BY <1>2 DEF MouseOK
<1>4. ASSUME ~clipped', NEW a \in Axes
      PROVE  -Lost' <= ScrollGap(a)' /\ ScrollGap(a)' <= Lost'
  <2>1. -Lost <= ScrollGap(a) /\ ScrollGap(a) <= Lost
    BY <1>2, <1>4 DEF MouseOK
  <2>2. ScrollGap(a) = 2 * Wheel(accepted, a) + residual[a] - scrolled[a]
        /\ ScrollGap(a)' = 2 * Wheel(accepted', a) + residual'[a] - scrolled'[a]
    BY DEF ScrollGap, Wheel
  <2>3. ScrollGap(a)' = ScrollGap(a)
    BY <1>2, <2>2
  <2>4. ScrollGap(a) \in Int
    <3>1. Wheel(accepted, a) \in Int /\ residual[a] \in Int /\ scrolled[a] \in Int
      <4>1. accepted \in Seq(Packet)
        BY DEF WriterOK
      <4>2. \A e \in Packet : Wheel(accepted, a) \in Int
        BY <4>1, WheelAppend
      <4>3. WheelSums(accepted, a) \in [0..Len(accepted) -> Int] /\ Len(accepted) \in 0..Len(accepted)
        BY <4>1, WheelSumsSteps
      <4> QED
        BY <4>3 DEF MouseOK, Wheel
    <3> QED
      BY <2>2, <3>1
  <2> QED
    BY <1>1, <2>1, <2>3, <2>4
<1> QED
  BY <1>3, <1>4 DEF MouseOK

LEMMA MouseRests ==
  ASSUME WriterOK, WriterOK', NEW m \in Packet, Accepts(m), direct' = direct,
         m.dev # HID_ID_MOUSE, MouseOK, UNCHANGED mouse
  PROVE  MouseOK'
<1>1. faults \in Nat /\ faults' \in Nat /\ faults <= faults' /\ accepted \in Seq(Packet)
  BY DEF WriterOK, Accepts
<1>2. \A a \in Axes : Wheel(accepted', a) = Wheel(accepted, a)
  <2>1. \A a \in Axes : Wheel(Append(accepted, m), a) = Turned(Wheel(accepted, a), m, a)
    BY <1>1, WheelAppend
  <2>2. \A a \in Axes : Wheel(Append(accepted, m), a) = Wheel(accepted, a)
    BY <2>1 DEF Turned
  <2> QED
    BY <2>2 DEF Accepts
<1> QED
  BY <1>1, <1>2, WheelRests

LEMMA PadRests ==
  ASSUME NEW i \in PadSlots, PadOK(i), PhonePad(i)' = PhonePad(i),
         slots'[i] = slots[i], asked'[i] = asked[i], stale'[i] = stale[i]
  PROVE  PadOK(i)'
<1>1. AskedPad(i)' = AskedPad(i)
  BY DEF AskedPad
<1> QED
  BY <1>1 DEF PadOK

\* A push for another device.
LEMMA OtherPad ==
  ASSUME WriterOK, NEW m \in Packet, Outcome(m), NEW i \in PadSlots, m.dev # i, PadOK(i),
         slots'[i] = slots[i], asked'[i] = asked[i], stale'[i] = stale[i]
  PROVE  PadOK(i)'
<1>1. PhonePad(i)' = PhonePad(i)
  <2>1. Seen(PhonePad(i), m, i) = PhonePad(i)
    BY DEF Seen
  <2> QED
    BY <2>1, PushViews
<1> QED
  BY <1>1, PadRests

LEMMA PadsRest ==
  ASSUME WriterOK, NEW m \in Packet, Outcome(m), m.dev \notin PadSlots, PadsOK,
         UNCHANGED pads, \A i \in PadSlots : stale'[i] = stale[i],
         stale' \in [PadSlots \cup {HID_ID_KEYBOARD} -> {"no", "report", "device"}]
  PROVE  PadsOK'
<1>1. slots' = slots /\ asked' = asked
  BY DEF pads
<1>2. PadTypes'
  BY <1>1 DEF PadTypes, PadsOK
<1>3. \A i \in PadSlots : PadOK(i)'
  BY <1>1, OtherPad DEF PadsOK
<1> QED
  BY <1>2, <1>3 DEF PadsOK

-----------------------------------------------------------------------------
(* The steps, one lemma for each kind of call.                             *)

LEMMA WriterRests ==
  ASSUME WriterOK, UNCHANGED <<wire, pending, pushed, direct, faults, accepted>>
  PROVE  /\ WriterOK' /\ Sent' = Sent /\ Lost' = Lost
         /\ \A d : PhonePad(d)' = PhonePad(d)
         /\ \A a : Wheel(accepted', a) = Wheel(accepted, a)
<1>1. WriterOK'
  BY DEF WriterOK, InputsOnly
<1>2. Sent' = Sent
  BY DEF Sent
<1>3. \A d : PhonePad(d)' = PhonePad(d)
  BY <1>2 DEF PhonePad, PhoneViews
<1>4. Lost' = Lost
  BY DEF Lost
<1> QED
  BY <1>1, <1>2, <1>3, <1>4

\* A step that changes nothing but the script.
LEMMA ScriptStep ==
  ASSUME DriverInv, script' \in Seq(Events), UNCHANGED <<kbd, mouse, pads, stale>>,
         UNCHANGED <<wire, pending, pushed, direct, faults, accepted>>
  PROVE  DriverInv'
<1>1. WriterOK /\ KeyboardOK /\ MouseOK /\ PadsOK
  BY DEF DriverInv
<1>2. /\ WriterOK' /\ Sent' = Sent /\ Lost' = Lost
      /\ \A d : PhonePad(d)' = PhonePad(d)
      /\ \A a : Wheel(accepted', a) = Wheel(accepted, a)
  BY <1>1, WriterRests
<1>3. /\ keys' = keys /\ device_mod' = device_mod /\ slots' = slots /\ asked' = asked
      /\ stale' = stale
  BY DEF kbd, pads
<1>4. KeyboardOK'
  <2>1. script' \in Seq(Events) /\ keys' \subseteq Keys
    BY <1>1, <1>3 DEF KeyboardOK
  <2>2. ASSUME stale'[HID_ID_KEYBOARD] = "no"
        PROVE  LastIs(Sent', HID_ID_KEYBOARD, [mods |-> device_mod', keys |-> Slotted(keys')])
    <3>1. LastIs(Sent, HID_ID_KEYBOARD, [mods |-> device_mod, keys |-> Slotted(keys)])
      BY <1>1, <1>3, <2>2 DEF KeyboardOK
    <3> QED
      BY <1>2, <1>3, <3>1, Zenon
  <2> QED
    BY <2>1, <2>2 DEF KeyboardOK, Slotted
<1>5. MouseOK'
  <2>1. faults' \in Nat /\ faults <= faults' /\ direct' = direct
    BY <1>1 DEF WriterOK
  <2> QED
    BY <1>1, <1>2, <2>1, WheelRests
<1>6. PadsOK'
  <2>1. PadTypes'
    BY <1>1, <1>3 DEF PadsOK, PadTypes
  <2>2. \A i \in PadSlots : PadOK(i)'
    BY <1>1, <1>2, <1>3, PadRests DEF PadsOK
  <2> QED
    BY <2>1, <2>2 DEF PadsOK
<1> QED
  BY <1>2, <1>4, <1>5, <1>6 DEF DriverInv

LEMMA ScriptTypes ==
  ASSUME NEW k \in Keys \cup {"modifier", "invalid"}, NEW d \in BOOLEAN, NEW m \in Mods
  PROVE  KeyEvent(k, d, m) \in Events
  BY DEF KeyEvent, Events

LEMMA KeyInv ==
  ASSUME DriverInv, Key
  PROVE  DriverInv'
<1>1. PICK k \in Keys \cup {"modifier", "invalid"}, d \in BOOLEAN, m \in Mods :
        script' = <<KeyEvent(k, d, m)>>
  BY DEF Key
<1>2. script' \in Seq(Events)
  BY <1>1, ScriptTypes
<1> QED
  BY <1>2, ScriptStep DEF Key, writer

LEMMA TypeTextInv ==
  ASSUME DriverInv, TypeText
  PROVE  DriverInv'
<1>1. PICK k \in Keys, m \in Mods, strict \in BOOLEAN :
        script' = IF strict THEN <<KeyEvent(k, TRUE, m), KeyEvent(k, FALSE, m)>>
                                 \o <<KeyEvent("invalid", TRUE, m)>>
                  ELSE <<KeyEvent(k, TRUE, m), KeyEvent(k, FALSE, m)>>
  BY DEF TypeText
<1>2. /\ KeyEvent(k, TRUE, m) \in Events /\ KeyEvent(k, FALSE, m) \in Events
      /\ KeyEvent("invalid", TRUE, m) \in Events
  BY ScriptTypes
<1>3. script' \in Seq(Events)
  <2> DEFINE x == KeyEvent(k, TRUE, m)
             y == KeyEvent(k, FALSE, m)
             z == KeyEvent("invalid", TRUE, m)
  <2>1. script' = IF strict THEN <<x, y>> \o <<z>> ELSE <<x, y>>
    BY <1>1
  <2>2. x \in Events /\ y \in Events /\ z \in Events
    BY <1>2
  <2> HIDE DEF x, y, z
  <2>3. <<x, y>> \in Seq(Events) /\ <<z>> \in Seq(Events)
    BY <2>2
  <2> QED
    BY <2>1, <2>3
<1> QED
  BY <1>3, ScriptStep DEF TypeText, writer

\* A keyboard report carries the keys held: taken, it leaves nothing stale.
LEMMA KeyStepInv ==
  ASSUME DriverInv, KeyStep
  PROVE  DriverInv'
<1> DEFINE e == Head(script)
           r == build_report(keys', e.mods)
           m == Message(HID_ID_KEYBOARD, "input", r)
<1>1. WriterOK /\ KeyboardOK /\ MouseOK /\ PadsOK
  BY DEF DriverInv
<1>2. /\ script # <<>> /\ script \in Seq(Events) /\ keys \subseteq Keys
      /\ UNCHANGED <<mouse, pads>>
  BY <1>1 DEF KeyStep, KeyboardOK
<1>3. e \in Events /\ Tail(script) \in Seq(Events) /\ <<>> \in Seq(Events)
  BY <1>2
<1>4. CASE /\ e.code = "invalid" /\ script' = <<>>
           /\ UNCHANGED <<wire, pending, pushed, direct, faults, accepted, kbd, stale>>
  BY <1>2, <1>3, <1>4, ScriptStep
<1>5. CASE /\ keys' = set_key(e) /\ device_mod' = e.mods
           /\ W!Push(m)
           /\ script' = IF Failed THEN <<>> ELSE Tail(script)
           /\ Reported(HID_ID_KEYBOARD)
  <2>1. keys' \subseteq Keys /\ e.mods \in Mods
    BY <1>2, <1>3, <1>5 DEF set_key, Events
  <2>2. r = [mods |-> device_mod', keys |-> Slotted(keys')]
    BY <1>5, <2>1, ReportIs
  <2>3. r \in Bodies
    <3>1. Slotted(keys') \in KeySets
      BY <2>1 DEF Slotted, KeySets
    <3>2. r \in [mods : Mods, keys : KeySets]
      BY <1>5, <2>1, <2>2, <3>1
    <3> QED
      BY <3>2, BodyFacts
  <2> HIDE DEF r
  <2>4. /\ m \in Packet /\ m.dev = HID_ID_KEYBOARD /\ m.kind = "input" /\ m.body = r
        /\ m.critical <=> m.kind # "input"
    <3>1. HID_ID_KEYBOARD \in Nat /\ HID_ID_KEYBOARD # HID_ID_MOUSE
      BY SlotFacts
    <3> QED
      BY <1>1, <2>3, <3>1, MessageFacts
  <2> HIDE DEF m
  <2>5. WriterOK' /\ Outcome(m) /\ direct' = direct /\ Accepts(m)
    BY <1>1, <1>5, <2>4, PushOutcome
  <2>6. /\ stale \in [PadSlots \cup {HID_ID_KEYBOARD} -> {"no", "report", "device"}]
        /\ stale' \in [PadSlots \cup {HID_ID_KEYBOARD} -> {"no", "report", "device"}]
        /\ \A i \in PadSlots : stale'[i] = stale[i]
        /\ Failed => stale'[HID_ID_KEYBOARD] # "no"
    <3>1. stale \in [PadSlots \cup {HID_ID_KEYBOARD} -> {"no", "report", "device"}]
      BY <1>1 DEF PadsOK, PadTypes
    <3>2. stale' = [stale EXCEPT ![HID_ID_KEYBOARD] = IF @ = "device" THEN @
                                ELSE IF Failed THEN "report" ELSE "no"]
      BY <1>5 DEF Reported
    <3> HIDE DEF Failed
    <3> QED
      BY <3>1, <3>2, SlotFacts
  <2>7. KeyboardOK'
    <3>1. script' \in Seq(Events)
      BY <1>3, <1>5
    <3>2. ASSUME stale'[HID_ID_KEYBOARD] = "no"
          PROVE  LastIs(Sent', HID_ID_KEYBOARD, [mods |-> device_mod', keys |-> Slotted(keys')])
      <4>1. ~Failed
        BY <2>6, <3>2
      <4>2. LastIs(Sent', HID_ID_KEYBOARD, m.body)
        BY <1>1, <2>4, <2>5, <4>1, PushViews
      <4> QED
        BY <2>2, <2>4, <4>2, Zenon
    <3> QED
      BY <2>1, <3>1, <3>2 DEF KeyboardOK, Slotted
  <2>8. MouseOK'
    <3>1. m.dev # HID_ID_MOUSE
      BY <2>4, SlotFacts
    <3> QED
      BY <1>1, <1>2, <2>4, <2>5, <3>1, MouseRests
  <2>9. PadsOK'
    <3>1. m.dev \notin PadSlots
      BY <2>4, SlotFacts
    <3> QED
      BY <1>1, <1>2, <2>4, <2>5, <2>6, <3>1, PadsRest
  <2> QED
    BY <2>5, <2>7, <2>8, <2>9 DEF DriverInv
<1> QED
  BY <1>4, <1>5 DEF KeyStep

-----------------------------------------------------------------------------
(* The mouse.                                                              *)

LEMMA StepFacts ==
  ASSUME NEW h \in Int
  PROVE  /\ consume_scroll_integer(h).steps \in Int
         /\ consume_scroll_integer(h).rest = clamp(h) - 2 * consume_scroll_integer(h).steps
         /\ clamp(h) \in Int
         /\ -(2 * MaxStep) <= 2 * consume_scroll_integer(h).steps
         /\ 2 * consume_scroll_integer(h).steps <= 2 * MaxStep
<1>1. MaxStep \in Nat
  BY DriverAssumption
<1> DEFINE c == clamp(h)
<1>2. c \in Int /\ -(2 * MaxStep) <= c /\ c <= 2 * MaxStep
  BY <1>1 DEF clamp
<1> HIDE DEF c
<1> DEFINE t == trunc(c)
<1>3. t \in Int /\ -(2 * MaxStep) <= 2 * t /\ 2 * t <= 2 * MaxStep
  BY <1>1, <1>2 DEF trunc
<1> HIDE DEF t
<1>4. consume_scroll_integer(h) = [steps |-> t, rest |-> c - 2 * t]
  BY DEF consume_scroll_integer, c, t
<1>5. consume_scroll_integer(h).steps = t /\ consume_scroll_integer(h).rest = c - 2 * t
  BY <1>4
<1> QED
  BY <1>2, <1>3, <1>5 DEF c

LEMMA MouseScrollInv ==
  ASSUME DriverInv, MouseScroll
  PROVE  DriverInv'
<1>1. WriterOK /\ KeyboardOK /\ MouseOK /\ PadsOK
  BY DEF DriverInv
<1>2. PICK d \in [Axes -> Scrolls] :
        LET sum == [a \in Axes |-> residual[a] + d[a]]
            eaten == [a \in Axes |-> consume_scroll_integer(sum[a])]
            steps == [a \in Axes |-> eaten[a].steps]
        IN /\ residual' = [a \in Axes |-> eaten[a].rest]
           /\ scrolled' = [a \in Axes |-> scrolled[a] + d[a]]
           /\ clipped' = (clipped \/ \E a \in Axes : clamp(sum[a]) # sum[a])
           /\ IF \A a \in Axes : steps[a] = 0
                THEN UNCHANGED writer
                ELSE W!Push(Message(HID_ID_MOUSE, "input",
                                    [buttons |-> {}, wheel |-> steps]))
  BY DEF MouseScroll
<1>3. UNCHANGED <<script, kbd, pads, stale>>
  BY DEF MouseScroll
<1> DEFINE steps == [a \in Axes |-> consume_scroll_integer(residual[a] + d[a]).steps]
           b == [buttons |-> {}, wheel |-> steps]
           m == Message(HID_ID_MOUSE, "input", b)
<1>4. /\ residual \in [Axes -> Int] /\ scrolled \in [Axes -> Int]
      /\ \A a \in Axes : d[a] \in Int /\ residual[a] + d[a] \in Int
  <2>1. residual \in [Axes -> Int] /\ scrolled \in [Axes -> Int]
    BY <1>1 DEF MouseOK
  <2>2. \A a \in Axes : d[a] \in Scrolls /\ residual[a] \in Int
    BY <2>1
  <2>3. \A a \in Axes : d[a] \in Int
    BY <2>2, DriverAssumption
  <2> QED
    BY <2>1, <2>2, <2>3
<1>5. /\ residual' = [a \in Axes |-> consume_scroll_integer(residual[a] + d[a]).rest]
      /\ scrolled' = [a \in Axes |-> scrolled[a] + d[a]]
      /\ ~clipped' => /\ ~clipped
                      /\ \A a \in Axes : clamp(residual[a] + d[a]) = residual[a] + d[a]
  BY <1>2
<1>6. \/ (\A a \in Axes : steps[a] = 0) /\ UNCHANGED writer
      \/ W!Push(m)
  <2>1. [a \in Axes |-> [c \in Axes |-> consume_scroll_integer([e \in Axes |-> residual[e] + d[e]][c])][a].steps]
          = steps
    OBVIOUS
  <2> QED
    BY <1>2, <2>1, Zenon
<1>7. \A a \in Axes :
        /\ steps[a] \in Int /\ clamp(residual[a] + d[a]) \in Int
        /\ consume_scroll_integer(residual[a] + d[a]).rest = clamp(residual[a] + d[a]) - 2 * steps[a]
        /\ -(2 * MaxStep) <= 2 * steps[a] /\ 2 * steps[a] <= 2 * MaxStep
  BY <1>4, StepFacts
<1>8. steps \in [Axes -> Int]
  BY <1>7
<1> HIDE DEF steps
<1>9. m \in Packet /\ m.dev = HID_ID_MOUSE /\ m.kind = "input" /\ m.body = b
      /\ (m.critical <=> m.kind # "input") /\ m.body.wheel = steps
  <2>1. b \in [buttons : {{}, {"left"}}, wheel : [Axes -> Int]] /\ b.wheel = steps
    BY <1>8
  <2>2. b \in Bodies /\ b.wheel \in [Axes -> Int]
    BY <1>8, <2>1, BodyFacts
  <2> HIDE DEF b
  <2>3. HID_ID_MOUSE \in Nat
    BY SlotFacts
  <2> QED
    BY <1>1, <2>1, <2>2, <2>3, MessageFacts
<1> HIDE DEF m, b
<1>10. /\ residual' \in [Axes -> Int] /\ scrolled' \in [Axes -> Int]
       /\ \A a \in Axes : /\ residual'[a] = clamp(residual[a] + d[a]) - 2 * steps[a]
                          /\ scrolled'[a] = scrolled[a] + d[a]
  <2>1. \A a \in Axes : residual'[a] = clamp(residual[a] + d[a]) - 2 * steps[a]
    BY <1>5, <1>7
  <2>2. \A a \in Axes : residual'[a] \in Int
    BY <1>7, <2>1
  <2>3. residual' = [a \in Axes |-> residual'[a]]
    BY <1>5
  <2> QED
    BY <1>4, <1>5, <2>1, <2>2, <2>3
<1>11. accepted \in Seq(Packet) /\ faults \in Nat
  BY <1>1 DEF WriterOK
<1>12. \A a \in Axes : /\ Wheel(accepted, a) \in Int
                       /\ Wheel(Append(accepted, m), a) = Wheel(accepted, a) + steps[a]
  <2> SUFFICES ASSUME NEW a \in Axes
               PROVE  /\ Wheel(accepted, a) \in Int
                      /\ Wheel(Append(accepted, m), a) = Wheel(accepted, a) + steps[a]
    OBVIOUS
  <2>1. /\ Wheel(accepted, a) \in Int
        /\ Wheel(Append(accepted, m), a) = Turned(Wheel(accepted, a), m, a)
    BY <1>9, <1>11, WheelAppend
  <2> QED
    BY <1>9, <2>1 DEF Turned
<1>13. ASSUME Lost \in Nat, Lost' \in Nat,
              \/ /\ \A a \in Axes : Wheel(accepted', a) = Wheel(accepted, a) + steps[a]
                 /\ Lost <= Lost'
              \/ /\ \A a \in Axes : Wheel(accepted', a) = Wheel(accepted, a)
                 /\ Lost' = Lost + 2 * MaxStep
       PROVE  MouseOK'
  <2>1. ASSUME ~clipped', NEW a \in Axes
        PROVE  -Lost' <= ScrollGap(a)' /\ ScrollGap(a)' <= Lost'
    <3>1. clamp(residual[a] + d[a]) = residual[a] + d[a] /\ ~clipped
      BY <1>5, <2>1
    <3>2. -Lost <= ScrollGap(a) /\ ScrollGap(a) <= Lost
      BY <1>1, <3>1 DEF MouseOK
    <3>3. /\ ScrollGap(a) = 2 * Wheel(accepted, a) + residual[a] - scrolled[a]
          /\ ScrollGap(a)' = 2 * Wheel(accepted', a) + residual'[a] - scrolled'[a]
      BY DEF ScrollGap, Wheel
    <3>4. residual'[a] = residual[a] + d[a] - 2 * steps[a] /\ scrolled'[a] = scrolled[a] + d[a]
      <4>1. /\ residual'[a] = clamp(residual[a] + d[a]) - 2 * steps[a]
            /\ scrolled'[a] = scrolled[a] + d[a]
        BY <1>10, <2>1
      <4>2. residual[a] \in Int /\ d[a] \in Int /\ steps[a] \in Int
        BY <1>4, <1>8, <2>1
      <4> QED
        BY <3>1, <4>1, <4>2
    <3> DEFINE w == Wheel(accepted, a)
               w1 == Wheel(accepted', a)
               q == residual[a]
               s == scrolled[a]
               x == d[a]
               t == steps[a]
    <3>5. /\ w \in Int /\ q \in Int /\ s \in Int /\ x \in Int /\ t \in Int
          /\ -(2 * MaxStep) <= 2 * t /\ 2 * t <= 2 * MaxStep
      BY <1>4, <1>7, <1>12
    <3>6. \/ w1 = w + t /\ Lost <= Lost'
          \/ w1 = w /\ Lost' = Lost + 2 * MaxStep
      BY <1>13
    <3>7. -Lost <= 2 * w + q - s /\ 2 * w + q - s <= Lost
      BY <3>2, <3>3
    <3>8. ScrollGap(a)' = 2 * w1 + (q + x - 2 * t) - (s + x)
      BY <3>3, <3>4
    <3> HIDE DEF w, w1, q, s, x, t
    <3>9. /\ -Lost' <= 2 * w1 + (q + x - 2 * t) - (s + x)
          /\ 2 * w1 + (q + x - 2 * t) - (s + x) <= Lost'
      <4> DEFINE l == Lost
                 l1 == Lost'
      <4>1. /\ l \in Nat /\ l1 \in Nat /\ -l <= 2 * w + q - s /\ 2 * w + q - s <= l
            /\ \/ w1 = w + t /\ l <= l1
               \/ w1 = w /\ l1 = l + 2 * MaxStep
        BY <1>13, <3>6, <3>7
      <4> HIDE DEF l, l1
      <4>2. /\ -l1 <= 2 * w1 + (q + x - 2 * t) - (s + x)
            /\ 2 * w1 + (q + x - 2 * t) - (s + x) <= l1
        BY <3>5, <4>1, DriverAssumption
      <4> QED
        BY <4>2 DEF l1
    <3> QED
      BY <3>8, <3>9
  <2> QED
    BY <1>10, <2>1 DEF MouseOK
<1>14. CASE (\A a \in Axes : steps[a] = 0) /\ UNCHANGED writer
  <2>1. /\ WriterOK' /\ Sent' = Sent /\ Lost' = Lost
        /\ \A i : PhonePad(i)' = PhonePad(i)
        /\ \A a : Wheel(accepted', a) = Wheel(accepted, a)
    BY <1>1, <1>14, WriterRests DEF writer
  <2>2. Lost \in Nat /\ Lost' \in Nat /\ Lost <= Lost'
    BY <1>1, <1>11, <1>14, LostMore DEF writer
  <2>3. MouseOK'
    <3>1. \A a \in Axes : Wheel(accepted', a) = Wheel(accepted, a) + steps[a]
      BY <1>12, <1>14, <2>1
    <3> QED
      BY <1>13, <2>2, <3>1
  <2>4. KeyboardOK'
    <3>1. script' = script /\ keys' = keys /\ device_mod' = device_mod /\ stale' = stale
      BY <1>3 DEF kbd
    <3>2. KeyboardOK' <=> KeyboardOK
      BY <2>1, <3>1, Zenon DEF KeyboardOK, Slotted, LastIs
    <3> QED
      BY <1>1, <3>2
  <2>5. PadsOK'
    <3>1. slots' = slots /\ asked' = asked /\ stale' = stale
      BY <1>3 DEF pads
    <3>2. PadTypes'
      BY <1>1, <3>1 DEF PadsOK, PadTypes
    <3>3. \A i \in PadSlots : PadOK(i)'
      BY <1>1, <2>1, <3>1, PadRests DEF PadsOK
    <3> QED
      BY <3>2, <3>3 DEF PadsOK
  <2> QED
    BY <2>1, <2>3, <2>4, <2>5 DEF DriverInv
<1>15. CASE W!Push(m)
  <2>1. WriterOK' /\ Outcome(m) /\ direct' = direct /\ Accepts(m)
    BY <1>1, <1>9, <1>15, PushOutcome
  <2>2. faults' \in Nat /\ faults <= faults'
    BY <1>11, <2>1 DEF Accepts, WriterOK
  <2>3. Lost \in Nat /\ Lost' \in Nat /\ Lost <= Lost'
    BY <1>1, <2>1, <2>2, LostMore
  <2>4. MouseOK'
    <3>1. CASE accepted' = Append(accepted, m)
      <4>1. \A a \in Axes : Wheel(accepted', a) = Wheel(accepted, a) + steps[a]
        BY <1>12, <3>1
      <4> QED
        BY <1>13, <2>3, <4>1
    <3>2. CASE accepted' = accepted /\ faults' = faults + 1 /\ (direct \/ m.critical)
      <4>1. direct /\ direct'
        BY <1>9, <2>1, <3>2
      <4>2. 2 * MaxStep * (faults + 1) = 2 * MaxStep * faults + 2 * MaxStep
        BY <1>11, LostGrows
      <4>3. Lost = 2 * MaxStep * faults /\ Lost' = 2 * MaxStep * (faults + 1)
        BY <3>2, <4>1 DEF Lost
      <4>4. Lost' = Lost + 2 * MaxStep
        BY <4>2, <4>3
      <4>5. \A a \in Axes : Wheel(accepted', a) = Wheel(accepted, a)
        BY <3>2
      <4> QED
        BY <1>13, <2>3, <4>4, <4>5
    <3> QED
      BY <2>1, <3>1, <3>2 DEF Accepts
  <2>5. KeyboardOK'
    BY <1>1, <1>3, <1>9, <2>1, SlotFacts, KeyboardRests DEF kbd
  <2>6. PadsOK'
    <3>1. stale' \in [PadSlots \cup {HID_ID_KEYBOARD} -> {"no", "report", "device"}]
          /\ stale' = stale
      BY <1>1, <1>3 DEF PadsOK, PadTypes
    <3> QED
      BY <1>1, <1>3, <1>9, <2>1, <3>1, SlotFacts, PadsRest
  <2> QED
    BY <2>1, <2>4, <2>5, <2>6 DEF DriverInv
<1> QED
  BY <1>6, <1>14, <1>15

LEMMA MouseMoveInv ==
  ASSUME DriverInv, MouseMove
  PROVE  DriverInv'
<1>1. WriterOK /\ KeyboardOK /\ MouseOK /\ PadsOK
  BY DEF DriverInv
<1> DEFINE still == [a \in Axes |-> 0]
<1>2. PICK u \in {{}, {"left"}} :
        W!Push(Message(HID_ID_MOUSE, "input", [buttons |-> u, wheel |-> still]))
  BY DEF MouseMove
<1>3. UNCHANGED <<script, kbd, mouse, pads, stale>>
  BY DEF MouseMove
<1> DEFINE b == [buttons |-> u, wheel |-> still]
           m == Message(HID_ID_MOUSE, "input", b)
<1>4. still \in [Axes -> Int] /\ \A a \in Axes : still[a] = 0
  OBVIOUS
<1>5. W!Push(m)
  BY <1>2
<1> HIDE DEF still
<1>6. m \in Packet /\ m.dev = HID_ID_MOUSE /\ m.kind = "input" /\ m.body = b
      /\ (m.critical <=> m.kind # "input") /\ m.body.wheel = still
  <2>1. b \in [buttons : {{}, {"left"}}, wheel : [Axes -> Int]] /\ b.wheel = still
    BY <1>4
  <2>2. b \in Bodies /\ b.wheel \in [Axes -> Int]
    BY <1>4, <2>1, BodyFacts
  <2> HIDE DEF b
  <2>3. HID_ID_MOUSE \in Nat
    BY SlotFacts
  <2> QED
    BY <1>1, <2>1, <2>2, <2>3, MessageFacts
<1> HIDE DEF m, b
<1>7. WriterOK' /\ Outcome(m) /\ direct' = direct /\ Accepts(m)
  BY <1>1, <1>5, <1>6, PushOutcome
<1>8. faults \in Nat /\ faults' \in Nat /\ faults <= faults' /\ accepted \in Seq(Packet)
  BY <1>1, <1>7 DEF Accepts, WriterOK
<1>9. \A a \in Axes : Wheel(accepted', a) = Wheel(accepted, a)
  <2> SUFFICES ASSUME NEW a \in Axes
               PROVE  Wheel(accepted', a) = Wheel(accepted, a)
    OBVIOUS
  <2>1. /\ Wheel(accepted, a) \in Int
        /\ Wheel(Append(accepted, m), a) = Turned(Wheel(accepted, a), m, a)
    BY <1>6, <1>8, WheelAppend
  <2>2. Wheel(Append(accepted, m), a) = Wheel(accepted, a)
    BY <1>4, <1>6, <2>1 DEF Turned
  <2> QED
    BY <1>7, <2>2 DEF Accepts
<1>10. MouseOK'
  BY <1>1, <1>3, <1>7, <1>8, <1>9, WheelRests
<1>11. KeyboardOK'
  BY <1>1, <1>3, <1>6, <1>7, SlotFacts, KeyboardRests DEF kbd
<1>12. PadsOK'
  <2>1. stale' \in [PadSlots \cup {HID_ID_KEYBOARD} -> {"no", "report", "device"}]
        /\ stale' = stale
    BY <1>1, <1>3 DEF PadsOK, PadTypes
  <2> QED
    BY <1>1, <1>3, <1>6, <1>7, <2>1, SlotFacts, PadsRest
<1> QED
  BY <1>7, <1>10, <1>11, <1>12 DEF DriverInv

-----------------------------------------------------------------------------
(* The gamepads.  A push for slot i leaves the other slots and the other   *)
(* devices alone; what is left is slot i.                                  *)

LEMMA PadPush ==
  ASSUME DriverInv, NEW i \in PadSlots, NEW k \in {"create", "input", "destroy"},
         NEW b \in Bodies, W!Push(Message(i, k, b)),
         UNCHANGED <<script, kbd, mouse>>, PadTypes',
         \A j \in PadSlots \ {i} :
           slots'[j] = slots[j] /\ asked'[j] = asked[j] /\ stale'[j] = stale[j],
         stale'[HID_ID_KEYBOARD] = stale[HID_ID_KEYBOARD]
  PROVE  /\ PadOK(i)' => DriverInv'
         /\ \/ PhonePad(i)' = Seen(PhonePad(i), Message(i, k, b), i)
            \/ Failed /\ PhonePad(i)' = PhonePad(i)
<1> DEFINE m == Message(i, k, b)
<1>1. WriterOK /\ KeyboardOK /\ MouseOK /\ PadsOK
  BY DEF DriverInv
<1>2. i \in Nat /\ i # HID_ID_MOUSE /\ i # HID_ID_KEYBOARD
  BY SlotFacts
<1>3. m \in Packet /\ m.dev = i /\ (m.critical <=> m.kind # "input")
  BY <1>1, <1>2, MessageFacts
<1>4. W!Push(m)
  OBVIOUS
<1> HIDE DEF m
<1>5. WriterOK' /\ Outcome(m) /\ direct' = direct /\ Accepts(m)
  BY <1>1, <1>3, <1>4, PushOutcome
<1>6. KeyboardOK'
  BY <1>1, <1>2, <1>3, <1>5, KeyboardRests DEF kbd
<1>7. MouseOK'
  BY <1>1, <1>2, <1>3, <1>5, MouseRests
<1>8. \A j \in PadSlots \ {i} : PadOK(j)'
  BY <1>1, <1>3, <1>5, OtherPad DEF PadsOK
<1>9. PadOK(i)' => DriverInv'
  BY <1>5, <1>6, <1>7, <1>8 DEF DriverInv, PadsOK
<1>10. \/ PhonePad(i)' = Seen(PhonePad(i), m, i)
       \/ Failed /\ PhonePad(i)' = PhonePad(i)
  BY <1>1, <1>3, <1>5, PushViews
<1> QED
  BY <1>9, <1>10 DEF m

\* What the phone makes of each kind of message for a pad.
LEMMA SeenFacts ==
  ASSUME WriterOK, NEW i \in PadSlots, NEW b \in Bodies, NEW v
  PROVE  /\ Seen(v, Message(i, "input", b), i) = IF v = <<"none">> THEN v ELSE <<"on", b>>
         /\ Seen(v, Message(i, "destroy", b), i) = <<"none">>
         /\ Seen(v, Message(i, "create", b), i) =
              IF v = <<"none">> THEN <<"on", slot_to_payload(Neutral)>> ELSE v
         /\ \A x : <<"on", x>> # <<"none">>
<1>1. i \in Nat /\ i # HID_ID_MOUSE
  BY SlotFacts
<1>2. \A k \in {"create", "input", "destroy"} :
        Message(i, k, b).dev = i /\ Message(i, k, b).kind = k /\ Message(i, k, b).body = b
  BY <1>1, MessageFacts
<1>3. /\ Seen(v, Message(i, "input", b), i) = IF v = <<"none">> THEN v ELSE <<"on", b>>
      /\ Seen(v, Message(i, "destroy", b), i) = <<"none">>
      /\ Seen(v, Message(i, "create", b), i) =
           IF v = <<"none">> THEN <<"on", slot_to_payload(Neutral)>> ELSE v
  BY <1>2 DEF Seen
<1>4. ASSUME NEW x
      PROVE  <<"on", x>> # <<"none">>
  <2>1. Len(<<"on", x>>) = 2 /\ Len(<<"none">>) = 1
    OBVIOUS
  <2> QED
    BY <2>1, Zenon
<1> QED
  BY <1>3, <1>4

\* A report for slot i: it neither creates nor removes the device.
LEMMA PadReport ==
  ASSUME DriverInv, NEW i \in PadSlots, NEW b \in Bodies, W!Push(Message(i, "input", b)),
         UNCHANGED <<script, kbd, mouse>>, PadTypes',
         \A j \in PadSlots \ {i} : slots'[j] = slots[j] /\ asked'[j] = asked[j],
         slots'[i].id = slots[i].id, slots'[i].pad = asked'[i],
         \/ Reported(i) /\ b = slot_to_payload(asked'[i])
         \/ Bypassed(i)
  PROVE  DriverInv'
<1>1. WriterOK /\ PadOK(i)
  BY DEF DriverInv, PadsOK
<1>2. /\ \A d \in (PadSlots \cup {HID_ID_KEYBOARD}) \ {i} : stale'[d] = stale[d]
      /\ stale[i] = "device" => stale'[i] = "device"
      /\ Failed => stale'[i] # "no"
      /\ Bypassed(i) => stale'[i] # "no"
  <2>1. stale \in [PadSlots \cup {HID_ID_KEYBOARD} -> {"no", "report", "device"}]
    BY DEF DriverInv, PadsOK, PadTypes
  <2> HIDE DEF Failed
  <2> QED
    BY <2>1 DEF Reported, Bypassed
<1>3. HID_ID_KEYBOARD # i
  BY SlotFacts
<1>4. /\ PadOK(i)' => DriverInv'
      /\ \/ PhonePad(i)' = Seen(PhonePad(i), Message(i, "input", b), i)
         \/ Failed /\ PhonePad(i)' = PhonePad(i)
  BY <1>2, <1>3, PadPush
<1>5. \/ PhonePad(i)' = IF PhonePad(i) = <<"none">> THEN PhonePad(i) ELSE <<"on", b>>
      \/ Failed /\ PhonePad(i)' = PhonePad(i)
  BY <1>1, <1>4, SeenFacts
<1>6. \A x : <<"on", x>> # <<"none">>
  BY <1>1, SeenFacts
<1>7. PhonePad(i)' = <<"none">> <=> PhonePad(i) = <<"none">>
  BY <1>5, <1>6, Zenon
<1>8. stale'[i] # "device" => (PhonePad(i)' = <<"none">> <=> slots'[i].id = 0)
  BY <1>1, <1>2, <1>7 DEF PadOK
<1>9. ASSUME stale'[i] = "no"
      PROVE  PhonePad(i)' = AskedPad(i)'
  <2>1. ~Failed /\ b = slot_to_payload(asked'[i]) /\ stale[i] # "device"
    BY <1>2, <1>9
  <2>2. PhonePad(i)' = IF PhonePad(i) = <<"none">> THEN <<"none">> ELSE <<"on", b>>
    BY <1>5, <2>1, Zenon
  <2>3. PhonePad(i) = <<"none">> <=> slots'[i].id = 0
    BY <1>1, <2>1 DEF PadOK
  <2> QED
    BY <2>1, <2>2, <2>3, Zenon DEF AskedPad, slot_to_payload
<1>10. PadOK(i)'
  BY <1>8, <1>9 DEF PadOK
<1> QED
  BY <1>4, <1>10

LEMMA PadUncheckedInv ==
  ASSUME DriverInv, PadUnchecked
  PROVE  DriverInv'
<1> DEFINE i == HID_ID_GAMEPAD_FIRST
<1>1. PICK f \in PadFrame(Fields) : W!Push(Message(i, "input", slot_to_payload(Apply(Neutral, f))))
  BY DEF PadUnchecked
<1>2. Fields \in Setters /\ Neutral \in PadStates
  BY BodyFacts DEF Setters
<1>3. Apply(Neutral, f) \in PadStates
  BY <1>2, FrameFacts
<1>4. slot_to_payload(Apply(Neutral, f)) \in Bodies
  BY <1>3, BodyFacts
<1>5. i \in PadSlots
  BY SlotFacts
<1>6. Bypassed(i) /\ UNCHANGED <<script, kbd, mouse>> /\ slots' = slots /\ asked' = asked
  BY DEF PadUnchecked, pads
<1>7. PadTypes'
  BY <1>5, <1>6 DEF DriverInv, PadsOK, PadTypes, Bypassed
<1>8. slots[i].pad = asked[i]
  BY <1>5 DEF DriverInv, PadsOK, PadOK
<1> HIDE DEF i
<1> QED
  BY <1>1, <1>4, <1>5, <1>6, <1>7, <1>8, PadReport

LEMMA SetterInv ==
  ASSUME DriverInv, NEW i \in PadSlots, NEW fs \in Setters, NEW f \in PadFrame(fs),
         Setter(i, f), UNCHANGED <<script, kbd, mouse>>
  PROVE  DriverInv'
<1> DEFINE p == Apply(slots[i].pad, f)
<1>1. PadTypes /\ slots[i].pad = asked[i] /\ slots[i].pad \in PadStates
      /\ slots[i].id \in PadIds \cup {0}
  <2>1. PadTypes /\ PadOK(i)
    BY DEF DriverInv, PadsOK
  <2>2. slots[i] \in [id : PadIds \cup {0}, pad : PadStates]
    BY <2>1 DEF PadTypes
  <2> QED
    BY <2>1, <2>2 DEF PadOK
<1>2. p \in PadStates /\ (Same(slots[i].pad, f) => p = slots[i].pad)
  BY <1>1, FrameFacts
<1>3. asked' = [asked EXCEPT ![i] = p]
  BY <1>1 DEF Setter
<1>4. CASE Same(slots[i].pad, f)
  <2>1. UNCHANGED <<writer, slots, stale>>
    BY <1>4 DEF Setter
  <2>2. asked' = asked
    BY <1>1, <1>2, <1>3, <1>4 DEF PadTypes
  <2>3. script' \in Seq(Events)
    BY DEF DriverInv, KeyboardOK
  <2> QED
    BY <2>1, <2>2, <2>3, ScriptStep DEF writer, pads
<1>5. CASE ~Same(slots[i].pad, f)
  <2>1. /\ slots' = [slots EXCEPT ![i].pad = p]
        /\ W!Push(Message(i, "input", slot_to_payload(slots'[i].pad)))
        /\ Reported(i)
    BY <1>5 DEF Setter
  <2> HIDE DEF p
  <2>2. slots'[i].pad = p /\ slots'[i].id = slots[i].id /\ asked'[i] = p
        /\ \A j \in PadSlots \ {i} : slots'[j] = slots[j] /\ asked'[j] = asked[j]
    BY <1>1, <1>3, <2>1 DEF PadTypes
  <2>3. PadTypes'
    <3>1. slots' \in [PadSlots -> [id : PadIds \cup {0}, pad : PadStates]]
      BY <1>1, <1>2, <2>1 DEF PadTypes
    <3>2. asked' \in [PadSlots -> PadStates]
      BY <1>1, <1>2, <1>3 DEF PadTypes
    <3>3. stale' \in [PadSlots \cup {HID_ID_KEYBOARD} -> {"no", "report", "device"}]
      <4> HIDE DEF Failed
      <4> QED
        BY <1>1, <2>1 DEF PadTypes, Reported
    <3> QED
      BY <3>1, <3>2, <3>3 DEF PadTypes
  <2>4. slot_to_payload(p) \in Bodies
    BY <1>2, BodyFacts
  <2>5. W!Push(Message(i, "input", slot_to_payload(p))) /\ slots'[i].pad = asked'[i]
        /\ slot_to_payload(p) = slot_to_payload(asked'[i])
    BY <2>1, <2>2, Zenon
  <2> QED
    BY <2>1, <2>2, <2>3, <2>4, <2>5, PadReport
<1> QED
  BY <1>4, <1>5

LEMMA PadSetInv ==
  ASSUME DriverInv, PadSet
  PROVE  DriverInv'
<1>1. PICK fs \in Setters : \E f \in PadFrame(fs) : Setter(HID_ID_GAMEPAD_FIRST, f)
  BY DEF PadSet
<1>2. PICK f \in PadFrame(fs) : Setter(HID_ID_GAMEPAD_FIRST, f)
  BY <1>1
<1>3. UNCHANGED <<script, kbd, mouse>>
  BY DEF PadSet
<1> QED
  BY <1>2, <1>3, SlotFacts, SetterInv

LEMMA PadEventInv ==
  ASSUME DriverInv, PadEvent
  PROVE  DriverInv'
<1>1. UNCHANGED <<script, kbd, mouse>>
  BY DEF PadEvent
<1>2. PICK id \in PadIds \cup {0} : With(id) # {} /\
        \E fs \in Setters : \E f \in PadFrame(fs) :
          LET i == First(With(id)) IN
          \/ ~Same(slots[i].pad, f) /\ Setter(i, f)
          \/ /\ Same(slots[i].pad, f)
             /\ W!Push(Message(i, "input", slot_to_payload(slots[i].pad)))
             /\ asked' = [asked EXCEPT ![i] = Apply(@, f)]
             /\ Reported(i)
             /\ UNCHANGED slots
  BY DEF PadEvent
<1> DEFINE i == First(With(id))
<1>3. i \in PadSlots
  BY <1>2, FirstFacts DEF With
<1>4. PICK fs \in Setters : \E f \in PadFrame(fs) :
          \/ ~Same(slots[i].pad, f) /\ Setter(i, f)
          \/ /\ Same(slots[i].pad, f)
             /\ W!Push(Message(i, "input", slot_to_payload(slots[i].pad)))
             /\ asked' = [asked EXCEPT ![i] = Apply(@, f)]
             /\ Reported(i)
             /\ UNCHANGED slots
  BY <1>2
<1> HIDE DEF i
<1>5. PICK f \in PadFrame(fs) :
          \/ Setter(i, f)
          \/ /\ Same(slots[i].pad, f)
             /\ W!Push(Message(i, "input", slot_to_payload(slots[i].pad)))
             /\ asked' = [asked EXCEPT ![i] = Apply(@, f)]
             /\ Reported(i)
             /\ UNCHANGED slots
  BY <1>4, Zenon
<1>6. CASE Setter(i, f)
  BY <1>1, <1>3, <1>6, SetterInv
<1>7. CASE /\ Same(slots[i].pad, f)
           /\ W!Push(Message(i, "input", slot_to_payload(slots[i].pad)))
           /\ asked' = [asked EXCEPT ![i] = Apply(@, f)]
           /\ Reported(i)
           /\ UNCHANGED slots
  <2>1. PadTypes /\ PadOK(i)
    BY <1>3 DEF DriverInv, PadsOK
  <2>2. slots[i] \in [id : PadIds \cup {0}, pad : PadStates] /\ slots[i].pad = asked[i]
        /\ slots[i].pad \in PadStates
    <3>1. slots[i] \in [id : PadIds \cup {0}, pad : PadStates]
      BY <1>3, <2>1 DEF PadTypes
    <3> QED
      BY <2>1, <3>1 DEF PadOK
  <2>3. Apply(asked[i], f) = asked[i]
    BY <1>7, <2>2, FrameFacts
  <2>4. asked' = asked /\ slots' = slots
    BY <1>3, <1>7, <2>1, <2>3 DEF PadTypes
  <2>5. PadTypes'
    <3>1. stale' \in [PadSlots \cup {HID_ID_KEYBOARD} -> {"no", "report", "device"}]
      <4> HIDE DEF Failed
      <4> QED
        BY <1>3, <1>7, <2>1 DEF PadTypes, Reported
    <3> QED
      BY <2>1, <2>4, <3>1 DEF PadTypes
  <2>6. slot_to_payload(slots[i].pad) \in Bodies
    BY <2>2, BodyFacts
  <2>7. slot_to_payload(slots[i].pad) = slot_to_payload(asked'[i]) /\ slots'[i].pad = asked'[i]
        /\ slots'[i].id = slots[i].id
        /\ \A j \in PadSlots \ {i} : slots'[j] = slots[j] /\ asked'[j] = asked[j]
    BY <2>2, <2>4, Zenon
  <2> DEFINE b == slot_to_payload(slots[i].pad)
  <2>8. b \in Bodies /\ W!Push(Message(i, "input", b)) /\ b = slot_to_payload(asked'[i])
    BY <1>7, <2>6, <2>7
  <2> HIDE DEF b
  <2> QED
    BY <1>1, <1>3, <1>7, <2>5, <2>7, <2>8, PadReport
<1> QED
  BY <1>5, <1>6, <1>7

\* A close: the phone loses the device, or the DESTROY was lost.
LEMMA PadCloseInv ==
  ASSUME DriverInv, PadClose
  PROVE  DriverInv'
<1>1. UNCHANGED <<script, kbd, mouse>> /\ asked' = asked
  BY DEF PadClose
<1>2. PICK i \in PadSlots : /\ slots' = [slots EXCEPT ![i].id = 0]
                            /\ SendDevice(i, "destroy")
  BY DEF PadClose
<1>3. PadTypes /\ PadOK(i) /\ WriterOK
  BY DEF DriverInv, PadsOK
<1>4. /\ W!Push(Message(i, "destroy", Neutral))
      /\ stale' = [stale EXCEPT ![i] = IF Failed THEN "device" ELSE "no"]
  <2>1. "destroy" # "create"
    OBVIOUS
  <2> HIDE DEF Failed
  <2> QED
    BY <1>2, <2>1 DEF SendDevice
<1>5. slots'[i].id = 0 /\ slots'[i].pad = slots[i].pad
      /\ \A j \in PadSlots \ {i} : slots'[j] = slots[j]
  BY <1>2, <1>3 DEF PadTypes
<1>6. /\ \A d \in (PadSlots \cup {HID_ID_KEYBOARD}) \ {i} : stale'[d] = stale[d]
      /\ Failed => stale'[i] = "device"
      /\ stale' \in [PadSlots \cup {HID_ID_KEYBOARD} -> {"no", "report", "device"}]
  <2> HIDE DEF Failed
  <2> QED
    BY <1>3, <1>4 DEF PadTypes
<1>7. PadTypes'
  <2>1. slots' \in [PadSlots -> [id : PadIds \cup {0}, pad : PadStates]]
    BY <1>2, <1>3 DEF PadTypes
  <2> QED
    BY <1>1, <1>3, <1>6, <2>1 DEF PadTypes
<1>8. Neutral \in Bodies /\ HID_ID_KEYBOARD # i
  BY BodyFacts, SlotFacts
<1>9. /\ PadOK(i)' => DriverInv'
      /\ \/ PhonePad(i)' = Seen(PhonePad(i), Message(i, "destroy", Neutral), i)
         \/ Failed /\ PhonePad(i)' = PhonePad(i)
  BY <1>1, <1>4, <1>5, <1>6, <1>7, <1>8, PadPush
<1>10. ~Failed => PhonePad(i)' = <<"none">>
  BY <1>3, <1>8, <1>9, SeenFacts
<1>11. AskedPad(i)' = <<"none">>
  BY <1>5 DEF AskedPad
<1>12. slots'[i].pad = asked'[i]
  BY <1>1, <1>3, <1>5 DEF PadOK
<1>13. PadOK(i)'
  BY <1>5, <1>6, <1>10, <1>11, <1>12 DEF PadOK
<1> QED
  BY <1>9, <1>13

\* An open: the phone has a fresh device, or one that was there already, or the
\* CREATE was lost.
LEMMA PadOpenInv ==
  ASSUME DriverInv, PadOpen
  PROVE  DriverInv'
<1>1. UNCHANGED <<script, kbd, mouse>>
  BY DEF PadOpen
<1>2. PICK id \in PadIds :
       \/ /\ With(id) # {}
          /\ W!Push(Message(First(With(id)), "create", Neutral))
          /\ stale' = [stale EXCEPT ![First(With(id))] =
                         IF @ = "no" THEN "no" ELSE IF Failed THEN @ ELSE
                           IF @ = "device" THEN "report" ELSE @]
          /\ UNCHANGED pads
       \/ /\ With(id) = {} /\ With(0) # {}
          /\ TakeSlot(First(With(0)), id)
          /\ SendDevice(First(With(0)), "create")
  BY DEF PadOpen
<1>3. id # 0 /\ id \in PadIds \cup {0}
  BY DriverAssumption
<1>4. WriterOK /\ PadTypes /\ \A j \in PadSlots : PadOK(j)
  BY DEF DriverInv, PadsOK
<1>5. Neutral \in Bodies /\ Neutral \in PadStates
  BY BodyFacts
<1>6. CASE /\ With(id) # {}
           /\ W!Push(Message(First(With(id)), "create", Neutral))
           /\ stale' = [stale EXCEPT ![First(With(id))] =
                         IF @ = "no" THEN "no" ELSE IF Failed THEN @ ELSE
                           IF @ = "device" THEN "report" ELSE @]
           /\ UNCHANGED pads
  <2>1. PICK i \in PadSlots : i = First(With(id)) /\ slots[i].id = id
    BY <1>6, FirstFacts DEF With
  <2>2. /\ W!Push(Message(i, "create", Neutral)) /\ slots' = slots /\ asked' = asked
        /\ stale' = [stale EXCEPT ![i] = IF @ = "no" THEN "no" ELSE IF Failed THEN @ ELSE
                                          IF @ = "device" THEN "report" ELSE @]
    BY <1>6, <2>1, Zenon DEF pads
  <2>3. /\ \A d \in (PadSlots \cup {HID_ID_KEYBOARD}) \ {i} : stale'[d] = stale[d]
        /\ stale'[i] = "no" => stale[i] = "no"
        /\ stale'[i] # "device" => stale[i] # "device" \/ ~Failed
        /\ stale' \in [PadSlots \cup {HID_ID_KEYBOARD} -> {"no", "report", "device"}]
    <3> HIDE DEF Failed
    <3> QED
      BY <1>4, <2>1, <2>2 DEF PadTypes
  <2>4. PadTypes' /\ HID_ID_KEYBOARD # i
    BY <1>4, <2>1, <2>2, <2>3, SlotFacts DEF PadTypes
  <2>5. /\ PadOK(i)' => DriverInv'
        /\ \/ PhonePad(i)' = Seen(PhonePad(i), Message(i, "create", Neutral), i)
           \/ Failed /\ PhonePad(i)' = PhonePad(i)
    BY <1>1, <1>5, <2>1, <2>2, <2>3, <2>4, PadPush
  <2>6. /\ \/ PhonePad(i)' = IF PhonePad(i) = <<"none">>
                               THEN <<"on", slot_to_payload(Neutral)>> ELSE PhonePad(i)
           \/ Failed /\ PhonePad(i)' = PhonePad(i)
        /\ <<"on", slot_to_payload(Neutral)>> # <<"none">>
    BY <1>4, <1>5, <2>1, <2>5, SeenFacts
  <2>7. PadOK(i) /\ slots[i].id # 0
    BY <1>3, <1>4, <2>1
  <2>8. stale'[i] # "device" => PhonePad(i)' # <<"none">>
    BY <2>3, <2>6, <2>7, Zenon DEF PadOK
  <2>9. stale'[i] = "no" => PhonePad(i)' = AskedPad(i)'
    <3>1. AskedPad(i)' = AskedPad(i)
      BY <2>2 DEF AskedPad
    <3>2. ASSUME stale[i] = "no"
          PROVE  PhonePad(i) = AskedPad(i) /\ PhonePad(i) # <<"none">>
      <4>1. stale[i] # "device"
        BY <3>2
      <4> QED
        BY <2>7, <3>2, <4>1 DEF PadOK
    <3> QED
      BY <2>3, <2>6, <3>1, <3>2, Zenon
  <2>10. PadOK(i)'
    BY <2>2, <2>7, <2>8, <2>9 DEF PadOK
  <2> QED
    BY <2>5, <2>10
<1>7. CASE /\ With(0) # {}
           /\ TakeSlot(First(With(0)), id)
           /\ SendDevice(First(With(0)), "create")
  <2>1. PICK i \in PadSlots : i = First(With(0)) /\ slots[i].id = 0
    BY <1>7, FirstFacts DEF With
  <2>2. TakeSlot(i, id) /\ SendDevice(i, "create")
    BY <1>7, <2>1
  <2>3. /\ W!Push(Message(i, "create", Neutral))
        /\ slots' = [slots EXCEPT ![i] = [id |-> id, pad |-> Neutral]]
        /\ asked' = [asked EXCEPT ![i] = Neutral]
        /\ stale' = [stale EXCEPT ![i] = IF Failed THEN "device"
                                         ELSE IF @ = "device" THEN "report" ELSE "no"]
    <3>1. "create" = "create"
      OBVIOUS
    <3> HIDE DEF Failed
    <3> QED
      BY <2>2 DEF TakeSlot, SendDevice
  <2>4. /\ slots'[i] = [id |-> id, pad |-> Neutral] /\ asked'[i] = Neutral
        /\ \A j \in PadSlots \ {i} : slots'[j] = slots[j] /\ asked'[j] = asked[j]
    BY <1>4, <2>1, <2>3 DEF PadTypes
  <2>5. /\ \A d \in (PadSlots \cup {HID_ID_KEYBOARD}) \ {i} : stale'[d] = stale[d]
        /\ Failed => stale'[i] = "device"
        /\ stale'[i] = "no" => stale[i] # "device"
        /\ stale' \in [PadSlots \cup {HID_ID_KEYBOARD} -> {"no", "report", "device"}]
    <3> HIDE DEF Failed
    <3> QED
      BY <1>4, <2>1, <2>3 DEF PadTypes
  <2>6. PadTypes' /\ HID_ID_KEYBOARD # i
    <3>1. [id |-> id, pad |-> Neutral] \in [id : PadIds \cup {0}, pad : PadStates]
      BY <1>3, <1>5
    <3>2. slots' \in [PadSlots -> [id : PadIds \cup {0}, pad : PadStates]]
      BY <1>4, <2>3, <3>1 DEF PadTypes
    <3>3. asked' \in [PadSlots -> PadStates]
      BY <1>4, <1>5, <2>3 DEF PadTypes
    <3> QED
      BY <2>1, <2>5, <3>2, <3>3, SlotFacts DEF PadTypes
  <2>7. /\ PadOK(i)' => DriverInv'
        /\ \/ PhonePad(i)' = Seen(PhonePad(i), Message(i, "create", Neutral), i)
           \/ Failed /\ PhonePad(i)' = PhonePad(i)
    BY <1>1, <1>5, <2>1, <2>3, <2>4, <2>5, <2>6, PadPush
  <2>8. /\ \/ PhonePad(i)' = IF PhonePad(i) = <<"none">>
                               THEN <<"on", slot_to_payload(Neutral)>> ELSE PhonePad(i)
           \/ Failed /\ PhonePad(i)' = PhonePad(i)
        /\ <<"on", slot_to_payload(Neutral)>> # <<"none">>
    BY <1>4, <1>5, <2>1, <2>7, SeenFacts
  <2>9. slots'[i].id = id /\ slots'[i].pad = Neutral
    BY <2>4
  <2>10. stale'[i] # "device" => PhonePad(i)' # <<"none">>
    BY <2>5, <2>8, Zenon
  <2>11. ASSUME stale'[i] = "no"
         PROVE  PhonePad(i)' = AskedPad(i)'
    <3>1. stale[i] # "device" /\ stale'[i] # "device"
      BY <2>5, <2>11
    <3>2. ~Failed
      BY <2>5, <3>1
    <3>3. PhonePad(i) = <<"none">>
      BY <1>4, <2>1, <3>1 DEF PadOK
    <3>4. PhonePad(i)' = <<"on", slot_to_payload(Neutral)>>
      BY <2>8, <3>2, <3>3, Zenon
    <3>5. AskedPad(i)' = <<"on", slot_to_payload(Neutral)>>
      BY <1>3, <2>4, <2>9, Zenon DEF AskedPad, slot_to_payload
    <3> QED
      BY <3>4, <3>5
  <2>12. PadOK(i)'
    BY <1>3, <2>4, <2>9, <2>10, <2>11 DEF PadOK
  <2> QED
    BY <2>7, <2>12
<1> QED
  BY <1>2, <1>6, <1>7

LEMMA FlushInv ==
  ASSUME DriverInv, SessionFlush
  PROVE  DriverInv'
<1>1. WriterOK /\ KeyboardOK /\ MouseOK /\ PadsOK
  BY DEF DriverInv
<1>2. W!ExplicitFlush /\ UNCHANGED <<script, kbd, mouse, pads, stale>>
  BY DEF SessionFlush
<1>3. /\ WriterOK' /\ direct' = direct /\ accepted' = accepted /\ faults <= faults'
      /\ \A d : PhonePad(d)' = PhonePad(d)
      /\ \A d, b : LastIs(Sent, d, b) => LastIs(Sent', d, b)
  BY <1>1, <1>2, FlushViews
<1>4. /\ script' = script /\ keys' = keys /\ device_mod' = device_mod /\ slots' = slots
      /\ asked' = asked /\ stale' = stale
  BY <1>2 DEF kbd, pads
<1>5. KeyboardOK'
  <2>1. script' \in Seq(Events) /\ keys' \subseteq Keys
    BY <1>1, <1>4 DEF KeyboardOK
  <2>2. ASSUME stale'[HID_ID_KEYBOARD] = "no"
        PROVE  LastIs(Sent', HID_ID_KEYBOARD, [mods |-> device_mod', keys |-> Slotted(keys')])
    <3>1. LastIs(Sent, HID_ID_KEYBOARD, [mods |-> device_mod, keys |-> Slotted(keys)])
      BY <1>1, <1>4, <2>2 DEF KeyboardOK
    <3>2. LastIs(Sent', HID_ID_KEYBOARD, [mods |-> device_mod, keys |-> Slotted(keys)])
      BY <1>3, <3>1
    <3> QED
      BY <1>4, <3>2, Zenon
  <2> QED
    BY <2>1, <2>2 DEF KeyboardOK, Slotted
<1>6. MouseOK'
  <2>1. faults' \in Nat
    BY <1>3 DEF WriterOK
  <2>2. \A a \in Axes : Wheel(accepted', a) = Wheel(accepted, a)
    BY <1>3
  <2> QED
    BY <1>1, <1>2, <1>3, <2>1, <2>2, WheelRests
<1>7. PadsOK'
  <2>1. PadTypes'
    BY <1>1, <1>4 DEF PadsOK, PadTypes
  <2>2. \A i \in PadSlots : PadOK(i)'
    BY <1>1, <1>3, <1>4, PadRests DEF PadsOK
  <2> QED
    BY <2>1, <2>2 DEF PadsOK
<1> QED
  BY <1>3, <1>5, <1>6, <1>7 DEF DriverInv

LEMMA DriverStep ==
  ASSUME DriverInv, [DriverNext]_driverVars
  PROVE  DriverInv'
<1>1. CASE UNCHANGED driverVars
  <2>1. script' \in Seq(Events)
    BY <1>1 DEF driverVars, DriverInv, KeyboardOK
  <2> QED
    BY <1>1, <2>1, ScriptStep DEF driverVars, writer
<1>2. CASE DriverNext
  BY <1>2, KeyInv, TypeTextInv, KeyStepInv, MouseScrollInv, MouseMoveInv, PadOpenInv,
     PadCloseInv, PadSetInv, PadEventInv, PadUncheckedInv, FlushInv DEF DriverNext
<1> QED
  BY <1>1, <1>2

LEMMA DriverStart ==
  ASSUME DriverInit
  PROVE  DriverInv
<1>1. /\ wire = <<>> /\ pending = <<>> /\ accepted = <<>> /\ pushed = 0 /\ faults = 0
      /\ script = <<>> /\ keys = {}
      /\ residual = [a \in Axes |-> 0] /\ scrolled = [a \in Axes |-> 0]
      /\ slots = [i \in PadSlots |-> [id |-> 0, pad |-> Unused]]
      /\ asked = [i \in PadSlots |-> Unused]
      /\ stale = [d \in PadSlots \cup {HID_ID_KEYBOARD} |-> "no"]
  BY DEF DriverInit, W!Init
<1>2. Sent = <<>>
  BY <1>1 DEF Sent
<1>3. WriterOK
  <2>1. <<>> \in Seq(Packet) /\ InputsOnly(<<>>)
    BY NoNames
  <2>2. InputsOnly(pending)
    BY <1>1, <2>1, Zenon
  <2> QED
    BY <1>1, <2>1, <2>2 DEF WriterOK
<1>4. KeyboardOK
  <2>1. \A d, b : LastIs(<<>>, d, b)
    BY DEF LastIs
  <2>2. \A d, b : LastIs(Sent, d, b)
    BY <1>2, <2>1, Zenon
  <2>3. script \in Seq(Events)
    BY <1>1
  <2> QED
    BY <1>1, <2>2, <2>3 DEF KeyboardOK
<1>5. MouseOK
  <2>1. residual \in [Axes -> Int] /\ scrolled \in [Axes -> Int]
        /\ \A a \in Axes : residual[a] = 0 /\ scrolled[a] = 0
    BY <1>1
  <2>2. Lost = 0
    <3>1. 2 * MaxStep * 0 = 0
      BY DriverAssumption
    <3> QED
      BY <1>1, <3>1 DEF Lost
  <2>3. \A a \in Axes : ScrollGap(a) = 0
    <3> SUFFICES ASSUME NEW a \in Axes
                 PROVE  ScrollGap(a) = 0
      OBVIOUS
    <3>1. Wheel(accepted, a) = 0
      BY <1>1, WheelEmpty
    <3>2. ScrollGap(a) = 2 * Wheel(accepted, a) + residual[a] - scrolled[a]
      BY GapIs
    <3> QED
      BY <2>1, <3>1, <3>2
  <2> QED
    BY <2>1, <2>2, <2>3 DEF MouseOK
<1>6. PadsOK
  <2>1. PadTypes
    <3>1. [id |-> 0, pad |-> Unused] \in [id : PadIds \cup {0}, pad : PadStates]
      BY BodyFacts
    <3> QED
      BY <1>1, <3>1, BodyFacts DEF PadTypes
  <2>2. ASSUME NEW i \in PadSlots
        PROVE  PadOK(i)
    <3>1. PhonePad(i) = <<"none">>
      BY <1>2, ViewEmpty DEF PhonePad, View
    <3>2. slots[i].id = 0 /\ slots[i].pad = Unused /\ asked[i] = Unused
      BY <1>1, <2>2
    <3> QED
      BY <3>1, <3>2 DEF PadOK, AskedPad
  <2> QED
    BY <2>1, <2>2 DEF PadsOK
<1> QED
  BY <1>3, <1>4, <1>5, <1>6 DEF DriverInv

-----------------------------------------------------------------------------
(* The theorems.                                                           *)

(* The session's calls on its drivers (src/session.rs over src/hid/) keep  *)
(* the drivers' state, what they asked for and what the phone will have    *)
(* together as DriverInv says, for every number of pads, keys, calls and   *)
(* transport errors, in direct and in coalescing mode.                     *)
THEOREM DriverInvariant == DriverSpec => []DriverInv
<1>1. DriverInit => DriverInv
  BY DriverStart
<1>2. DriverInv /\ [DriverNext]_driverVars => DriverInv'
  BY DriverStep
<1> QED
  BY <1>1, <1>2, PTL DEF DriverSpec

(* GamepadHid (src/hid/gamepad.rs): suppressing a report that changes      *)
(* nothing never leaves the phone with a pad other than the one the calls  *)
(* asked for, unless a message for it was refused or sent past the driver. *)
THEOREM DriverPadAsAsked == DriverSpec => []PadAsAsked
<1>1. DriverInv => PadAsAsked
  BY DEF DriverInv, PadsOK, PadOK, PadAsAsked
<1> QED
  BY <1>1, DriverInvariant, PTL

(* KeyboardHid (src/hid/keyboard.rs): after a report that was taken the    *)
(* phone has exactly the keys held, or roll-over, whatever was lost before.*)
(* This rests on what the scan of build_report computes for every set of   *)
(* keys (ReportIs).                                                        *)
THEOREM DriverKeyboardHeals == DriverSpec => []KeyboardHeals
<1>1. DriverInv => KeyboardHeals
  BY DEF DriverInv, KeyboardOK, KeyboardHeals, LastIs, Slotted
<1> QED
  BY <1>1, DriverInvariant, PTL

(* MouseHid (src/hid/mouse.rs): the wheel steps reported and the fraction  *)
(* consume_scroll_integer keeps back add up to all the scroll asked for,   *)
(* but for the clamp and for one report of each error in direct mode.      *)
THEOREM DriverScrollConserved == DriverSpec => []ScrollConserved
<1>1. DriverInv => ScrollConserved
  BY DEF DriverInv, MouseOK, ScrollConserved, Lost
<1> QED
  BY <1>1, DriverInvariant, PTL

-----------------------------------------------------------------------------
(* The gamepad ring and the fast path, for every capacity, every counter   *)
(* width the capacity divides, every set of frames, any number of pushes,  *)
(* batches of any length and any number of faults.                         *)
(*                                                                         *)
(* The ring alone is proved first (RingSpec).  The fast path drives the    *)
(* ring only through its operations, so that it implements RingSpec and    *)
(* everything proved about the ring holds of the fast path; the order of   *)
(* delivery rests on that and on the invariant FastInv.                    *)

(* Arithmetic of slots and wrapping counters.                              *)

(* Integer division and remainder.                                         *)
LEMMA DivMod ==
  ASSUME NEW a \in Nat, NEW c \in Nat \ {0}
  PROVE  /\ a \div c \in Nat
         /\ a % c \in 0..(c - 1)
         /\ a = (c * (a \div c)) + (a % c)
  OBVIOUS

(* A remainder is determined by any decomposition.                         *)
LEMMA ModUnique ==
  ASSUME NEW c \in Nat \ {0}, NEW p \in Int, NEW q \in Int,
         NEW r \in 0..(c - 1), NEW s \in 0..(c - 1),
         (c * p) + r = (c * q) + s
  PROVE  r = s
  OBVIOUS

(* Two counter values fewer than Capacity apart have different slots.      *)
LEMMA IdxDistinct ==
  ASSUME NEW a \in Nat, NEW b \in Nat, a < b, b < a + Capacity
  PROVE  Idx(a) # Idx(b)
<1> DEFINE p == a \div Capacity
           q == b \div Capacity
<1>1. /\ p \in Nat /\ a = (Capacity * p) + Idx(a)
      /\ q \in Nat /\ b = (Capacity * q) + Idx(b)
      /\ Idx(a) \in Nat /\ Idx(b) \in Nat
  BY DivMod, CapacityAssumption DEF Idx
<1> HIDE DEF p, q
<1>2. SUFFICES ASSUME Idx(a) = Idx(b) PROVE FALSE
  OBVIOUS
<1>3. b - a = Capacity * (q - p)
  BY <1>1, <1>2, CapacityAssumption
<1>4. CASE q - p >= 1
  <2>1. Capacity * (q - p) >= Capacity
    BY <1>1, <1>4, CapacityAssumption
  <2> QED BY <2>1, <1>3, CapacityAssumption
<1>5. CASE q - p <= 0
  <2>1. Capacity * (q - p) <= 0
    BY <1>1, <1>5, CapacityAssumption
  <2> QED BY <2>1, <1>3
<1> QED BY <1>1, <1>4, <1>5

(* Adding a multiple of the divisor does not change a remainder.           *)
LEMMA ModShift ==
  ASSUME NEW a \in Nat, NEW c \in Nat \ {0}, NEW k \in Nat
  PROVE  (a + (c * k)) % c = a % c
<1> DEFINE b == a + (c * k)
           p == a \div c
           q == b \div c
<1>1. c * k \in Nat
  OBVIOUS
<1>2. b \in Nat
  BY <1>1
<1>3. p \in Nat /\ a = (c * p) + (a % c) /\ a % c \in 0..(c - 1)
  BY DivMod
<1>4. q \in Nat /\ b = (c * q) + (b % c) /\ b % c \in 0..(c - 1)
  BY <1>2, DivMod
<1>5. c * (p + k) = (c * p) + (c * k)
  BY <1>3
<1>6. b = a + (c * k)
  OBVIOUS
<1> HIDE DEF b, p, q
<1>7. c * p \in Nat /\ c * q \in Nat
  BY <1>3, <1>4
<1>8. (c * (p + k)) + (a % c) = (c * q) + (b % c)
  BY <1>1, <1>3, <1>4, <1>5, <1>6, <1>7
<1>9. p + k \in Int /\ q \in Int
  BY <1>3, <1>4
<1>10. a % c = b % c
  BY <1>3, <1>4, <1>8, <1>9, ModUnique, Zenon
<1> QED BY <1>10, <1>6

(* The slot of a counter survives the wrap, because Capacity divides Wrap. *)
LEMMA IdxShift ==
  ASSUME NEW a \in Nat
  PROVE  Idx(a + Wrap) = Idx(a) /\ Idx(a) \in Slot
<1>1. Wrap \div Capacity \in Nat /\ Wrap = Capacity * (Wrap \div Capacity)
  BY DivMod, CapacityAssumption
<1>2. (a + (Capacity * (Wrap \div Capacity))) % Capacity = a % Capacity
  BY <1>1, ModShift, CapacityAssumption
<1>3. a % Capacity \in 0..(Capacity - 1)
  BY DivMod, CapacityAssumption
<1> QED BY <1>1, <1>2, <1>3 DEF Idx, Slot

(* Walking d steps up from b reaches a, up to one wrap.                    *)
LEMMA SubFacts ==
  ASSUME NEW a \in Counter, NEW b \in Counter
  PROVE  /\ Sub(a, b) \in 0..(Wrap - 1)
         /\ Sub(a, b) = 0 <=> a = b
         /\ b + Sub(a, b) = a \/ b + Sub(a, b) = a + Wrap
         /\ Inc(a) \in Counter
         /\ Inc(a) = a + 1 \/ (Inc(a) + Wrap = a + 1)
         /\ Idx(b + Sub(a, b)) = Idx(a)
         /\ Idx(a) \in Slot
<1>1. /\ Sub(a, b) \in 0..(Wrap - 1)
      /\ Sub(a, b) = 0 <=> a = b
      /\ b + Sub(a, b) = a \/ b + Sub(a, b) = a + Wrap
      /\ Inc(a) \in Counter
      /\ Inc(a) = a + 1 \/ (Inc(a) + Wrap = a + 1)
  BY CapacityAssumption DEF Sub, Inc, Counter
<1>2. a \in Nat
  BY CapacityAssumption DEF Counter
<1> QED BY <1>1, <1>2, IdxShift

(* The i-th counter above an incremented one that has wrapped.             *)
LEMMA WrapStep ==
  ASSUME NEW t \in Nat, NEW u \in Nat, NEW w \in Nat, NEW i \in Nat \ {0},
         u + w = t + 1
  PROVE  /\ (u + i) - 1 \in Nat
         /\ ((u + i) - 1) + w = (t + (i + 1)) - 1
  OBVIOUS

-----------------------------------------------------------------------------
(* The queue as a sequence.                                                *)

(* Append, entry by entry.                                                 *)
LEMMA AppendEntries ==
  ASSUME NEW S, NEW s \in Seq(S), NEW e \in S
  PROVE  Append(s, e) = [i \in 1..(Len(s) + 1) |-> IF i <= Len(s) THEN s[i] ELSE e]
<1> DEFINE a == Append(s, e)
           n == Len(s)
<1>1. /\ a \in Seq(S) /\ Len(a) = n + 1 /\ n \in Nat
      /\ \A i \in 1..n : a[i] = s[i]
      /\ a[n + 1] = e
  BY AppendProperties, LenProperties
<1>2. a = [i \in 1..(n + 1) |-> a[i]]
  BY <1>1, LenProperties
<1>3. \A i \in 1..(n + 1) : a[i] = IF i <= n THEN s[i] ELSE e
  BY <1>1
<1> QED BY <1>2, <1>3

(* Appending to a concatenation appends to its second part.                *)
LEMMA AppendConcat ==
  ASSUME NEW S, NEW s \in Seq(S), NEW t \in Seq(S), NEW e \in S
  PROVE  Append(s \o t, e) = s \o Append(t, e)
<1>1. s \o t \in Seq(S) /\ <<e>> \in Seq(S)
  BY ConcatProperties
<1>2. Append(s \o t, e) = (s \o t) \o <<e>> /\ Append(t, e) = t \o <<e>>
  BY <1>1, AppendIsConcat
<1> QED BY <1>1, <1>2, ConcatAssociative

(* Tail, entry by entry.                                                   *)
LEMMA TailEntries ==
  ASSUME NEW S, NEW s \in Seq(S), s # <<>>
  PROVE  /\ Tail(s) = [i \in 1..(Len(s) - 1) |-> s[i + 1]]
         /\ Head(s) = s[1]
<1>1. /\ Tail(s) \in Seq(S) /\ Len(Tail(s)) = Len(s) - 1
      /\ \A i \in 1..Len(Tail(s)) : Tail(s)[i] = s[i + 1]
  BY HeadTailProperties
<1>2. Tail(s) = [i \in 1..(Len(s) - 1) |-> Tail(s)[i]]
  BY <1>1, LenProperties
<1> QED BY <1>1, <1>2

(* Moving the first entry of the second part to the end of the first.      *)
LEMMA ShiftConcat ==
  ASSUME NEW S, NEW s \in Seq(S), NEW t \in Seq(S), t # <<>>
  PROVE  s \o t = Append(s, Head(t)) \o Tail(t)
<1> DEFINE u == Append(s, Head(t))
<1>1. /\ Head(t) \in S /\ Tail(t) \in Seq(S) /\ Len(Tail(t)) = Len(t) - 1
      /\ \A i \in 1..Len(Tail(t)) : Tail(t)[i] = t[i + 1]
      /\ Head(t) = t[1] /\ Len(s) \in Nat /\ Len(t) \in Nat \ {0}
  BY HeadTailProperties, LenProperties, EmptySeq
<1>2. /\ u \in Seq(S) /\ Len(u) = Len(s) + 1
      /\ \A i \in 1..Len(s) : u[i] = s[i]
      /\ u[Len(s) + 1] = t[1]
  BY <1>1, AppendProperties
<1>3. /\ s \o t \in Seq(S) /\ Len(s \o t) = Len(s) + Len(t)
      /\ \A i \in 1..(Len(s) + Len(t)) :
           (s \o t)[i] = IF i <= Len(s) THEN s[i] ELSE t[i - Len(s)]
  BY ConcatProperties
<1>4. /\ u \o Tail(t) \in Seq(S) /\ Len(u \o Tail(t)) = Len(s) + Len(t)
      /\ \A i \in 1..(Len(s) + Len(t)) :
           (u \o Tail(t))[i] = IF i <= Len(s) + 1 THEN u[i]
                               ELSE Tail(t)[i - (Len(s) + 1)]
  <2>1. /\ u \o Tail(t) \in Seq(S) /\ Len(u \o Tail(t)) = Len(u) + Len(Tail(t))
        /\ \A i \in 1..(Len(u) + Len(Tail(t))) :
             (u \o Tail(t))[i] = IF i <= Len(u) THEN u[i]
                                 ELSE Tail(t)[i - Len(u)]
    BY <1>1, <1>2, ConcatProperties
  <2>2. Len(u) + Len(Tail(t)) = Len(s) + Len(t)
    BY <1>1, <1>2
  <2> QED BY <1>2, <2>1, <2>2
<1> HIDE DEF u
<1>5. ASSUME NEW i \in 1..(Len(s) + Len(t))
      PROVE  (s \o t)[i] = (u \o Tail(t))[i]
  <2>1. CASE i <= Len(s)
    BY <1>1, <1>2, <1>3, <1>4, <2>1
  <2>2. CASE i = Len(s) + 1
    BY <1>1, <1>2, <1>3, <1>4, <2>2
  <2>3. CASE i > Len(s) + 1
    <3>1. /\ i - (Len(s) + 1) \in 1..Len(Tail(t))
          /\ (i - (Len(s) + 1)) + 1 = i - Len(s)
      BY <1>1, <2>3
    <3> QED BY <1>1, <1>3, <1>4, <2>3, <3>1
  <2>4. i <= Len(s) \/ i = Len(s) + 1 \/ i > Len(s) + 1
    BY <1>1
  <2> QED BY <2>1, <2>2, <2>3, <2>4
<1>6. s \o t = u \o Tail(t)
  BY <1>3, <1>4, <1>5, SeqEqual
<1> QED BY <1>6 DEF u

(* The function Queue is a sequence of Occupied frames.                    *)
LEMMA QueueFacts ==
  ASSUME RingTypeOK, RingInv
  PROVE  /\ Occupied \in Nat
         /\ Queue \in Seq(PadFrames)
         /\ Len(Queue) = Occupied
         /\ \A i \in 1..Occupied : Queue[i] = cells[Idx((tail + i) - 1)]
<1>1. Occupied \in Nat
  BY CapacityAssumption DEF RingTypeOK, Occupied, Sub, Counter
<1>2. Queue \in [1..Occupied -> PadFrames]
  BY <1>1 DEF Queue, RingInv
<1>3. Queue \in Seq(PadFrames)
  BY <1>1, <1>2, SeqDef
<1>4. Len(Queue) = Occupied
  BY <1>1, <1>3, LenProperties DEF Queue
<1> QED BY <1>1, <1>3, <1>4 DEF Queue

-----------------------------------------------------------------------------
(* The invariant is inductive.                                             *)

IInv == RingTypeOK /\ RingInv

(* Steps of push that move no frame: the loads.                            *)
LEMMA LoadInv ==
  ASSUME IInv, PushFull \/ \E f \in PadFrames : PushLoad(f)
  PROVE  IInv'
<1> USE DEF IInv
<1>1. PICK t \in Counter : /\ Sub(t, view) <= Sub(tail, view)
                           /\ view' = t
                           /\ PushFull \/ Sub(head, t) < Capacity
  BY DEF PushLoad, PushFull, Loadable
<1>2. /\ Sub(tail, t) + Sub(head, tail) = Sub(head, t)
      /\ Sub(head, t) <= Capacity
  BY <1>1, CapacityAssumption DEF RingTypeOK, RingInv, Sub, Counter
<1>3. UNCHANGED <<head, tail, cells, cpc, held, sent, got>>
  BY DEF PushLoad, PushFull, consumer
<1>4. UNCHANGED <<Occupied, Queue>>
  BY <1>3 DEF Occupied, Queue
<1>5. RingTypeOK'
  BY <1>1, <1>3 DEF RingTypeOK, PushLoad, PushFull
<1>6. RingInv'
  BY <1>1, <1>2, <1>3, <1>4 DEF RingInv, PushLoad, PushFull, Sub, Idx, RingTypeOK
<1> QED BY <1>5, <1>6

(* The slot the producer writes holds none of the queued frames.           *)
LEMMA WriteInv ==
  ASSUME IInv, PushWrite
  PROVE  IInv' /\ UNCHANGED <<Queue, got>>
<1> USE DEF IInv
<1>1. UNCHANGED <<head, tail, view, frame, cpc, held, sent,
                  got>>
  BY DEF PushWrite, consumer
<1>2. /\ ppc = "write" /\ ppc' = "publish" /\ frame \in PadFrames
      /\ cells' = [cells EXCEPT ![Idx(head)] = frame]
  BY DEF PushWrite, RingInv
<1>3. /\ Idx(head) \in Slot
      /\ Idx(tail + Occupied) = Idx(head)
      /\ Occupied \in Nat /\ tail \in Nat
  BY SubFacts, CapacityAssumption DEF RingTypeOK, Occupied, Counter
<1>4. Occupied < Capacity
  BY <1>2, CapacityAssumption DEF RingTypeOK, RingInv, Occupied, Sub, Counter
<1>5. ASSUME NEW i \in 1..Occupied
      PROVE  cells'[Idx((tail + i) - 1)] = cells[Idx((tail + i) - 1)]
  <2>1. Idx((tail + i) - 1) # Idx(tail + Occupied)
    BY <1>3, <1>4, IdxDistinct, CapacityAssumption
  <2> QED BY <1>2, <1>3, <2>1 DEF RingTypeOK
<1>6. UNCHANGED Occupied
  BY <1>1 DEF Occupied
<1>7. UNCHANGED Queue
  BY <1>1, <1>5, <1>6 DEF Queue
<1>8. cells'[Idx(head)] = frame
  BY <1>2, <1>3 DEF RingTypeOK
<1>9. cpc = "publish" => cells'[Idx(tail)] = cells[Idx(tail)]
  <2>1. SUFFICES ASSUME cpc = "publish" PROVE cells'[Idx(tail)] = cells[Idx(tail)]
    OBVIOUS
  <2>2. Occupied # 0
    BY <2>1, SubFacts DEF RingInv, RingTypeOK, Occupied
  <2>3. 1 \in 1..Occupied /\ (tail + 1) - 1 = tail
    BY <1>3, <2>2
  <2> QED BY <1>5, <2>3
<1>10. RingTypeOK'
  BY <1>1, <1>2, <1>3 DEF RingTypeOK
<1>11. RingInv'
  BY <1>1, <1>2, <1>6, <1>7, <1>8, <1>9 DEF RingInv, Idx, Sub
<1> QED BY <1>1, <1>7, <1>10, <1>11

(* Publishing head appends the written frame to the queue.                 *)
LEMMA PublishFacts ==
  ASSUME IInv, PushPublish
  PROVE  /\ IInv'
         /\ Queue' = Append(Queue, frame)
         /\ frame \in PadFrames
         /\ Len(Queue) < Capacity
<1> USE DEF IInv
<1>1. UNCHANGED <<tail, cells, view, frame, cpc, held, got>>
  BY DEF PushPublish, consumer
<1>2. /\ ppc = "publish" /\ ppc' = "idle" /\ frame \in PadFrames
      /\ head' = Inc(head) /\ sent' = Append(sent, frame)
      /\ cells[Idx(head)] = frame
      /\ Sub(head, view) < Capacity
  BY DEF PushPublish, RingInv
<1>3. /\ Idx(tail + Occupied) = Idx(head)
      /\ Occupied \in Nat /\ tail \in Nat /\ head' \in Counter
  <2>1. head \in Counter /\ tail \in Counter
    BY DEF RingTypeOK
  <2>2. Idx(tail + Occupied) = Idx(head) /\ Inc(head) \in Counter
    BY <2>1, SubFacts DEF Occupied
  <2> QED BY <1>2, <2>1, <2>2, CapacityAssumption DEF Occupied, Sub, Counter
<1>4. /\ Occupied < Capacity
      /\ Occupied' = Occupied + 1
      /\ Sub(tail', view') + Sub(head', tail') = Sub(head', view')
      /\ Sub(head', view') <= Capacity
      /\ head' # tail'
  BY <1>1, <1>2, CapacityAssumption DEF RingTypeOK, RingInv, Occupied, Sub, Counter, Inc
<1>5. /\ Queue \in Seq(PadFrames) /\ Len(Queue) = Occupied
      /\ \A i \in 1..Occupied : Queue[i] = cells[Idx((tail + i) - 1)]
  BY QueueFacts
<1>6. \A i \in 1..(Occupied + 1) :
        cells[Idx((tail + i) - 1)] = IF i <= Occupied THEN Queue[i] ELSE frame
  <2>1. SUFFICES ASSUME NEW i \in 1..(Occupied + 1)
                 PROVE  cells[Idx((tail + i) - 1)]
                          = IF i <= Occupied THEN Queue[i] ELSE frame
    OBVIOUS
  <2>2. CASE i <= Occupied
    BY <1>3, <1>5, <2>2
  <2>3. CASE i = Occupied + 1
    <3>1. (tail + i) - 1 = tail + Occupied
      BY <1>3, <2>3
    <3> QED BY <1>2, <1>3, <2>3, <3>1
  <2> QED BY <1>3, <2>2, <2>3
<1>7. Queue' = [i \in 1..(Occupied + 1) |-> cells[Idx((tail + i) - 1)]]
  BY <1>1, <1>4 DEF Queue, Idx
<1>8. Append(Queue, frame)
        = [i \in 1..(Occupied + 1) |-> IF i <= Occupied THEN Queue[i] ELSE frame]
  BY <1>2, <1>5, AppendEntries
<1>9. Queue' = Append(Queue, frame)
  BY <1>6, <1>7, <1>8
<1>10. sent' = got' \o Queue'
  <2>1. got \in Seq(PadFrames) /\ sent = got \o Queue
    BY DEF RingTypeOK, RingInv
  <2>2. frame \in PadFrames /\ Queue \in Seq(PadFrames)
    BY <1>2, <1>5
  <2>3. Append(got \o Queue, frame) = got \o Append(Queue, frame)
    <3> HIDE DEF IInv
    <3> QED BY ONLY <2>1, <2>2, AppendConcat, SMTT(30)
  <2> QED BY <1>1, <1>2, <1>9, <2>1, <2>3
<1>11. \A i \in 1..Occupied' : Queue'[i] \in PadFrames
  BY <1>2, <1>3, <1>4, <1>5, <1>8, <1>9, ElementOfSeq
<1>12. RingTypeOK'
  BY <1>1, <1>2, <1>3 DEF RingTypeOK
<1>13. RingInv'
  BY <1>1, <1>2, <1>4, <1>10, <1>11 DEF RingInv, Idx
<1> QED BY <1>2, <1>4, <1>5, <1>9, <1>12, <1>13

(* Publishing tail takes the oldest frame, the one the consumer has read,  *)
(* out of the queue.                                                       *)
LEMMA TakeFacts ==
  ASSUME IInv, PopPublish
  PROVE  /\ IInv'
         /\ Queue # <<>>
         /\ Queue' = Tail(Queue)
         /\ got' = Append(got, Head(Queue))
<1> USE DEF IInv
<1>1. UNCHANGED <<head, cells, view, ppc, frame, held, sent>>
  BY DEF PopPublish, producer
<1>2. /\ cpc = "publish" /\ cpc' = "idle"
      /\ tail' = Inc(tail) /\ got' = Append(got, held)
      /\ held = cells[Idx(tail)] /\ head # tail
  BY DEF PopPublish, RingInv
<1>3. /\ head \in Counter /\ tail \in Counter /\ tail \in Nat
      /\ tail' \in Counter
      /\ tail' = tail + 1 \/ tail' + Wrap = tail + 1
  <2>1. head \in Counter /\ tail \in Counter
    BY DEF RingTypeOK
  <2> QED BY <1>2, <2>1, CapacityAssumption DEF Inc, Counter
<1>4. /\ Occupied \in Nat /\ Occupied > 0
      /\ Occupied' = Occupied - 1
      /\ Sub(tail', view') + Sub(head', tail') = Sub(head', view')
      /\ Sub(head', view') <= Capacity
      /\ ppc # "idle" => Sub(head', view') < Capacity
  <2>1. /\ view \in Counter
        /\ Sub(tail, view) + Sub(head, tail) = Sub(head, view)
        /\ Sub(head, view) <= Capacity
        /\ ppc # "idle" => Sub(head, view) < Capacity
    BY DEF RingTypeOK, RingInv
  <2>2. Occupied \in Nat /\ Occupied > 0
    BY <1>2, <1>3, CapacityAssumption DEF Occupied, Sub, Counter
  <2>3. Sub(head, tail') = Sub(head, tail) - 1
    <3>1. \A h \in Counter, a \in Counter, b \in Counter :
            h # a /\ (b = a + 1 \/ b + Wrap = a + 1) => Sub(h, b) = Sub(h, a) - 1
      BY CapacityAssumption DEF Sub, Counter
    <3>2. head # tail
      BY <1>2
    <3> QED BY <1>3, <3>1, <3>2
  <2>4. Sub(tail', view) = Sub(tail, view) + 1
    BY <1>2, <1>3, <2>1, <2>2, CapacityAssumption DEF Sub, Counter, Occupied
  <2>5. Occupied' = Sub(head, tail')
    BY <1>1 DEF Occupied, Sub
  <2>6. /\ Sub(tail, view) \in Int /\ Sub(head, tail) \in Int
        /\ Sub(head', view') = Sub(head, view)
        /\ Sub(tail', view') = Sub(tail', view)
        /\ Sub(head', tail') = Sub(head, tail')
    BY <1>1, <1>3, <2>1, CapacityAssumption DEF Sub, Counter
  <2> QED BY <2>1, <2>2, <2>3, <2>4, <2>5, <2>6 DEF Occupied
<1>5. /\ Queue \in Seq(PadFrames) /\ Len(Queue) = Occupied
      /\ \A i \in 1..Occupied : Queue[i] = cells[Idx((tail + i) - 1)]
  BY QueueFacts
<1>6. Queue # <<>>
  BY <1>4, <1>5
<1>7. \A i \in 1..(Occupied - 1) : cells[Idx((tail' + i) - 1)] = Queue[i + 1]
  <2>1. SUFFICES ASSUME NEW i \in 1..(Occupied - 1)
                 PROVE  cells[Idx((tail' + i) - 1)] = Queue[i + 1]
    OBVIOUS
  <2>2. Queue[i + 1] = cells[Idx((tail + (i + 1)) - 1)]
    BY <1>4, <1>5
  <2>3. CASE tail' = tail + 1
    <3>1. (tail' + i) - 1 = (tail + (i + 1)) - 1
      BY <1>3, <1>4, <2>3
    <3> QED BY <2>2, <3>1
  <2>4. CASE tail' + Wrap = tail + 1
    <3>1. /\ (tail' + i) - 1 \in Nat
          /\ ((tail' + i) - 1) + Wrap = (tail + (i + 1)) - 1
      <4>1. tail' \in Nat /\ tail \in Nat /\ i \in Nat \ {0} /\ Wrap \in Nat
        BY <1>3, <1>4, CapacityAssumption DEF Counter
      <4>2. \A u \in Nat : u + Wrap = tail + 1 =>
              (u + i) - 1 \in Nat /\ ((u + i) - 1) + Wrap = (tail + (i + 1)) - 1
        BY <4>1, WrapStep
      <4>3. tail' \in Nat /\ tail' + Wrap = tail + 1
        BY <2>4, <4>1
      <4> QED BY <4>2, <4>3, Zenon
    <3>2. Idx(((tail' + i) - 1) + Wrap) = Idx((tail' + i) - 1)
      BY <3>1, IdxShift
    <3> QED BY <2>2, <3>1, <3>2
  <2> QED BY <1>3, <2>3, <2>4
<1>8. Queue' = [i \in 1..(Occupied - 1) |-> cells[Idx((tail' + i) - 1)]]
  BY <1>1, <1>4 DEF Queue, Idx
<1>9. Tail(Queue) = [i \in 1..(Occupied - 1) |-> Queue[i + 1]] /\ Head(Queue) = Queue[1]
  BY <1>5, <1>6, TailEntries
<1>10. Queue' = Tail(Queue)
  BY <1>7, <1>8, <1>9
<1>11. held = Head(Queue) /\ held \in PadFrames
  <2>1. 1 \in 1..Occupied /\ (tail + 1) - 1 = tail
    BY <1>3, <1>4
  <2> QED BY <1>2, <1>5, <1>9, <2>1, ElementOfSeq
<1>12. sent' = got' \o Queue'
  <2>1. got \in Seq(PadFrames) /\ sent = got \o Queue
    BY DEF RingTypeOK, RingInv
  <2>2. got \o Queue = Append(got, Head(Queue)) \o Tail(Queue)
    BY <1>5, <1>6, <2>1, ShiftConcat, Zenon
  <2> QED BY <1>1, <1>2, <1>10, <1>11, <2>1, <2>2
<1>13. \A i \in 1..Occupied' : Queue'[i] \in PadFrames
  <2>1. \A i \in 1..(Occupied - 1) : Queue[i + 1] \in PadFrames
    BY <1>4 DEF RingInv
  <2> QED BY <1>4, <1>7, <1>8, <2>1
<1>14. RingTypeOK'
  BY <1>1, <1>2, <1>3, <1>11 DEF RingTypeOK
<1>15. RingInv'
  <2>1. UNCHANGED Idx(head)
    BY <1>1 DEF Idx
  <2> QED BY <1>1, <1>2, <1>4, <1>12, <1>13, <2>1 DEF RingInv
<1> QED BY <1>2, <1>6, <1>10, <1>11, <1>14, <1>15

(* The other steps of pop and stuttering leave the ring alone.             *)
LEMMA QuietInv ==
  ASSUME IInv, PopLoad \/ PopRead \/ UNCHANGED ringVars
  PROVE  IInv' /\ UNCHANGED <<Queue, got>>
<1> USE DEF IInv
<1>1. UNCHANGED <<head, tail, cells, view, ppc, frame, sent, got>>
  BY DEF PopLoad, PopRead, ringVars, producer
<1>2. UNCHANGED <<Occupied, Queue, Idx(head), Idx(tail), Sub(tail, view),
                  Sub(head, tail), Sub(head, view)>>
  BY <1>1 DEF Occupied, Queue, Idx, Sub
<1>3. Idx(tail) \in Slot
  BY SubFacts DEF RingTypeOK
<1>4. RingTypeOK'
  <2>1. cpc' \in {"idle", "read", "publish"} /\ held' \in PadFrames \cup {Uninit}
    BY <1>3 DEF RingTypeOK, PopLoad, PopRead, ringVars, consumer
  <2> QED BY <1>1, <2>1 DEF RingTypeOK
<1>5. /\ cpc' # "idle" => head # tail
      /\ cpc' = "publish" => held' = cells[Idx(tail)]
  BY DEF RingInv, PopLoad, PopRead, ringVars, consumer
<1>6. RingInv'
  BY <1>1, <1>2, <1>5 DEF RingInv
<1> QED BY <1>1, <1>2, <1>4, <1>6

-----------------------------------------------------------------------------
(* The theorems.                                                           *)

(* An empty ring satisfies the invariant and maps to the empty queue.      *)
LEMMA InitInv == RingInit => IInv
<1>1. SUFFICES ASSUME RingInit PROVE IInv
  OBVIOUS
<1>2. Occupied = 0
  BY <1>1 DEF RingInit, Occupied, Sub
<1>3. Queue = <<>> /\ \A i \in 1..Occupied : FALSE
  BY <1>2 DEF Queue
<1>4. RingTypeOK
  BY <1>1, CapacityAssumption DEF RingInit, RingTypeOK, Counter, Slot
<1>5. RingInv
  BY <1>1, <1>3, CapacityAssumption DEF RingInit, RingInv, Sub
<1> QED BY <1>4, <1>5 DEF IInv

(* Every step keeps the invariant and is a step of the abstract queue, or  *)
(* leaves it as it is.                                                     *)
LEMMA StepInv ==
  ASSUME IInv, [RingNext]_ringVars
  PROVE  IInv' /\ [Fifo!Next]_<<Queue, got>>
<1>1. CASE PushWrite
  BY <1>1, WriteInv
<1>2. CASE PushPublish
  <2>1. /\ IInv' /\ Queue' = Append(Queue, frame)
        /\ frame \in PadFrames /\ Len(Queue) < Capacity /\ UNCHANGED got
    BY <1>2, PublishFacts DEF PushPublish
  <2>2. Fifo!Put(frame)
    BY <2>1 DEF Fifo!Put
  <2> QED BY <2>1, <2>2 DEF Fifo!Next
<1>3. CASE PopPublish
  <2>1. /\ IInv' /\ Queue # <<>> /\ Queue' = Tail(Queue)
        /\ got' = Append(got, Head(Queue))
    BY <1>3, TakeFacts
  <2> QED BY <2>1 DEF Fifo!Next, Fifo!Take
<1>4. CASE PushFull \/ \E f \in PadFrames : PushLoad(f)
  <2>1. UNCHANGED <<head, tail, cells, got>>
    BY <1>4 DEF PushFull, PushLoad
  <2>2. UNCHANGED <<Queue, got>>
    BY <2>1 DEF Queue, Occupied
  <2>3. IInv'
    BY <1>4, LoadInv
  <2> QED BY <2>2, <2>3
<1>5. CASE PopLoad \/ PopRead \/ UNCHANGED ringVars
  BY <1>5, QuietInv
<1> QED BY <1>1, <1>2, <1>3, <1>4, <1>5 DEF RingNext, Producing, Popping

(* Type correctness and the inductive invariant of the ring: the counters, *)
(* the producer's stale tail and the slots stay consistent across wraps.   *)
THEOREM RingInvariant == RingSpec => [](RingTypeOK /\ RingInv)
<1>1. IInv /\ [RingNext]_ringVars => IInv'
  BY StepInv
<1> QED BY <1>1, InitInv, PTL DEF RingSpec, IInv

(* push and pop never touch the same slot at the same time.                *)
THEOREM RingSlotExclusive == RingSpec => []SlotExclusive
<1>1. IInv => SlotExclusive
  <2>1. SUFFICES ASSUME IInv, ppc = "write", cpc = "read", Idx(head) = Idx(tail)
                 PROVE  FALSE
    BY DEF SlotExclusive
  <2>2. /\ head \in Counter /\ tail \in Counter /\ head # tail
        /\ tail \in Nat
    BY <2>1, CapacityAssumption DEF IInv, RingTypeOK, RingInv, Counter
  <2>3. /\ Occupied \in Nat /\ 0 < Occupied /\ Occupied < Capacity
    BY <2>1, <2>2, CapacityAssumption
       DEF IInv, RingTypeOK, RingInv, Occupied, Sub, Counter
  <2>4. Idx(tail + Occupied) = Idx(head)
    BY <2>2, SubFacts DEF Occupied
  <2>5. Idx(tail) # Idx(tail + Occupied)
    BY <2>2, <2>3, IdxDistinct, CapacityAssumption
  <2> QED BY <2>1, <2>4, <2>5
<1> QED BY <1>1, RingInvariant, PTL DEF IInv

(* pop never reads uninitialised memory.                                   *)
THEOREM RingNoUninitRead == RingSpec => []NoUninitRead
<1>1. IInv => NoUninitRead
  <2>1. SUFFICES ASSUME IInv, cpc = "publish" PROVE held \in PadFrames
    BY DEF NoUninitRead
  <2>2. head # tail /\ held = cells[Idx(tail)] /\ tail \in Nat
    BY <2>1, CapacityAssumption DEF IInv, RingTypeOK, RingInv, Counter
  <2>3. Occupied \in Nat \ {0}
    BY <2>1, <2>2, CapacityAssumption DEF IInv, RingTypeOK, Occupied, Sub, Counter
  <2>4. 1 \in 1..Occupied /\ (tail + 1) - 1 = tail
    BY <2>2, <2>3
  <2>5. Queue[1] = cells[Idx(tail)] /\ Queue[1] \in PadFrames
    BY <2>1, <2>4, QueueFacts DEF IInv, RingInv
  <2> QED BY <2>2, <2>5
<1> QED BY <1>1, RingInvariant, PTL DEF IInv

(* No frame is lost, duplicated, reordered or overwritten in the ring.     *)
THEOREM RingNoFrameLost == RingSpec => []NoFrameLost
<1>1. IInv => NoFrameLost
  BY DEF IInv, RingInv, NoFrameLost
<1> QED BY <1>1, RingInvariant, PTL DEF IInv

(* The ring, at the grain of loads and stores, implements a bounded FIFO.  *)
THEOREM RingImplementsFifo == RingSpec => RingIsFifo
<1>1. RingInit => Fifo!Init
  <2>1. SUFFICES ASSUME RingInit PROVE Queue = <<>> /\ got = <<>>
    BY DEF Fifo!Init
  <2>2. Occupied = 0
    BY <2>1 DEF RingInit, Occupied, Sub
  <2> QED BY <2>1, <2>2 DEF RingInit, Queue
<1>2. IInv /\ [RingNext]_ringVars => [Fifo!Next]_<<Queue, got>>
  BY StepInv
<1>3. RingSpec => []IInv
  BY RingInvariant DEF IInv
<1> QED BY <1>1, <1>2, <1>3, PTL DEF RingSpec, RingIsFifo, Fifo!Spec

-----------------------------------------------------------------------------
(* The fast path over the ring.                                            *)

(* A frame number is drawn when its push starts: the numbers in the ring   *)
(* increase, and those of a push under way come after them.                *)
ProducerInv ==
  /\ Len(sent) <= made
  /\ \A i \in 1..Len(sent) : sent[i] <= made
  /\ \A i, j \in 1..Len(sent) : i < j => sent[i] < sent[j]
  /\ ppc # "idle" => /\ frame = made /\ left > 0 /\ Len(sent) < made
                     /\ \A i \in 1..Len(sent) : sent[i] < made
                     /\ made + left <= MaxPushes + 1
  /\ ppc = "idle" => made + left <= MaxPushes

(* What the consumer has popped is what it has injected, plus at most the  *)
(* frame in its hand; after a failed send it pops no more.                 *)
ConsumerInv ==
  /\ cpc # "idle" => loop = "pop"
  /\ loop \in {"pop", "check"} => got = applied
  /\ loop = "inject" => got = Append(applied, held)
  /\ Len(applied) <= Len(got)
  /\ \A i \in 1..Len(applied) : applied[i] = got[i]

FastInv == TypeOK /\ RingInv /\ ProducerInv /\ ConsumerInv

-----------------------------------------------------------------------------
(* The ring under the fast path.                                           *)

(* Every step of the fast path is a step of the ring or leaves it alone.   *)
LEMMA RingStep ==
  ASSUME FastInv, [Next]_vars
  PROVE  [RingNext]_ringVars
<1>1. CASE PushNext
  <2>1. PushLoad(made + 1) /\ left > 0 /\ ppc = "idle"
    BY <1>1 DEF PushNext, PushLoad
  <2>2. /\ made \in Nat /\ left \in Nat /\ MaxPushes \in Nat /\ Len(sent) \in Nat
        /\ Len(sent) <= made /\ made + left <= MaxPushes
    BY <2>1, FrameAssumption, BoundsAreNatural, LenProperties
       DEF FastInv, TypeOK, RingTypeOK, ProducerInv
  <2>3. Len(sent) < MaxPushes /\ made + 1 \in PadFrames
    BY <2>1, <2>2, FramesAreNumbered
  <2> QED BY <2>1, <2>3 DEF RingNext, Producing
<1>2. CASE SpillNext \/ PushStore \/ PushDone
  BY <1>2 DEF SpillNext, PushStore, PushDone, RingNext, Producing
<1>3. CASE PopSome \/ PopTake \/ PopDone
  BY <1>3 DEF PopSome, PopTake, PopDone, RingNext, Popping
<1>4. CASE SendCall \/ SendReturn \/ CloseClient \/ PopNone \/ UNCHANGED vars
  BY <1>4 DEF SendCall, SendReturn, CloseClient, PopNone, PopEmpty, vars
<1>5. CASE InjectOk \/ InjectErr \/ CheckClose \/ CloseSession \/ IntoInner
  BY <1>5 DEF InjectOk, InjectErr, CheckClose, CloseSession, IntoInner, EndSession
<1> QED BY <1>1, <1>2, <1>3, <1>4, <1>5 DEF Next, ProducerStep, ConsumerStep

(* So the ring's own invariant is kept.                                    *)
LEMMA RingKept ==
  ASSUME FastInv, [Next]_vars
  PROVE  RingTypeOK' /\ RingInv'
<1>1. IInv /\ [RingNext]_ringVars
  BY RingStep DEF FastInv, TypeOK, IInv
<1> QED BY <1>1, StepInv DEF IInv

-----------------------------------------------------------------------------
(* The two threads.                                                        *)

(* The producer's frame numbers, step by step.                             *)
LEMMA ProducerKept ==
  ASSUME FastInv, [Next]_vars
  PROVE  ProducerInv' /\ left' \in 0..MaxBatch /\ made' \in 0..MaxPushes
<1>1. /\ made \in Nat /\ left \in Nat /\ MaxPushes \in Nat /\ MaxBatch \in Nat
      /\ left \in 0..MaxBatch /\ made \in 0..MaxPushes
      /\ sent \in Seq(PadFrames) /\ Len(sent) \in Nat
      /\ \A i \in 1..Len(sent) : sent[i] \in Nat
  BY FrameAssumption, BoundsAreNatural, FramesAreNumbered, LenProperties,
     ElementOfSeq DEF FastInv, TypeOK, RingTypeOK
<1>2. ProducerInv
  BY DEF FastInv
<1>3. CASE SendCall
  <2>1. PICK n \in 1..MaxBatch : made + n <= MaxPushes /\ left' = n
    BY <1>3 DEF SendCall
  <2>2. UNCHANGED <<sent, made, ppc, frame>>
    BY <1>3 DEF SendCall, ringVars
  <2> QED
    BY <1>1, <1>2, <2>1, <2>2 DEF ProducerInv
<1>4. CASE PushNext
  <2>1. /\ left > 0 /\ ppc = "idle" /\ ppc' = "write" /\ frame' = made + 1
        /\ made' = made + 1 /\ UNCHANGED <<sent, left>>
    BY <1>4 DEF PushNext, PushLoad
  <2> QED BY <1>1, <1>2, <2>1 DEF ProducerInv
<1>5. CASE SpillNext
  <2>1. /\ left > 0 /\ ppc = "idle" /\ made' = made + 1 /\ left' = left - 1
        /\ UNCHANGED <<sent, ppc, frame>>
    BY <1>5 DEF SpillNext, PushFull
  <2> QED BY <1>1, <1>2, <2>1 DEF ProducerInv
<1>6. CASE PushStore
  <2>1. ppc = "write" /\ ppc' = "publish" /\ UNCHANGED <<sent, frame, left, made>>
    BY <1>6 DEF PushStore, PushWrite, caller
  <2> QED BY <1>1, <1>2, <2>1 DEF ProducerInv
<1>7. CASE PushDone
  <2>1. /\ ppc = "publish" /\ ppc' = "idle" /\ sent' = Append(sent, frame)
        /\ left' = left - 1 /\ UNCHANGED made
    BY <1>7 DEF PushDone, PushPublish
  <2>2. /\ frame = made /\ left > 0 /\ Len(sent) < made
        /\ \A i \in 1..Len(sent) : sent[i] < made
        /\ made + left <= MaxPushes + 1
    BY <1>2, <2>1 DEF ProducerInv
  <2>3. frame \in PadFrames
    BY <1>1, <2>2, FramesAreNumbered
  <2>4. /\ Len(sent') = Len(sent) + 1
        /\ \A i \in 1..Len(sent) : sent'[i] = sent[i]
        /\ sent'[Len(sent) + 1] = made
    BY <1>1, <2>1, <2>2, <2>3, AppendProperties
  <2>5. \A i \in 1..Len(sent') : sent'[i] <= made
    BY <1>1, <2>2, <2>4
  <2>6. \A i, j \in 1..Len(sent') : i < j => sent'[i] < sent'[j]
    <3>1. SUFFICES ASSUME NEW i \in 1..(Len(sent) + 1), NEW j \in 1..(Len(sent) + 1), i < j
                   PROVE  sent'[i] < sent'[j]
      BY <2>4
    <3>2. i \in 1..Len(sent) /\ sent'[i] = sent[i]
      BY <1>1, <2>4, <3>1
    <3>3. CASE j = Len(sent) + 1
      BY <2>2, <2>4, <3>2, <3>3
    <3>4. CASE j \in 1..Len(sent)
      BY <1>2, <2>4, <3>1, <3>2, <3>4 DEF ProducerInv
    <3> QED BY <1>1, <3>3, <3>4
  <2> QED BY <1>1, <2>1, <2>2, <2>4, <2>5, <2>6 DEF ProducerInv
<1>8. CASE UNCHANGED <<sent, made, left, ppc, frame>>
  BY <1>1, <1>2, <1>8 DEF ProducerInv
<1>9. CASE SendReturn \/ CloseClient \/ ConsumerStep \/ UNCHANGED vars
  <2>1. CASE PopSome \/ PopTake \/ PopDone
    BY <1>8, <2>1 DEF PopSome, PopTake, PopDone, PopLoad, PopRead, PopPublish,
       Consumer, caller, producer
  <2>2. CASE PopNone \/ InjectOk \/ InjectErr \/ CheckClose \/ CloseSession \/ IntoInner
    BY <1>8, <2>2 DEF PopNone, PopEmpty, InjectOk, InjectErr, CheckClose,
       CloseSession, IntoInner, EndSession, Consumer, caller, ringVars
  <2>3. CASE SendReturn \/ CloseClient \/ UNCHANGED vars
    BY <1>8, <2>3 DEF SendReturn, CloseClient, vars, caller, ringVars
  <2> QED BY <1>9, <2>1, <2>2, <2>3 DEF ConsumerStep
<1> QED BY <1>3, <1>4, <1>5, <1>6, <1>7, <1>9 DEF Next, ProducerStep

(* The consumer's log against what it popped, step by step.                *)
LEMMA ConsumerKept ==
  ASSUME FastInv, [Next]_vars
  PROVE  /\ ConsumerInv'
         /\ applied' \in Seq(1..MaxPushes) /\ failures' \in 0..MaxErrors
         /\ loop' \in {"pop", "inject", "check", "close", "inner", "joined", "panicked"}
<1>1. /\ applied \in Seq(PadFrames) /\ got \in Seq(PadFrames)
      /\ Len(applied) \in Nat /\ Len(got) \in Nat
      /\ failures \in 0..MaxErrors /\ MaxErrors \in Nat
      /\ loop \in {"pop", "inject", "check", "close", "inner", "joined", "panicked"}
      /\ held \in PadFrames \cup {Uninit}
  BY BoundsAreNatural, FramesAreNumbered, LenProperties DEF FastInv, TypeOK, RingTypeOK
<1>2. ConsumerInv
  BY DEF FastInv
<1> USE FramesAreNumbered
<1>3. CASE PopSome
  <2>1. loop = "pop" /\ UNCHANGED <<got, held, loop, applied, failures>>
    BY <1>3 DEF PopSome, PopLoad, thread
  <2> QED BY <1>1, <1>2, <2>1 DEF ConsumerInv
<1>4. CASE PopTake
  <2>1. cpc = "read" /\ cpc' = "publish" /\ UNCHANGED <<got, loop, applied, failures>>
    BY <1>4 DEF PopTake, PopRead, thread
  <2> QED BY <1>1, <1>2, <2>1 DEF ConsumerInv
<1>5. CASE PopDone
  <2>1. /\ cpc = "publish" /\ cpc' = "idle" /\ got' = Append(got, held)
        /\ loop' = "inject" /\ UNCHANGED <<held, applied, failures>>
    BY <1>5 DEF PopDone, PopPublish
  <2>2. got = applied
    BY <1>2, <2>1 DEF ConsumerInv
  <2>3. IInv /\ PopPublish
    BY <1>5 DEF PopDone, FastInv, TypeOK, IInv
  <2>4. got' \in Seq(PadFrames)
    BY <2>3, TakeFacts DEF IInv, RingTypeOK
  <2>5. Len(got') = Len(got) + 1 /\ \A i \in 1..Len(got) : got'[i] = got[i]
    BY <1>1, <2>1, AppendProperties
  <2> QED BY <1>1, <2>1, <2>2, <2>5 DEF ConsumerInv
<1>6. CASE PopNone
  <2>1. /\ loop = "pop" /\ loop' = "check" /\ cpc = "idle"
        /\ UNCHANGED <<cpc, got, held, applied, failures>>
    BY <1>6 DEF PopNone, PopEmpty, ringVars
  <2> QED BY <1>1, <1>2, <2>1 DEF ConsumerInv
<1>7. CASE InjectOk
  <2>1. /\ loop = "inject" /\ applied' = Append(applied, held) /\ loop' = "pop"
        /\ UNCHANGED <<cpc, got, held, failures>>
    BY <1>7 DEF InjectOk, ringVars
  <2>2. got = applied' /\ cpc = "idle"
    BY <1>1, <1>2, <2>1 DEF ConsumerInv
  <2> QED BY <1>1, <2>1, <2>2 DEF ConsumerInv
<1>8. CASE InjectErr \/ CheckClose \/ CloseSession \/ IntoInner
  <2>1. /\ UNCHANGED <<cpc, got, held, applied>>
        /\ \/ loop = "inject" /\ loop' = "close"
           \/ loop = "check" /\ loop' \in {"close", "pop"}
           \/ loop \in {"close", "inner"} /\ loop' \in {"inner", "joined", "panicked"}
    BY <1>8 DEF InjectErr, CheckClose, CloseSession, IntoInner, EndSession, ringVars
  <2>2. failures' \in 0..MaxErrors
    BY <1>1, <1>8 DEF InjectErr, CheckClose, CloseSession, IntoInner, EndSession
  <2> QED BY <1>1, <1>2, <2>1, <2>2 DEF ConsumerInv
<1>9. CASE SendCall \/ ProducerStep \/ CloseClient \/ UNCHANGED vars
  <2>1. UNCHANGED <<cpc, got, held, loop, applied, failures>>
    BY <1>9 DEF SendCall, ProducerStep, PushNext, SpillNext, PushStore, PushDone,
       SendReturn, CloseClient, PushLoad, PushFull, PushWrite, PushPublish,
       consumer, thread, ringVars, vars
  <2> QED BY <1>1, <1>2, <2>1 DEF ConsumerInv
<1> QED BY <1>3, <1>4, <1>5, <1>6, <1>7, <1>8, <1>9 DEF Next, ConsumerStep

(* The caller's result and the flags keep their types.                     *)
LEMMA FlagsKept ==
  ASSUME FastInv, [Next]_vars
  PROVE  /\ spill' \in BOOLEAN /\ result' \in {"Ok", "Err", "Busy"}
         /\ closeFlag' \in BOOLEAN /\ errorFlag' \in BOOLEAN
<1>1. /\ spill \in BOOLEAN /\ result \in {"Ok", "Err", "Busy"}
      /\ closeFlag \in BOOLEAN /\ errorFlag \in BOOLEAN
  BY DEF FastInv, TypeOK
<1>2. CASE SendCall \/ ProducerStep \/ CloseClient \/ UNCHANGED vars
  BY <1>1, <1>2 DEF SendCall, ProducerStep, PushNext, SpillNext, PushStore, PushDone,
     SendReturn, CloseClient, caller, flags, vars
<1>3. CASE ConsumerStep
  BY <1>1, <1>3 DEF ConsumerStep, PopSome, PopTake, PopDone, PopNone, InjectOk, InjectErr,
     CheckClose, CloseSession, IntoInner, EndSession, Consumer, caller
<1> QED BY <1>2, <1>3 DEF Next

-----------------------------------------------------------------------------
(* The theorems.                                                           *)

(* Type correctness and the inductive invariant of the fast path: ring,    *)
(* frame numbers and the consumer's log agree at every atomic access.      *)
THEOREM FastPathInvariant == Spec => []FastInv
<1>1. Init => FastInv
  <2>1. SUFFICES ASSUME Init PROVE FastInv
    OBVIOUS
  <2>2. RingTypeOK /\ RingInv
    BY <2>1, InitInv DEF Init, IInv
  <2>3. TypeOK
    <3>1. /\ left \in 0..MaxBatch /\ made \in 0..MaxPushes /\ failures \in 0..MaxErrors
          /\ applied \in Seq(1..MaxPushes)
      BY <2>1, FrameAssumption, BoundsAreNatural DEF Init
    <3>2. /\ spill \in BOOLEAN /\ closeFlag \in BOOLEAN /\ errorFlag \in BOOLEAN
          /\ result = "Ok" /\ loop = "pop"
      BY <2>1, Zenon DEF Init
    <3> QED BY <2>2, <3>1, <3>2 DEF TypeOK
  <2>4. ProducerInv /\ ConsumerInv
    BY <2>1, FrameAssumption DEF Init, RingInit, ProducerInv, ConsumerInv
  <2> QED BY <2>2, <2>3, <2>4 DEF FastInv
<1>2. FastInv /\ [Next]_vars => FastInv'
  BY RingKept, ProducerKept, ConsumerKept, FlagsKept DEF FastInv, TypeOK
<1> QED BY <1>1, <1>2, PTL DEF Spec

(* The fast path uses the ring as its two threads are meant to: it         *)
(* implements the ring's own specification.                                *)
THEOREM FastPathUsesRing == Spec => RingSpec
<1>1. Init => RingInit
  BY DEF Init
<1>2. FastInv /\ [Next]_vars => [RingNext]_ringVars
  BY RingStep
<1> QED BY <1>1, <1>2, FastPathInvariant, PTL DEF Spec, RingSpec

(* The invariant of the ring in the fast path.                             *)
THEOREM FastPathRingInv == Spec => []RingInv
BY FastPathUsesRing, RingInvariant, PTL

(* Game loop and consumer thread are never inside the same slot.           *)
THEOREM FastPathSlotExclusive == Spec => []SlotExclusive
BY FastPathUsesRing, RingSlotExclusive, PTL

(* Between the game loop and the consumer thread lies a bounded FIFO.      *)
THEOREM FastPathRingIsFifo == Spec => RingIsFifo
BY FastPathUsesRing, RingImplementsFifo, PTL

(* The session sees an initial part of the frames that were pushed, each   *)
(* once and in the order of the calls, whatever fails.                     *)
THEOREM FastPathDeliveredInOrder == Spec => []DeliveredInOrder
<1>1. FastInv => DeliveredInOrder
  <2>1. SUFFICES ASSUME FastInv PROVE DeliveredInOrder
    OBVIOUS
  <2>2. /\ got \in Seq(PadFrames) /\ Queue \in Seq(PadFrames) /\ sent = got \o Queue
    BY <2>1, QueueFacts DEF FastInv, TypeOK, RingTypeOK, RingInv
  <2>3. /\ Len(sent) = Len(got) + Len(Queue) /\ Len(got) \in Nat /\ Len(Queue) \in Nat
        /\ \A i \in 1..Len(got) : sent[i] = got[i]
    BY <2>2, ConcatProperties, LenProperties
  <2>4. /\ Len(applied) <= Len(got) /\ Len(applied) \in Nat
        /\ \A i \in 1..Len(applied) : applied[i] = got[i]
    BY <2>1, LenProperties DEF FastInv, TypeOK, ConsumerInv
  <2> QED BY <2>1, <2>3, <2>4 DEF DeliveredInOrder, FastInv, ProducerInv
<1> QED BY <1>1, FastPathInvariant, PTL

=============================================================================
