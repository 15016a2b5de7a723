-------------------------- MODULE TouchInputProofs --------------------------
(***************************************************************************)
(* Proofs about touch input, for any number of pointers, handles, helper   *)
(* calls and faults: the flags of a MultitouchHandle mirror the phone, the *)
(* touch stream is well formed, and a helper lets go of what it pressed.   *)
(*                                                                         *)
(* The argument looks ahead: Ahead is what the phone has been sent         *)
(* followed by what the running helper still has to send.  A helper starts *)
(* with a script that presses and lifts properly, every send moves one     *)
(* message over and leaves Ahead as it was, and a rollback replaces the    *)
(* rest of the script by the releases that are missing.                    *)
(***************************************************************************)
EXTENDS TouchInput, SequenceTheorems, TLAPS

Acts      == {"DOWN", "MOVE", "UP", "CANCEL", "REPORT"}
Fingers   == G!Pointers
TouchMsg  == [id : Nat, size : Nat, critical : {FALSE}, dev : {"touch", "kbd"},
              act : Acts, ptr : Nat, held : SUBSET {"mod", "key"}]
ScriptMsg == [dev : {"touch", "kbd"}, act : Acts, ptr : Fingers,
              held : SUBSET {"mod", "key"}]
Event     == TouchMsg \cup ScriptMsg

Elems(s) == {s[i] : i \in 1..Len(s)}

Touching(s, p) == DownAfter(s, Len(s), p)

\* Message number i of s is one the phone can make sense of, the fingers in S
\* apart.
Fits(s, i, S) ==
  /\ s[i].act = "DOWN" => (s[i].ptr \in S \/ ~DownAfter(s, i - 1, s[i].ptr))
  /\ s[i].act \notin {"DOWN", "REPORT"} => DownAfter(s, i - 1, s[i].ptr)

WellFormed(s, S) == \A i \in 1..Len(s) : Fits(s, i, S)

\* The last keyboard report of s, if any, holds at most H.
HoldsAtMost(s, H) ==
  \A i \in 1..Len(s) :
    (s[i].dev = "kbd" /\ \A j \in (i + 1)..Len(s) : s[j].dev # "kbd")
      => s[i].held \subseteq H

Releases(m) == m.act = "UP" \/ (m.dev = "kbd" /\ m.held = {})

Ahead == Stream \o script

\* No failed write delivered anything or waits in the buffer.
Exact == (direct \/ faults = 0) /\ FailedWritesAreEmpty

\* The transport works, or failed once and the helper could undo it.
Undoable ==
  \/ faults = 0
  \/ direct /\ faults <= 1 /\ FailedWritesAreEmpty /\ ~broken

MayHold(g) == IF g = "key_chord" THEN {} ELSE {"mod"}

-----------------------------------------------------------------------------
(* The invariant.                                                          *)

WriterOK ==
  /\ wire \in Seq(TouchMsg) /\ pending \in Seq(TouchMsg)
  /\ accepted \in Seq(TouchMsg)
  /\ pushed \in Nat /\ faults \in Nat
  /\ direct => (pending = <<>> /\ Len(accepted) <= Len(wire))
  /\ faults = 0 => FailedWritesAreEmpty

HandleOK ==
  /\ active \subseteq Pointers /\ stray \subseteq Pointers
  /\ pc \in {"none", "ready", "pinch", "release_all"}
  /\ todo \in Seq(Pointers)
  /\ pc = "pinch" => (todo # <<>> /\ Elems(todo) \subseteq active)
  /\ pc # "none" => gpc = "idle"

HelperOK ==
  /\ gpc \in {"idle", "run", "rollback"}
  /\ script \in Seq(ScriptMsg) /\ pressed \in Seq(Fingers)
  /\ gpc = "idle" <=> script = <<>>
  /\ gpc = "rollback" => faults >= 1 /\ \A m \in Elems(script) : Releases(m)
  /\ gpc = "run" =>
       /\ kind = "key_chord" => \A m \in Elems(script) : m.act = "REPORT"
       /\ kind \in {"tap_pointer", "multi_finger_tap"} =>
            \A m \in Elems(script) : m.dev = "touch"

MirrorOK ==
  (pc # "none" /\ Exact) => (active \subseteq DownNow /\ DownNow \subseteq active \cup stray)

StreamOK == faults = 0 => WellFormed(Ahead, stray)

\* The fingers a handle in use has on the screen.
InUse == IF pc = "none" THEN {} ELSE active

ReleaseOK ==
  Undoable =>
    /\ \A p \in Fingers : Touching(Ahead, p) => p \in stray \cup InUse
    /\ HoldsAtMost(Ahead, MayHold(kind))
    /\ gpc = "run" =>
         \A p \in Fingers : Touching(Stream, p) => p \in stray \cup Elems(pressed)

TouchInv ==
  WriterOK /\ HandleOK /\ HelperOK /\ MirrorOK /\ StreamOK /\ ReleaseOK

-----------------------------------------------------------------------------
(* Sequences of messages.                                                  *)

LEMMA AppendFacts ==
  ASSUME NEW S, NEW s \in Seq(S), NEW m \in S
  PROVE  /\ Append(s, m) \in Seq(S) /\ Len(s) \in Nat
         /\ Len(Append(s, m)) = Len(s) + 1
         /\ \A i \in 1..Len(s) : Append(s, m)[i] = s[i]
         /\ Append(s, m)[Len(s) + 1] = m
BY LenProperties, AppendProperties

LEMMA ConcatFacts ==
  ASSUME NEW S, NEW s \in Seq(S), NEW c \in Seq(S)
  PROVE  /\ s \o c \in Seq(S) /\ Len(s) \in Nat /\ Len(c) \in Nat
         /\ Len(s \o c) = Len(s) + Len(c)
         /\ \A i \in 1..Len(s) : (s \o c)[i] = s[i]
         /\ \A i \in 1..Len(c) : (s \o c)[Len(s) + i] = c[i]
<1>1. Len(s) \in Nat /\ Len(c) \in Nat
  BY LenProperties
<1>2. /\ s \o c \in Seq(S) /\ Len(s \o c) = Len(s) + Len(c)
      /\ \A i \in 1..(Len(s) + Len(c)) :
           (s \o c)[i] = IF i <= Len(s) THEN s[i] ELSE c[i - Len(s)]
  BY ConcatProperties
<1>3. ASSUME NEW i \in 1..Len(c) PROVE (s \o c)[Len(s) + i] = c[i]
  <2>1. /\ Len(s) + i \in 1..(Len(s) + Len(c)) /\ ~(Len(s) + i <= Len(s))
        /\ (Len(s) + i) - Len(s) = i
    BY <1>1
  <2> QED BY <1>2, <2>1
<1> QED BY <1>1, <1>2, <1>3

\* Sequences with the same beginning have the same fingers down there.
LEMMA DownAfterSame ==
  ASSUME NEW s, NEW t, NEW n \in Nat, NEW p,
         \A i \in 1..n : s[i].act = t[i].act /\ s[i].ptr = t[i].ptr
  PROVE  DownAfter(s, n, p) <=> DownAfter(t, n, p)
<1>1. \A i \in 1..n : \A j \in (i + 1)..n : j \in 1..n
  OBVIOUS
<1> QED BY <1>1 DEF DownAfter, Lifts

\* A finger is down after one more message if that presses it, or if it was
\* down and the message does not lift it.
LEMMA DownAfterNext ==
  ASSUME NEW s, NEW n \in Nat, NEW p
  PROVE  DownAfter(s, n + 1, p) <=>
           \/ s[n + 1].act = "DOWN" /\ s[n + 1].ptr = p
           \/ DownAfter(s, n, p) /\ ~Lifts(s[n + 1], p)
<1>1. \A i \in 1..n : \A j \in (i + 1)..(n + 1) : j \in (i + 1)..n \/ j = n + 1
  OBVIOUS
<1>2. \A i \in 1..n : n + 1 \in (i + 1)..(n + 1) /\ i \in 1..(n + 1)
                      /\ \A j \in (i + 1)..n : j \in (i + 1)..(n + 1)
  OBVIOUS
<1>3. \A i \in 1..(n + 1) : i \in 1..n \/ i = n + 1
  OBVIOUS
<1>4. n + 1 \in 1..(n + 1) /\ ((n + 1) + 1)..(n + 1) = {}
  OBVIOUS
<1>5. ASSUME DownAfter(s, n + 1, p)
      PROVE  \/ s[n + 1].act = "DOWN" /\ s[n + 1].ptr = p
             \/ DownAfter(s, n, p) /\ ~Lifts(s[n + 1], p)
  <2>1. PICK i \in 1..(n + 1) :
          /\ s[i].act = "DOWN" /\ s[i].ptr = p
          /\ \A j \in (i + 1)..(n + 1) : ~Lifts(s[j], p)
    BY <1>5 DEF DownAfter
  <2>2. CASE i = n + 1
    BY <2>1, <2>2
  <2>3. CASE i \in 1..n
    BY <2>1, <2>3, <1>2 DEF DownAfter
  <2> QED BY <2>2, <2>3, <1>3
<1>6. ASSUME s[n + 1].act = "DOWN" /\ s[n + 1].ptr = p
      PROVE  DownAfter(s, n + 1, p)
  BY <1>4, <1>6 DEF DownAfter
<1>7. ASSUME DownAfter(s, n, p) /\ ~Lifts(s[n + 1], p)
      PROVE  DownAfter(s, n + 1, p)
  <2>1. PICK i \in 1..n :
          /\ s[i].act = "DOWN" /\ s[i].ptr = p
          /\ \A j \in (i + 1)..n : ~Lifts(s[j], p)
    BY <1>7 DEF DownAfter
  <2>2. \A j \in (i + 1)..(n + 1) : ~Lifts(s[j], p)
    BY <1>1, <1>7, <2>1
  <2> QED BY <1>2, <2>1, <2>2 DEF DownAfter
<1> QED BY <1>5, <1>6, <1>7

LEMMA TouchingAppend ==
  ASSUME NEW S, NEW s \in Seq(S), NEW m \in S, NEW p
  PROVE  Touching(Append(s, m), p) <=>
           \/ m.act = "DOWN" /\ m.ptr = p
           \/ Touching(s, p) /\ ~Lifts(m, p)
<1> DEFINE t == Append(s, m)
<1>1. Len(s) \in Nat /\ Len(t) = Len(s) + 1 /\ t[Len(s) + 1] = m
      /\ \A i \in 1..Len(s) : t[i] = s[i]
  BY AppendFacts
<1> HIDE DEF t
<1>2. DownAfter(t, Len(s), p) <=> DownAfter(s, Len(s), p)
  BY <1>1, DownAfterSame
<1>3. DownAfter(t, Len(s) + 1, p) <=>
           \/ t[Len(s) + 1].act = "DOWN" /\ t[Len(s) + 1].ptr = p
           \/ DownAfter(t, Len(s), p) /\ ~Lifts(t[Len(s) + 1], p)
  BY <1>1, DownAfterNext
<1> QED BY <1>1, <1>2, <1>3 DEF Touching, t

\* Messages that agree in all that matters here.
Alike(m, k) == m.act = k.act /\ m.ptr = k.ptr /\ m.dev = k.dev /\ m.held = k.held

AllAlike(s, t) == Len(s) = Len(t) /\ \A i \in 1..Len(s) : Alike(s[i], t[i])

LEMMA AlikeKeeps ==
  ASSUME NEW S, NEW s \in Seq(S), NEW t \in Seq(S), AllAlike(s, t)
  PROVE  /\ \A p : Touching(s, p) <=> Touching(t, p)
         /\ \A F : WellFormed(s, F) => WellFormed(t, F)
         /\ \A H : HoldsAtMost(s, H) => HoldsAtMost(t, H)
<1>1. Len(s) \in Nat /\ Len(t) = Len(s)
  BY LenProperties DEF AllAlike
<1>2. \A i \in 1..Len(s) : Alike(s[i], t[i])
  BY DEF AllAlike
<1>3. ASSUME NEW n \in 0..Len(s), NEW p
      PROVE  DownAfter(s, n, p) <=> DownAfter(t, n, p)
  <2>1. n \in Nat /\ \A i \in 1..n : i \in 1..Len(s)
    BY <1>1
  <2>2. \A i \in 1..n : s[i].act = t[i].act /\ s[i].ptr = t[i].ptr
    BY <2>1, <1>2 DEF Alike
  <2> QED BY <2>1, <2>2, DownAfterSame
<1>4. \A p : Touching(s, p) <=> Touching(t, p)
  BY <1>1, <1>3 DEF Touching
<1>5. ASSUME NEW F, WellFormed(s, F), NEW i \in 1..Len(t) PROVE Fits(t, i, F)
  <2>1. i \in 1..Len(s) /\ i - 1 \in 0..Len(s)
    BY <1>1
  <2>2. Fits(s, i, F) /\ Alike(s[i], t[i])
    BY <2>1, <1>2, <1>5 DEF WellFormed
  <2>3. DownAfter(s, i - 1, s[i].ptr) <=> DownAfter(t, i - 1, s[i].ptr)
    BY <2>1, <1>3
  <2> QED BY <2>2, <2>3 DEF Fits, Alike
<1>6. ASSUME NEW H, HoldsAtMost(s, H), NEW i \in 1..Len(t), t[i].dev = "kbd",
             \A j \in (i + 1)..Len(t) : t[j].dev # "kbd"
      PROVE  t[i].held \subseteq H
  <2>1. i \in 1..Len(s) /\ \A j \in (i + 1)..Len(s) : j \in 1..Len(s) /\ j \in (i + 1)..Len(t)
    BY <1>1
  <2>2. s[i].dev = "kbd" /\ s[i].held = t[i].held
    BY <2>1, <1>2, <1>6 DEF Alike
  <2>3. \A j \in (i + 1)..Len(s) : s[j].dev # "kbd"
    BY <2>1, <1>2, <1>6 DEF Alike
  <2> QED BY <2>1, <2>2, <2>3, <1>6 DEF HoldsAtMost
<1> QED BY <1>4, <1>5, <1>6 DEF WellFormed, HoldsAtMost

\* A finger is down after s and the first k messages of c if c presses it, or
\* if s does and c does not lift it.
LEMMA DownAfterConcat ==
  ASSUME NEW S, NEW s \in Seq(S), NEW c \in Seq(S), NEW k \in 0..Len(c), NEW p
  PROVE  DownAfter(s \o c, Len(s) + k, p) <=>
           \/ DownAfter(c, k, p)
           \/ Touching(s, p) /\ \A j \in 1..k : ~Lifts(c[j], p)
<1> DEFINE n == Len(s)
           t == s \o c
<1>1. /\ n \in Nat /\ k \in Nat /\ Len(c) \in Nat
      /\ \A i \in 1..n : t[i] = s[i]
      /\ \A i \in 1..k : t[n + i] = c[i]
  BY ConcatFacts
<1> HIDE DEF n, t
<1>2. ASSUME DownAfter(t, n + k, p)
      PROVE  DownAfter(c, k, p) \/ (DownAfter(s, n, p) /\ \A j \in 1..k : ~Lifts(c[j], p))
  <2>1. PICK i \in 1..(n + k) :
          /\ t[i].act = "DOWN" /\ t[i].ptr = p
          /\ \A j \in (i + 1)..(n + k) : ~Lifts(t[j], p)
    BY <1>2 DEF DownAfter
  <2>2. CASE i <= n
    <3>1. i \in 1..n /\ \A j \in (i + 1)..n : j \in (i + 1)..(n + k) /\ j \in 1..n
      BY <1>1, <2>2
    <3>2. DownAfter(s, n, p)
      BY <3>1, <2>1, <1>1 DEF DownAfter
    <3>3. \A j \in 1..k : n + j \in (i + 1)..(n + k)
      BY <1>1, <2>2
    <3>4. \A j \in 1..k : ~Lifts(c[j], p)
      BY <3>3, <2>1, <1>1
    <3> QED BY <3>2, <3>4
  <2>3. CASE i > n
    <3>1. PICK h \in 1..k : i = n + h
      <4>1. i - n \in 1..k /\ i = n + (i - n)
        BY <1>1, <2>3
      <4> QED BY <4>1
    <3>2. \A j \in (h + 1)..k : n + j \in (i + 1)..(n + k) /\ j \in 1..k
      BY <1>1, <3>1
    <3>3. \A j \in (h + 1)..k : ~Lifts(c[j], p)
      BY <3>2, <2>1, <1>1
    <3> QED BY <3>1, <3>3, <2>1, <1>1 DEF DownAfter
  <2> QED BY <1>1, <2>2, <2>3
<1>3. ASSUME DownAfter(c, k, p) PROVE DownAfter(t, n + k, p)
  <2>1. PICK h \in 1..k : /\ c[h].act = "DOWN" /\ c[h].ptr = p
                          /\ \A j \in (h + 1)..k : ~Lifts(c[j], p)
    BY <1>3 DEF DownAfter
  <2>2. n + h \in 1..(n + k)
    BY <1>1
  <2>3. ASSUME NEW j \in ((n + h) + 1)..(n + k) PROVE ~Lifts(t[j], p)
    <3>1. j - n \in (h + 1)..k /\ j - n \in 1..k /\ j = n + (j - n)
      BY <1>1
    <3>2. t[j] = c[j - n]
      BY <1>1, <3>1
    <3> QED BY <2>1, <3>1, <3>2
  <2> QED BY <2>1, <2>2, <2>3, <1>1 DEF DownAfter
<1>4. ASSUME DownAfter(s, n, p), \A j \in 1..k : ~Lifts(c[j], p)
      PROVE  DownAfter(t, n + k, p)
  <2>1. PICK i \in 1..n : /\ s[i].act = "DOWN" /\ s[i].ptr = p
                          /\ \A j \in (i + 1)..n : ~Lifts(s[j], p)
    BY <1>4 DEF DownAfter
  <2>2. i \in 1..(n + k)
    BY <1>1
  <2>3. ASSUME NEW j \in (i + 1)..(n + k) PROVE ~Lifts(t[j], p)
    <3>1. CASE j <= n
      BY <1>1, <2>1, <3>1
    <3>2. CASE j > n
      <4>1. j - n \in 1..k /\ j = n + (j - n)
        BY <1>1, <3>2
      <4>2. t[j] = c[j - n]
        BY <1>1, <4>1
      <4> QED BY <1>4, <4>1, <4>2
    <3> QED BY <1>1, <3>1, <3>2
  <2> QED BY <2>1, <2>2, <2>3, <1>1 DEF DownAfter
<1> QED BY <1>2, <1>3, <1>4 DEF Touching, n, t

LEMMA TouchingConcat ==
  ASSUME NEW S, NEW s \in Seq(S), NEW c \in Seq(S), NEW p
  PROVE  Touching(s \o c, p) <=>
           \/ Touching(c, p)
           \/ Touching(s, p) /\ \A j \in 1..Len(c) : ~Lifts(c[j], p)
<1>1. Len(s \o c) = Len(s) + Len(c) /\ Len(c) \in 0..Len(c)
  BY ConcatFacts
<1> QED BY <1>1, DownAfterConcat DEF Touching

LEMMA WellFormedMore ==
  ASSUME NEW s, NEW F, NEW E, F \subseteq E, WellFormed(s, F)
  PROVE  WellFormed(s, E)
BY DEF WellFormed, Fits

LEMMA WellFormedAppend ==
  ASSUME NEW S, NEW s \in Seq(S), NEW m \in S, NEW F, WellFormed(s, F),
         m.act = "DOWN" => (m.ptr \in F \/ ~Touching(s, m.ptr)),
         m.act \notin {"DOWN", "REPORT"} => Touching(s, m.ptr)
  PROVE  WellFormed(Append(s, m), F)
<1> DEFINE t == Append(s, m)
           n == Len(s)
<1>1. /\ n \in Nat /\ Len(t) = n + 1 /\ t[n + 1] = m
      /\ \A i \in 1..n : t[i] = s[i]
  BY AppendFacts
<1> HIDE DEF t, n
<1>2. \A h \in 0..n : \A p : DownAfter(t, h, p) <=> DownAfter(s, h, p)
  <2> TAKE h \in 0..n
  <2>1. h \in Nat /\ \A i \in 1..h : i \in 1..n
    BY <1>1
  <2>2. \A i \in 1..h : t[i].act = s[i].act /\ t[i].ptr = s[i].ptr
    BY <1>1, <2>1
  <2> QED BY <2>1, <2>2, DownAfterSame
<1>3. ASSUME NEW i \in 1..n PROVE Fits(t, i, F)
  <2>1. i - 1 \in 0..n /\ t[i] = s[i] /\ Fits(s, i, F)
    BY <1>1 DEF WellFormed, n
  <2> QED BY <1>2, <2>1 DEF Fits
<1>4. Fits(t, n + 1, F)
  <2>1. (n + 1) - 1 = n /\ n \in 0..n
    BY <1>1
  <2>2. \A p : DownAfter(t, (n + 1) - 1, p) <=> Touching(s, p)
    BY <1>2, <2>1 DEF Touching, n
  <2> QED BY <1>1, <2>2 DEF Fits
<1>5. \A i \in 1..Len(t) : i \in 1..n \/ i = n + 1
  BY <1>1
<1> QED BY <1>3, <1>4, <1>5 DEF WellFormed, t

LEMMA WellFormedConcat ==
  ASSUME NEW S, NEW s \in Seq(S), NEW c \in Seq(S), NEW F,
         WellFormed(s, F), WellFormed(c, {}),
         \A i \in 1..Len(c) : Touching(s, c[i].ptr) => c[i].ptr \in F
  PROVE  WellFormed(s \o c, F)
<1> DEFINE t == s \o c
           n == Len(s)
<1>1. /\ n \in Nat /\ Len(c) \in Nat /\ Len(t) = n + Len(c)
      /\ \A i \in 1..n : t[i] = s[i]
      /\ \A i \in 1..Len(c) : t[n + i] = c[i]
  BY ConcatFacts
<1>2. \A k \in 0..Len(c) : \A p : DownAfter(t, n + k, p) <=>
           \/ DownAfter(c, k, p)
           \/ Touching(s, p) /\ \A j \in 1..k : ~Lifts(c[j], p)
  BY DownAfterConcat
<1> HIDE DEF t, n
<1>3. ASSUME NEW i \in 1..n PROVE Fits(t, i, F)
  <2>1. i - 1 \in Nat /\ t[i] = s[i] /\ Fits(s, i, F)
        /\ \A j \in 1..(i - 1) : j \in 1..n
    BY <1>1 DEF WellFormed, n
  <2>2. \A j \in 1..(i - 1) : t[j].act = s[j].act /\ t[j].ptr = s[j].ptr
    BY <1>1, <2>1
  <2>3. \A p : DownAfter(t, i - 1, p) <=> DownAfter(s, i - 1, p)
    BY <2>1, <2>2, DownAfterSame
  <2> QED BY <2>1, <2>3 DEF Fits
<1>4. ASSUME NEW i \in 1..Len(c) PROVE Fits(t, n + i, F)
  <2>1. i - 1 \in 0..Len(c) /\ (n + i) - 1 = n + (i - 1)
    BY <1>1
  <2>2. Fits(c, i, {})
    BY DEF WellFormed
  <2>3. DownAfter(t, (n + i) - 1, c[i].ptr) =>
          DownAfter(c, i - 1, c[i].ptr) \/ Touching(s, c[i].ptr)
    BY <1>2, <2>1
  <2>4. DownAfter(c, i - 1, c[i].ptr) => DownAfter(t, (n + i) - 1, c[i].ptr)
    BY <1>2, <2>1
  <2>5. t[n + i] = c[i] /\ (Touching(s, c[i].ptr) => c[i].ptr \in F)
    BY <1>1
  <2> QED BY <2>2, <2>3, <2>4, <2>5 DEF Fits
<1>5. ASSUME NEW i \in 1..Len(t) PROVE Fits(t, i, F)
  <2>1. CASE i <= n
    BY <1>1, <1>3, <2>1
  <2>2. CASE i > n
    <3>1. i - n \in 1..Len(c) /\ i = n + (i - n)
      BY <1>1, <2>2
    <3> QED BY <1>4, <3>1
  <2> QED BY <1>1, <2>1, <2>2
<1> QED BY <1>5 DEF WellFormed, t

LEMMA HoldsAppend ==
  ASSUME NEW S, NEW s \in Seq(S), NEW m \in S, NEW H,
         HoldsAtMost(s, H), m.dev = "kbd" => m.held \subseteq H
  PROVE  HoldsAtMost(Append(s, m), H)
<1> DEFINE t == Append(s, m)
           n == Len(s)
<1>1. /\ n \in Nat /\ Len(t) = n + 1 /\ t[n + 1] = m
      /\ \A i \in 1..n : t[i] = s[i]
  BY AppendFacts
<1> HIDE DEF t
<1> SUFFICES ASSUME NEW i \in 1..Len(t), t[i].dev = "kbd",
                    \A j \in (i + 1)..Len(t) : t[j].dev # "kbd"
             PROVE  t[i].held \subseteq H
  BY DEF HoldsAtMost, t
<1>2. CASE i = n + 1
  BY <1>1, <1>2
<1>3. CASE i \in 1..n
  <2>1. \A j \in (i + 1)..n : j \in 1..n /\ j \in (i + 1)..Len(t)
    BY <1>1, <1>3
  <2>2. \A j \in (i + 1)..n : s[j].dev # "kbd"
    BY <1>1, <2>1
  <2> QED BY <1>1, <1>3, <2>2 DEF HoldsAtMost
<1> QED BY <1>1, <1>2, <1>3

LEMMA HoldsConcat ==
  ASSUME NEW S, NEW s \in Seq(S), NEW c \in Seq(S), NEW H, HoldsAtMost(c, H),
         HoldsAtMost(s, H) \/ \E i \in 1..Len(c) : c[i].dev = "kbd"
  PROVE  HoldsAtMost(s \o c, H)
<1> DEFINE t == s \o c
           n == Len(s)
<1>1. /\ n \in Nat /\ Len(c) \in Nat /\ Len(t) = n + Len(c)
      /\ \A i \in 1..n : t[i] = s[i]
      /\ \A i \in 1..Len(c) : t[n + i] = c[i]
  BY ConcatFacts
<1> HIDE DEF t
<1> SUFFICES ASSUME NEW i \in 1..Len(t), t[i].dev = "kbd",
                    \A j \in (i + 1)..Len(t) : t[j].dev # "kbd"
             PROVE  t[i].held \subseteq H
  BY DEF HoldsAtMost, t
<1>2. CASE i > n
  <2>1. PICK h \in 1..Len(c) : i = n + h
    <3>1. i - n \in 1..Len(c) /\ i = n + (i - n)
      BY <1>1, <1>2
    <3> QED BY <3>1
  <2>2. \A j \in (h + 1)..Len(c) : n + j \in (i + 1)..Len(t) /\ j \in 1..Len(c)
    BY <1>1, <2>1
  <2>3. \A j \in (h + 1)..Len(c) : c[j].dev # "kbd"
    BY <1>1, <2>2
  <2> QED BY <1>1, <2>1, <2>3 DEF HoldsAtMost
<1>3. CASE i <= n
  <2>1. i \in 1..n /\ \A j \in (i + 1)..n : j \in 1..n /\ j \in (i + 1)..Len(t)
    BY <1>1, <1>3
  <2>2. \A j \in (i + 1)..n : s[j].dev # "kbd"
    BY <1>1, <2>1
  <2>3. \A j \in 1..Len(c) : n + j \in (i + 1)..Len(t)
    BY <1>1, <1>3
  <2>4. \A j \in 1..Len(c) : c[j].dev # "kbd"
    BY <1>1, <2>3
  <2> QED BY <1>1, <2>1, <2>2, <2>4 DEF HoldsAtMost
<1> QED BY <1>1, <1>2, <1>3

\* Messages without a keyboard report do not change what is held.
LEMMA HoldsBefore ==
  ASSUME NEW S, NEW s \in Seq(S), NEW c \in Seq(S), NEW H, HoldsAtMost(s \o c, H),
         \A i \in 1..Len(c) : c[i].dev # "kbd"
  PROVE  HoldsAtMost(s, H)
<1> DEFINE t == s \o c
           n == Len(s)
<1>1. /\ n \in Nat /\ Len(c) \in Nat /\ Len(t) = n + Len(c)
      /\ \A i \in 1..n : t[i] = s[i]
      /\ \A i \in 1..Len(c) : t[n + i] = c[i]
  BY ConcatFacts
<1>2. HoldsAtMost(t, H)
  OBVIOUS
<1> HIDE DEF t
<1> SUFFICES ASSUME NEW i \in 1..n, s[i].dev = "kbd",
                    \A j \in (i + 1)..n : s[j].dev # "kbd"
             PROVE  s[i].held \subseteq H
  BY DEF HoldsAtMost
<1>3. ASSUME NEW j \in (i + 1)..Len(t) PROVE t[j].dev # "kbd"
  <2>1. CASE j <= n
    <3>1. j \in 1..n /\ j \in (i + 1)..n
      BY <1>1, <2>1
    <3> QED BY <1>1, <3>1
  <2>2. CASE j > n
    <3>1. j - n \in 1..Len(c) /\ j = n + (j - n)
      BY <1>1, <2>2
    <3>2. t[j] = c[j - n]
      BY <1>1, <3>1
    <3> QED BY <3>1, <3>2
  <2> QED BY <1>1, <2>1, <2>2
<1>4. i \in 1..Len(t) /\ t[i] = s[i]
  BY <1>1
<1> QED BY <1>2, <1>3, <1>4 DEF HoldsAtMost

-----------------------------------------------------------------------------
(* What the helpers send.                                                  *)

\* n fingers go down, messages that neither press nor lift follow, and the
\* same fingers come up in the same order.
Phases(c, n, k) ==
  /\ c \in Seq(ScriptMsg) /\ Len(c) = (n + k) + n
  /\ \A i \in 1..n : c[i] = G!Touch("DOWN", i - 1)
  /\ \A i \in (n + 1)..(n + k) :
       c[i].act = "MOVE" /\ c[i].dev = "touch" /\ c[i].ptr \in 0..(n - 1)
  /\ \A i \in ((n + k) + 1)..((n + k) + n) : c[i] = G!Touch("UP", (i - (n + k)) - 1)

LEMMA TouchFields ==
  ASSUME NEW a \in Acts, NEW p \in Fingers
  PROVE  /\ G!Touch(a, p) \in ScriptMsg
         /\ G!Touch(a, p).act = a /\ G!Touch(a, p).ptr = p
         /\ G!Touch(a, p).dev = "touch" /\ G!Touch(a, p).held = {}
BY DEF G!Touch, ScriptMsg

LEMMA ReportFields ==
  ASSUME NEW h \in SUBSET {"mod", "key"}
  PROVE  /\ G!Report(h) \in ScriptMsg
         /\ G!Report(h).act = "REPORT" /\ G!Report(h).dev = "kbd"
         /\ G!Report(h).held = h
BY DEF G!Report, ScriptMsg, Fingers, G!Pointers, Acts

LEMMA PhasesFit ==
  ASSUME NEW c, NEW n \in 0..3, NEW k \in Nat, Phases(c, n, k)
  PROVE  /\ WellFormed(c, {}) /\ \A p : ~Touching(c, p)
         /\ \A m \in Elems(c) : m.dev = "touch"
<1> DEFINE e == n + k
<1>a. Len(c) = e + n /\ e \in Nat /\ n <= e
  BY DEF Phases
<1>b. \A i \in 1..n : c[i].act = "DOWN" /\ c[i].ptr = i - 1 /\ c[i].dev = "touch"
  <2> TAKE i \in 1..n
  <2>1. c[i] = G!Touch("DOWN", i - 1) /\ i - 1 \in Fingers /\ "DOWN" \in Acts
    BY DEF Phases, Fingers, G!Pointers, Acts
  <2> QED BY <2>1, TouchFields
<1>c. \A i \in (n + 1)..e : c[i].act = "MOVE" /\ c[i].dev = "touch" /\ c[i].ptr \in 0..(n - 1)
  BY DEF Phases
<1>d. \A i \in (e + 1)..(e + n) :
           c[i].act = "UP" /\ c[i].ptr = (i - e) - 1 /\ c[i].dev = "touch"
  <2> TAKE i \in (e + 1)..(e + n)
  <2>1. c[i] = G!Touch("UP", (i - e) - 1)
    BY DEF Phases
  <2>2. (i - e) - 1 \in Fingers /\ "UP" \in Acts
    BY <1>a DEF Fingers, G!Pointers, Acts
  <2> QED BY <2>1, <2>2, TouchFields
<1>1. /\ Len(c) = e + n /\ e \in Nat /\ n <= e
      /\ \A i \in 1..n : c[i].act = "DOWN" /\ c[i].ptr = i - 1 /\ c[i].dev = "touch"
      /\ \A i \in (n + 1)..e : c[i].act = "MOVE" /\ c[i].dev = "touch" /\ c[i].ptr \in 0..(n - 1)
      /\ \A i \in (e + 1)..(e + n) :
           c[i].act = "UP" /\ c[i].ptr = (i - e) - 1 /\ c[i].dev = "touch"
  BY <1>a, <1>b, <1>c, <1>d
<1> HIDE DEF e
<1>2. \A i \in 1..Len(c) : i \in 1..n \/ i \in (n + 1)..e \/ i \in (e + 1)..(e + n)
  BY <1>1
<1>3. \A i \in 1..Len(c) : c[i].act = "DOWN" => i \in 1..n
  BY <1>1, <1>2
<1>4. \A i \in 1..Len(c) : \A p : Lifts(c[i], p) => i \in (e + 1)..(e + n) /\ p = (i - e) - 1
  BY <1>1, <1>2 DEF Lifts
<1>5. ASSUME NEW p, Touching(c, p) PROVE FALSE
  <2>1. PICK i \in 1..Len(c) : /\ c[i].act = "DOWN" /\ c[i].ptr = p
                               /\ \A j \in (i + 1)..Len(c) : ~Lifts(c[j], p)
    BY <1>5 DEF Touching, DownAfter
  <2>2. i \in 1..n /\ p = i - 1
    BY <2>1, <1>3, <1>1
  <2>3. e + i \in (i + 1)..Len(c) /\ e + i \in (e + 1)..(e + n) /\ ((e + i) - e) - 1 = i - 1
    BY <2>2, <1>1
  <2>4. Lifts(c[e + i], p)
    BY <2>2, <2>3, <1>1 DEF Lifts
  <2> QED BY <2>1, <2>3, <2>4
<1>6. ASSUME NEW i \in 1..Len(c) PROVE Fits(c, i, {})
  <2>1. CASE i \in 1..n
    <3>1. \A h \in 1..(i - 1) : h \in 1..n /\ h # i
      BY <1>1, <2>1
    <3>2. \A h \in 1..(i - 1) : c[h].ptr # c[i].ptr
      BY <1>1, <2>1, <3>1
    <3> QED BY <1>1, <2>1, <3>2 DEF Fits, DownAfter
  <2>2. ASSUME i \notin 1..n,
               NEW h \in 1..n, c[i].ptr = h - 1, i \in (n + 1)..e \/ i = e + h
        PROVE  Fits(c, i, {})
    <3>1. h \in 1..(i - 1) /\ c[h].act = "DOWN" /\ c[h].ptr = c[i].ptr
      BY <1>1, <2>2
    <3>2. ASSUME NEW j \in (h + 1)..(i - 1), Lifts(c[j], h - 1) PROVE FALSE
      <4>1. j \in 1..Len(c)
        BY <1>1
      <4>2. j \in (e + 1)..(e + n) /\ h - 1 = (j - e) - 1
        BY <4>1, <1>4, <3>2
      <4> QED BY <4>2, <2>2, <1>1
    <3>3. DownAfter(c, i - 1, c[i].ptr)
      BY <3>1, <3>2, <2>2 DEF DownAfter
    <3>4. c[i].act # "DOWN"
      BY <2>2, <1>3
    <3> QED BY <3>3, <3>4 DEF Fits
  <2>3. CASE i \in (n + 1)..e
    <3>1. c[i].ptr + 1 \in 1..n /\ c[i].ptr = (c[i].ptr + 1) - 1 /\ i \notin 1..n
      BY <1>1, <2>3
    <3> QED BY <2>2, <2>3, <3>1
  <2>4. CASE i \in (e + 1)..(e + n)
    <3>1. i - e \in 1..n /\ c[i].ptr = (i - e) - 1 /\ i = e + (i - e) /\ i \notin 1..n
      BY <1>1, <2>4
    <3> QED BY <2>2, <3>1
  <2> QED BY <1>2, <2>1, <2>3, <2>4
<1>7. \A m \in Elems(c) : m.dev = "touch"
  BY <1>1, <1>2 DEF Elems
<1> QED BY <1>5, <1>6, <1>7 DEF WellFormed

LEMMA EachFacts ==
  ASSUME NEW a \in Acts, NEW n \in 1..3
  PROVE  /\ G!Each(a, n) \in Seq(ScriptMsg) /\ Len(G!Each(a, n)) = n
         /\ \A i \in 1..n : G!Each(a, n)[i] = G!Touch(a, i - 1)
<1>1. \A i \in 1..n : i - 1 \in Fingers
  BY DEF Fingers, G!Pointers
<1>2. \A i \in 1..n : G!Touch(a, i - 1) \in ScriptMsg
  BY <1>1, TouchFields
<1> QED BY <1>2 DEF G!Each

LEMMA ConcatOf ==
  ASSUME NEW S, NEW s \in Seq(S), NEW c \in Seq(S), NEW a \in Nat,
         NEW b \in Nat, Len(s) = a, Len(c) = b
  PROVE  /\ s \o c \in Seq(S) /\ Len(s \o c) = a + b
         /\ \A i \in 1..a : (s \o c)[i] = s[i]
         /\ \A i \in 1..b : (s \o c)[a + i] = c[i]
<1>1. /\ s \o c \in Seq(S) /\ Len(s \o c) = Len(s) + Len(c)
      /\ \A i \in 1..Len(s) : (s \o c)[i] = s[i]
      /\ \A i \in 1..Len(c) : (s \o c)[Len(s) + i] = c[i]
  BY ONLY s \in Seq(S), c \in Seq(S), ConcatFacts
<1> QED BY <1>1

LEMMA EachPhases ==
  ASSUME NEW n \in 1..3
  PROVE  /\ Phases(G!Each("DOWN", n) \o G!Each("UP", n), n, 0)
         /\ Phases(G!Each("DOWN", n) \o G!Each("MOVE", n) \o G!Each("UP", n), n, n)
<1> DEFINE d == G!Each("DOWN", n)
           m == G!Each("MOVE", n)
           u == G!Each("UP", n)
<1>1. "DOWN" \in Acts /\ "MOVE" \in Acts /\ "UP" \in Acts /\ n \in Nat
  BY DEF Acts
<1>2. /\ d \in Seq(ScriptMsg) /\ Len(d) = n /\ \A i \in 1..n : d[i] = G!Touch("DOWN", i - 1)
      /\ m \in Seq(ScriptMsg) /\ Len(m) = n /\ \A i \in 1..n : m[i] = G!Touch("MOVE", i - 1)
      /\ u \in Seq(ScriptMsg) /\ Len(u) = n /\ \A i \in 1..n : u[i] = G!Touch("UP", i - 1)
  BY <1>1, EachFacts
<1>2a. /\ d \in Seq(ScriptMsg) /\ m \in Seq(ScriptMsg) /\ u \in Seq(ScriptMsg)
       /\ Len(d) = n /\ Len(m) = n /\ Len(u) = n
  BY <1>2
<1> HIDE DEF d, m, u
<1>3. Phases(d \o u, n, 0)
  <2>1. /\ d \o u \in Seq(ScriptMsg) /\ Len(d \o u) = n + n
        /\ \A i \in 1..n : (d \o u)[i] = d[i]
        /\ \A i \in 1..n : (d \o u)[n + i] = u[i]
    BY <1>1, <1>2a, ConcatOf
  <2>2. ASSUME NEW i \in ((n + 0) + 1)..((n + 0) + n)
        PROVE  (d \o u)[i] = G!Touch("UP", (i - (n + 0)) - 1)
    <3>1. i - n \in 1..n /\ i = n + (i - n) /\ (i - (n + 0)) - 1 = (i - n) - 1
      BY <1>1
    <3> QED BY <1>2, <2>1, <3>1
  <2>3. (n + 1)..(n + 0) = {} /\ (n + 0) + n = n + n
    BY <1>1
  <2> QED BY <1>2, <2>1, <2>2, <2>3 DEF Phases
<1>4. Phases((d \o m) \o u, n, n)
  <2>1. /\ d \o m \in Seq(ScriptMsg) /\ Len(d \o m) = n + n
        /\ \A i \in 1..n : (d \o m)[i] = d[i]
        /\ \A i \in 1..n : (d \o m)[n + i] = m[i]
    BY <1>1, <1>2a, ConcatOf
  <2> DEFINE c == (d \o m) \o u
  <2>2. /\ c \in Seq(ScriptMsg) /\ Len(c) = (n + n) + n
        /\ \A i \in 1..(n + n) : c[i] = (d \o m)[i]
        /\ \A i \in 1..n : c[(n + n) + i] = u[i]
    <3>1. d \o m \in Seq(ScriptMsg) /\ Len(d \o m) = n + n
      BY <2>1
    <3> QED BY <1>2a, <3>1, ConcatOf, SMTT(30)
  <2> HIDE DEF c
  <2>3. ASSUME NEW i \in 1..n PROVE c[i] = G!Touch("DOWN", i - 1)
    <3>1. i \in 1..(n + n)
      BY <1>1
    <3>2. c[i] = (d \o m)[i] /\ (d \o m)[i] = d[i]
      BY <2>1, <2>2, <3>1
    <3> QED BY <1>2, <3>2
  <2>4. ASSUME NEW i \in (n + 1)..(n + n)
        PROVE  c[i].act = "MOVE" /\ c[i].dev = "touch" /\ c[i].ptr \in 0..(n - 1)
    <3>1. i - n \in 1..n /\ i = n + (i - n) /\ i \in 1..(n + n)
      BY <1>1
    <3>2. c[i] = G!Touch("MOVE", (i - n) - 1)
      BY <1>2, <2>1, <2>2, <3>1
    <3>3. (i - n) - 1 \in Fingers /\ (i - n) - 1 \in 0..(n - 1)
      BY <3>1 DEF Fingers, G!Pointers
    <3> QED BY <1>1, <3>2, <3>3, TouchFields
  <2>5. ASSUME NEW i \in ((n + n) + 1)..((n + n) + n)
        PROVE  c[i] = G!Touch("UP", (i - (n + n)) - 1)
    <3>1. i - (n + n) \in 1..n /\ i = (n + n) + (i - (n + n))
      BY <1>1
    <3> QED BY <1>2, <2>2, <3>1
  <2> QED BY <2>2, <2>3, <2>4, <2>5 DEF Phases, c
<1> QED BY <1>3, <1>4 DEF d, m, u

LEMMA DownUpPhases == Phases(G!DownUp(0), 1, 0)
<1>1. 0 \in Fingers /\ "DOWN" \in Acts /\ "UP" \in Acts
  BY DEF Fingers, G!Pointers, Acts
<1>2. G!Touch("DOWN", 0) \in ScriptMsg /\ G!Touch("UP", 0) \in ScriptMsg
  BY <1>1, TouchFields
<1> DEFINE c == G!DownUp(0)
<1>3. c \in Seq(ScriptMsg) /\ Len(c) = 2 /\ c[1] = G!Touch("DOWN", 0) /\ c[2] = G!Touch("UP", 0)
  BY <1>2 DEF G!DownUp
<1> HIDE DEF c
<1>4. \A i \in 1..1 : c[i] = G!Touch("DOWN", i - 1)
  BY <1>3
<1>5. \A i \in ((1 + 0) + 1)..((1 + 0) + 1) : c[i] = G!Touch("UP", (i - (1 + 0)) - 1)
  BY <1>3
<1> QED BY <1>3, <1>4, <1>5 DEF Phases, c

LEMMA SwipePhases == Phases(G!swipe_pointer, 1, 2)
<1>1. 0 \in Fingers /\ "DOWN" \in Acts /\ "UP" \in Acts /\ "MOVE" \in Acts
  BY DEF Fingers, G!Pointers, Acts
<1>2. /\ G!Touch("DOWN", 0) \in ScriptMsg /\ G!Touch("UP", 0) \in ScriptMsg
      /\ G!Touch("MOVE", 0) \in ScriptMsg
      /\ G!Touch("MOVE", 0).act = "MOVE" /\ G!Touch("MOVE", 0).dev = "touch"
      /\ G!Touch("MOVE", 0).ptr = 0
  BY <1>1, TouchFields
<1> DEFINE c == G!swipe_pointer
<1>3. /\ c \in Seq(ScriptMsg) /\ Len(c) = 4 /\ c[1] = G!Touch("DOWN", 0)
      /\ c[2] = G!Touch("MOVE", 0) /\ c[3] = G!Touch("MOVE", 0) /\ c[4] = G!Touch("UP", 0)
  BY <1>2 DEF G!swipe_pointer
<1> HIDE DEF c
<1>4. \A i \in 1..1 : c[i] = G!Touch("DOWN", i - 1)
  BY <1>3
<1>5. \A i \in ((1 + 2) + 1)..((1 + 2) + 1) : c[i] = G!Touch("UP", (i - (1 + 2)) - 1)
  BY <1>3
<1>6. \A i \in (1 + 1)..(1 + 2) :
        c[i].act = "MOVE" /\ c[i].dev = "touch" /\ c[i].ptr \in 0..(1 - 1)
  <2>1. \A i \in (1 + 1)..(1 + 2) : i = 2 \/ i = 3
    OBVIOUS
  <2> QED BY <1>2, <1>3, <2>1
<1> QED BY <1>3, <1>4, <1>5, <1>6 DEF Phases, c

\* A script by itself is a touch stream the phone can make sense of, and it
\* lifts all it presses.
Proper(c) ==
  /\ c \in Seq(ScriptMsg) /\ c # <<>>
  /\ WellFormed(c, {}) /\ \A p : ~Touching(c, p)

TouchOnly(c) == \A m \in Elems(c) : m.dev = "touch"

LEMMA PhasesProper ==
  ASSUME NEW c, NEW n \in 1..3, NEW k \in Nat, Phases(c, n, k)
  PROVE  Proper(c) /\ TouchOnly(c)
<1>1. n \in 0..3 /\ c \in Seq(ScriptMsg) /\ Len(c) # 0
  BY DEF Phases
<1>2. c # <<>>
  BY <1>1
<1> QED BY <1>1, <1>2, PhasesFit DEF Proper, TouchOnly

LEMMA TwiceProper ==
  ASSUME NEW c, Proper(c), TouchOnly(c)
  PROVE  Proper(c \o c) /\ TouchOnly(c \o c)
<1>1. /\ c \o c \in Seq(ScriptMsg) /\ Len(c) \in Nat /\ Len(c \o c) = Len(c) + Len(c)
      /\ \A i \in 1..Len(c) : (c \o c)[i] = c[i]
      /\ \A i \in 1..Len(c) : (c \o c)[Len(c) + i] = c[i]
  BY ConcatFacts DEF Proper
<1>2. Len(c) # 0
  BY EmptySeq, LenProperties DEF Proper
<1>3. c \o c # <<>>
  BY <1>1, <1>2
<1>4. WellFormed(c \o c, {})
  BY WellFormedConcat DEF Proper
<1>5. \A p : ~Touching(c \o c, p)
  BY TouchingConcat DEF Proper
<1>6. ASSUME NEW i \in 1..Len(c \o c) PROVE (c \o c)[i].dev = "touch"
  <2>1. \A j \in 1..Len(c) : c[j].dev = "touch"
    BY DEF TouchOnly, Elems
  <2>2. CASE i <= Len(c)
    BY <1>1, <2>1, <2>2
  <2>3. CASE i > Len(c)
    <3>1. i - Len(c) \in 1..Len(c) /\ i = Len(c) + (i - Len(c))
      BY <1>1, <2>3
    <3>2. (c \o c)[i] = c[i - Len(c)]
      BY <1>1, <3>1
    <3> QED BY <2>1, <3>1, <3>2
  <2> QED BY <1>1, <2>2, <2>3
<1> QED BY <1>1, <1>3, <1>4, <1>5, <1>6 DEF Proper, TouchOnly, Elems

Keyboard == {"key_chord", "type_text"}

LEMMA ChordScript ==
  /\ Proper(G!key_chord) /\ HoldsAtMost(G!key_chord, {})
  /\ \E i \in 1..Len(G!key_chord) : G!key_chord[i].dev = "kbd"
  /\ \A m \in Elems(G!key_chord) : m.act = "REPORT"
<1> DEFINE c == G!key_chord
<1>1. {"mod", "key"} \in SUBSET {"mod", "key"} /\ {"mod"} \in SUBSET {"mod", "key"}
      /\ {} \in SUBSET {"mod", "key"}
  OBVIOUS
<1>2. \A h \in SUBSET {"mod", "key"} :
        /\ G!Report(h) \in ScriptMsg
        /\ G!Report(h).act = "REPORT" /\ G!Report(h).dev = "kbd" /\ G!Report(h).held = h
  BY ReportFields
<1>3. /\ c \in Seq(ScriptMsg) /\ Len(c) = 3
      /\ c[1] = G!Report({"mod", "key"}) /\ c[2] = G!Report({"mod"}) /\ c[3] = G!Report({})
  <2>1. G!Report({"mod", "key"}) \in ScriptMsg /\ G!Report({"mod"}) \in ScriptMsg
        /\ G!Report({}) \in ScriptMsg
    BY <1>1, <1>2
  <2> QED BY <2>1 DEF G!key_chord
<1> HIDE DEF c
<1>4. \A i \in 1..Len(c) : i = 1 \/ i = 2 \/ i = 3
  BY <1>3
<1>5. \A i \in 1..Len(c) : c[i].act = "REPORT" /\ c[i].dev = "kbd"
  BY <1>1, <1>2, <1>3, <1>4
<1>6. 3 \in 1..Len(c) /\ c[3].held = {} /\ c # <<>>
  BY <1>1, <1>2, <1>3
<1>7. WellFormed(c, {}) /\ \A p : ~Touching(c, p)
  BY <1>5 DEF WellFormed, Fits, Touching, DownAfter
<1>8. HoldsAtMost(c, {})
  <2> SUFFICES ASSUME NEW i \in 1..Len(c), \A j \in (i + 1)..Len(c) : c[j].dev # "kbd"
               PROVE  c[i].held \subseteq {}
    BY DEF HoldsAtMost
  <2>1. i # 3 => 3 \in (i + 1)..Len(c)
    BY <1>3
  <2>2. i = 3
    BY <1>5, <1>6, <2>1
  <2> QED BY <1>6, <2>2
<1> QED BY <1>3, <1>5, <1>6, <1>7, <1>8 DEF Proper, Elems, c

LEMMA TypeScript ==
  /\ Proper(G!type_text) /\ HoldsAtMost(G!type_text, {"mod"})
  /\ \E i \in 1..Len(G!type_text) : G!type_text[i].dev = "kbd"
<1> DEFINE c == G!type_text
<1>1. {"mod", "key"} \in SUBSET {"mod", "key"} /\ {"mod"} \in SUBSET {"mod", "key"}
  OBVIOUS
<1>2. \A h \in SUBSET {"mod", "key"} :
        /\ G!Report(h) \in ScriptMsg
        /\ G!Report(h).act = "REPORT" /\ G!Report(h).dev = "kbd" /\ G!Report(h).held = h
  BY ReportFields
<1>3. /\ c \in Seq(ScriptMsg) /\ Len(c) = 2
      /\ c[1] = G!Report({"mod", "key"}) /\ c[2] = G!Report({"mod"})
  <2>1. G!Report({"mod", "key"}) \in ScriptMsg /\ G!Report({"mod"}) \in ScriptMsg
    BY <1>1, <1>2
  <2> QED BY <2>1 DEF G!type_text
<1> HIDE DEF c
<1>4. \A i \in 1..Len(c) : i = 1 \/ i = 2
  BY <1>3
<1>5. \A i \in 1..Len(c) : c[i].act = "REPORT" /\ c[i].dev = "kbd"
  BY <1>1, <1>2, <1>3, <1>4
<1>6. 2 \in 1..Len(c) /\ c[2].held = {"mod"} /\ c # <<>>
  BY <1>1, <1>2, <1>3
<1>7. WellFormed(c, {}) /\ \A p : ~Touching(c, p)
  BY <1>5 DEF WellFormed, Fits, Touching, DownAfter
<1>8. HoldsAtMost(c, {"mod"})
  <2> SUFFICES ASSUME NEW i \in 1..Len(c), \A j \in (i + 1)..Len(c) : c[j].dev # "kbd"
               PROVE  c[i].held \subseteq {"mod"}
    BY DEF HoldsAtMost
  <2>1. i # 2 => 2 \in (i + 1)..Len(c)
    BY <1>3
  <2>2. i = 2
    BY <1>5, <1>6, <2>1
  <2> QED BY <1>6, <2>2
<1> QED BY <1>3, <1>5, <1>6, <1>7, <1>8 DEF Proper, c

\* What every helper sends: it presses and lifts properly, and at its end
\* holds no key, and no modifier unless it types.
LEMMA ScriptFacts ==
  ASSUME NEW g \in Kinds
  PROVE  /\ Proper(G!Script[g]) /\ HoldsAtMost(G!Script[g], MayHold(g))
         /\ g \in Keyboard => \E i \in 1..Len(G!Script[g]) : G!Script[g][i].dev = "kbd"
         /\ g \notin Keyboard => TouchOnly(G!Script[g])
         /\ g = "key_chord" => \A m \in Elems(G!Script[g]) : m.act = "REPORT"
<1>1. g \in {"tap_pointer", "long_press", "double_tap", "swipe_pointer", "drag", "pinch",
             "multi_finger_tap", "three_finger_screenshot", "key_chord", "type_text"}
  BY HelpersKnown DEF G!Script
<1>2. CASE g = "key_chord"
  <2>1. G!Script[g] = G!key_chord
    BY <1>2 DEF G!Script
  <2> QED BY <1>2, <2>1, ChordScript DEF MayHold, Keyboard
<1>3. CASE g = "type_text"
  <2>1. G!Script[g] = G!type_text
    BY <1>3 DEF G!Script
  <2> QED BY <1>3, <2>1, TypeScript DEF MayHold, Keyboard
<1>4. CASE g \notin Keyboard
  <2>1. \A k \in {1, 2, 3} : k \in 1..3 /\ k \in Nat
    OBVIOUS
  <2>2. Proper(G!DownUp(0)) /\ TouchOnly(G!DownUp(0))
    BY DownUpPhases, PhasesProper
  <2>3. Proper(G!double_tap) /\ TouchOnly(G!double_tap)
    BY <2>2, TwiceProper DEF G!double_tap
  <2>4. Proper(G!swipe_pointer) /\ TouchOnly(G!swipe_pointer)
    BY <2>1, SwipePhases, PhasesProper
  <2>5. Proper(G!pinch) /\ TouchOnly(G!pinch)
    BY <2>1, EachPhases, PhasesProper DEF G!pinch
  <2>6. Proper(G!multi_finger_tap) /\ TouchOnly(G!multi_finger_tap)
    BY <2>1, EachPhases, PhasesProper DEF G!multi_finger_tap
  <2>7. Proper(G!three_finger_screenshot) /\ TouchOnly(G!three_finger_screenshot)
    BY <2>1, EachPhases, PhasesProper DEF G!three_finger_screenshot
  <2>8. G!tap_pointer = G!DownUp(0) /\ G!long_press = G!DownUp(0) /\ G!drag = G!swipe_pointer
    BY DEF G!tap_pointer, G!long_press, G!drag
  <2>9. Proper(G!Script[g]) /\ TouchOnly(G!Script[g])
    BY <1>1, <1>4, <2>2, <2>3, <2>4, <2>5, <2>6, <2>7, <2>8 DEF G!Script, Keyboard
  <2>10. \A i \in 1..Len(G!Script[g]) : G!Script[g][i].dev # "kbd"
    BY <2>9 DEF TouchOnly, Elems
  <2> QED BY <1>4, <2>9, <2>10 DEF HoldsAtMost, Keyboard
<1> QED BY <1>1, <1>2, <1>3, <1>4 DEF Keyboard

-----------------------------------------------------------------------------
(* The writer, as handle and helpers use it.                               *)

\* A send that returns Ok adds its message to the stream; one that fails adds
\* nothing, as long as the failed write has delivered nothing.
Sent(m) ==
  \/ last' # "Err" /\ Stream' = Append(Stream, m)
  \/ last' = "Err" /\ Stream' = Stream

SendEffect(m) ==
  /\ WriterOK' /\ direct' = direct /\ faults <= faults'
  /\ last' = "Err" => faults' = faults + 1
  /\ accepted' = accepted \/ accepted' = Append(accepted, m)
  /\ Exact' => (Exact /\ Sent(m))

\* A write of b that fails adds a beginning of b, or all of it, to the wire.
LEMMA LandFacts ==
  ASSUME NEW w \in Seq(TouchMsg), NEW b \in Seq(TouchMsg), NEW k \in 0..Len(b)
  PROVE  /\ w \o SubSeq(b, 1, k) \in Seq(TouchMsg)
         /\ Len(w \o SubSeq(b, 1, k)) = Len(w) + k
         /\ k = 0 => w \o SubSeq(b, 1, k) = w
<1> DEFINE c == SubSeq(b, 1, k)
<1>1. Len(b) \in Nat /\ k \in Int /\ 1 \in Int /\ \A i \in 1..k : b[i] \in TouchMsg
  BY LenProperties, ElementOfSeq
<1>2. c \in Seq(TouchMsg) /\ Len(c) = IF 1 <= k THEN (k - 1) + 1 ELSE 0
  BY <1>1, SubSeqProperties
<1>3. Len(c) = k
  BY <1>1, <1>2
<1>4. k = 0 => c = <<>>
  BY <1>1, SubSeqEmpty
<1> HIDE DEF c
<1>5. w \o c \in Seq(TouchMsg) /\ Len(w \o c) = Len(w) + k
  BY <1>2, <1>3, ConcatFacts
<1>6. k = 0 => w \o c = w
  BY <1>4, ConcatEmptySeq
<1> QED BY <1>5, <1>6 DEF c

LEMMA DirectSend ==
  ASSUME WriterOK, NEW m \in TouchMsg, direct, W!DirectMsg(m)
  PROVE  SendEffect(m)
<1>1. /\ wire \in Seq(TouchMsg) /\ accepted \in Seq(TouchMsg) /\ pending = <<>>
      /\ Len(accepted) <= Len(wire) /\ pushed \in Nat /\ faults \in Nat
      /\ Len(accepted) \in Nat /\ Len(wire) \in Nat
  BY LenProperties DEF WriterOK
<1>2. direct' = direct /\ pending' = <<>> /\ pushed' = pushed + 1
  BY <1>1 DEF W!DirectMsg, W!control
<1>3. <<>> \in Seq(TouchMsg) /\ <<m>> \in Seq(TouchMsg) /\ Len(<<m>>) = 1
  OBVIOUS
<1>4. Stream = wire
  BY <1>1, ConcatEmptySeq DEF Stream
<1>5. CASE /\ W!WriteOk(<<m>>) /\ accepted' = Append(accepted, m)
           /\ last' = IF m.critical THEN "Critical" ELSE "Window"
  <2>1. wire' = Append(wire, m) /\ faults' = faults
    BY <1>1, <1>5, AppendIsConcat DEF W!WriteOk
  <2>2. /\ wire' \in Seq(TouchMsg) /\ accepted' \in Seq(TouchMsg)
        /\ Len(wire') = Len(wire) + 1 /\ Len(accepted') = Len(accepted) + 1
    BY <1>1, <1>5, <2>1, AppendFacts
  <2>3. Stream' = wire'
    BY <1>2, <2>2, ConcatEmptySeq DEF Stream
  <2>4. last' # "Err"
    BY <1>5
  <2>5. wire' = accepted' <=> wire = accepted
    BY <1>1, <1>5, <2>1, AppendInjective
  <2>6. FailedWritesAreEmpty' <=> FailedWritesAreEmpty
    BY <1>4, <2>3, <2>5 DEF FailedWritesAreEmpty
  <2>7. WriterOK'
    BY <1>1, <1>2, <1>3, <2>1, <2>2, <2>6 DEF WriterOK
  <2>8. Exact' => (Exact /\ Sent(m))
    BY <1>4, <2>1, <2>3, <2>4, <2>6 DEF Exact, Sent
  <2> QED BY <1>1, <1>2, <1>5, <2>1, <2>4, <2>7, <2>8 DEF SendEffect
<1>6. CASE W!WriteErr(<<m>>) /\ last' = "Err" /\ accepted' = accepted
  <2>1. PICK k \in 0..Len(<<m>>) : wire' = wire \o SubSeq(<<m>>, 1, k)
    BY <1>6 DEF W!WriteErr, W!Lands
  <2>2. faults' = faults + 1
    BY <1>6 DEF W!WriteErr
  <2>3. /\ wire' \in Seq(TouchMsg) /\ Len(wire') = Len(wire) + k
        /\ k = 0 => wire' = wire
    BY <1>1, <1>3, <2>1, LandFacts
  <2>4. Stream' = wire'
    BY <1>2, <2>3, ConcatEmptySeq DEF Stream
  <2>5. k \in Nat
    BY <1>3
  <2>6. WriterOK'
    BY <1>1, <1>2, <1>3, <1>6, <2>2, <2>3, <2>5 DEF WriterOK
  <2>7. ASSUME FailedWritesAreEmpty' PROVE FailedWritesAreEmpty /\ Stream' = Stream
    <3>1. wire' = accepted
      BY <1>6, <2>4, <2>7 DEF FailedWritesAreEmpty
    <3>2. k = 0
      BY <1>1, <2>3, <2>5, <3>1
    <3> QED BY <1>4, <2>3, <2>4, <3>1, <3>2 DEF FailedWritesAreEmpty
  <2>8. Exact' => (Exact /\ Sent(m))
    BY <1>6, <2>7 DEF Exact, Sent
  <2> QED BY <1>1, <1>2, <1>6, <2>2, <2>6, <2>8 DEF SendEffect
<1> QED BY <1>5, <1>6 DEF W!DirectMsg

LEMMA BufferedSend ==
  ASSUME WriterOK, NEW m \in TouchMsg, ~direct, W!BufferMsg(m)
  PROVE  SendEffect(m)
<1> DEFINE b == Append(pending, m)
           n == pendingLen + m.size
<1>1. /\ wire \in Seq(TouchMsg) /\ accepted \in Seq(TouchMsg) /\ pending \in Seq(TouchMsg)
      /\ pushed \in Nat /\ faults \in Nat
  BY DEF WriterOK
<1>2. direct' = direct /\ pushed' = pushed + 1 /\ accepted' = Append(accepted, m)
  BY DEF W!BufferMsg, W!control
<1>3. b \in Seq(TouchMsg) /\ accepted' \in Seq(TouchMsg) /\ <<>> \in Seq(TouchMsg)
      /\ Stream \in Seq(TouchMsg)
  BY <1>1, <1>2, AppendFacts, ConcatFacts DEF Stream
<1>4. wire \o b = Append(Stream, m)
  <2>1. <<m>> \in Seq(TouchMsg)
    OBVIOUS
  <2>2. b = pending \o <<m>> /\ Append(Stream, m) = Stream \o <<m>>
    BY <1>1, <1>3, AppendIsConcat
  <2> QED BY <1>1, <2>1, <2>2, ConcatAssociative DEF Stream
<1>5. ASSUME wire' \in Seq(TouchMsg), pending' \in Seq(TouchMsg), faults' = faults,
             last' # "Err", Stream' = Append(Stream, m)
      PROVE  SendEffect(m)
  <2>1. FailedWritesAreEmpty' <=> FailedWritesAreEmpty
    BY <1>1, <1>2, <1>3, <1>5, AppendInjective DEF FailedWritesAreEmpty
  <2>2. WriterOK'
    BY <1>1, <1>2, <1>3, <1>5, <2>1 DEF WriterOK
  <2>3. Exact' => (Exact /\ Sent(m))
    BY <1>2, <1>5, <2>1 DEF Exact, Sent
  <2> QED BY <1>1, <1>2, <1>5, <2>2, <2>3 DEF SendEffect
<1>6. ASSUME NEW r \in {"Full", "Window"}, W!FlushNow(b, n, r) PROVE SendEffect(m)
  <2>1. CASE W!FlushOk(b, n) /\ last' = r
    <3>1. wire' = wire \o b /\ pending' = <<>> /\ faults' = faults
      BY <2>1 DEF W!FlushOk, W!WriteOk
    <3>2. wire' \in Seq(TouchMsg)
      BY <1>1, <1>3, <3>1, ConcatFacts
    <3>3. Stream' = Append(Stream, m)
      BY <1>4, <3>1, <3>2, ConcatEmptySeq DEF Stream
    <3>4. last' # "Err"
      BY <2>1
    <3> QED BY <1>3, <1>5, <3>1, <3>2, <3>3, <3>4
  <2>2. CASE W!FlushErr(b, n) /\ last' = "Err"
    <3>1. PICK k \in 0..Len(b) : wire' = wire \o SubSeq(b, 1, k)
      BY <2>2 DEF W!FlushErr, W!WriteErr, W!Lands
    <3>2. faults' = faults + 1 /\ pending' = b
      BY <2>2 DEF W!FlushErr, W!WriteErr
    <3>3. wire' \in Seq(TouchMsg)
      BY <1>1, <1>3, <3>1, LandFacts
    <3>4. WriterOK'
      BY <1>1, <1>2, <1>3, <3>2, <3>3 DEF WriterOK
    <3>5. ~Exact'
      BY <1>1, <1>2, <3>2 DEF Exact
    <3> QED BY <1>1, <1>2, <2>2, <3>2, <3>4, <3>5 DEF SendEffect
  <2> QED BY <1>6, <2>1, <2>2 DEF W!FlushNow
<1>7. ASSUME W!Keep(b, n), last' = "Pending" PROVE SendEffect(m)
  <2>1. wire' = wire /\ pending' = b /\ faults' = faults
    BY <1>7 DEF W!Keep
  <2>2. Stream' = Append(Stream, m)
    BY <1>4, <2>1 DEF Stream
  <2> QED BY <1>1, <1>3, <1>5, <1>7, <2>1, <2>2
<1>8. W!FlushNow(b, n, "Full") \/ W!FlushNow(b, n, "Window") \/ (W!Keep(b, n) /\ last' = "Pending")
  BY DEF W!BufferMsg
<1> QED BY <1>6, <1>7, <1>8

LEMMA PushFacts ==
  ASSUME WriterOK, NEW m \in TouchMsg, W!Push(m)
  PROVE  SendEffect(m)
<1>1. m.critical = FALSE
  BY DEF TouchMsg
<1>2. CASE direct
  BY <1>2, DirectSend DEF W!Push
<1>3. CASE ~direct
  BY <1>1, <1>3, BufferedSend DEF W!Push
<1> QED BY <1>2, <1>3

LEMMA FlushFacts ==
  ASSUME WriterOK, W!ExplicitFlush
  PROVE  /\ WriterOK' /\ direct' = direct /\ faults <= faults' /\ accepted' = accepted
         /\ Exact' => (Exact /\ Stream' = Stream)
<1>1. /\ wire \in Seq(TouchMsg) /\ accepted \in Seq(TouchMsg) /\ pending \in Seq(TouchMsg)
      /\ pushed \in Nat /\ faults \in Nat /\ (direct => pending = <<>>)
  BY DEF WriterOK
<1>2. direct' = direct /\ pushed' = pushed /\ accepted' = accepted
  BY DEF W!ExplicitFlush, W!control
<1>3. CASE W!FlushOk(pending, pendingLen)
  <2>1. wire' = wire \o pending /\ pending' = <<>> /\ faults' = faults
    BY <1>3 DEF W!FlushOk, W!WriteOk
  <2>2. wire' \in Seq(TouchMsg) /\ pending' \in Seq(TouchMsg) /\ Len(wire) <= Len(wire')
        /\ Len(wire) \in Nat /\ Len(wire') \in Nat
    BY <1>1, <2>1, ConcatFacts
  <2>3. Stream' = Stream
    BY <2>1, <2>2, ConcatEmptySeq DEF Stream
  <2>4. FailedWritesAreEmpty' <=> FailedWritesAreEmpty
    BY <1>2, <2>3 DEF FailedWritesAreEmpty
  <2>5. Len(accepted) \in Nat
    BY <1>1, LenProperties
  <2>6. WriterOK'
    BY <1>1, <1>2, <2>1, <2>2, <2>4, <2>5 DEF WriterOK
  <2> QED BY <1>1, <1>2, <2>1, <2>3, <2>4, <2>6 DEF Exact
<1>4. CASE W!FlushErr(pending, pendingLen)
  <2>1. PICK k \in 0..Len(pending) : wire' = wire \o SubSeq(pending, 1, k)
    BY <1>4 DEF W!FlushErr, W!WriteErr, W!Lands
  <2>2. faults' = faults + 1 /\ pending' = pending /\ ~direct
    BY <1>1, <1>4 DEF W!FlushErr, W!WriteErr
  <2>3. wire' \in Seq(TouchMsg)
    BY <1>1, <2>1, LandFacts
  <2>4. WriterOK'
    BY <1>1, <1>2, <2>2, <2>3 DEF WriterOK
  <2>5. ~Exact'
    BY <1>1, <1>2, <2>2 DEF Exact
  <2> QED BY <1>1, <1>2, <2>2, <2>4, <2>5
<1> QED BY <1>3, <1>4 DEF W!ExplicitFlush, W!FlushNow

\* The helpers use the same writer.
LEMMA SameWriter ==
  /\ \A m : G!W!Push(m) => W!Push(m)
  /\ G!W!ExplicitFlush => W!ExplicitFlush
<1>1. \A b : (G!W!WriteOk(b) <=> W!WriteOk(b)) /\ (G!W!WriteErr(b) <=> W!WriteErr(b))
  BY DEF G!W!WriteOk, W!WriteOk, G!W!WriteErr, W!WriteErr, G!W!Lands, W!Lands
<1>2. \A b, n : (G!W!FlushOk(b, n) <=> W!FlushOk(b, n)) /\ (G!W!FlushErr(b, n) <=> W!FlushErr(b, n))
  BY <1>1 DEF G!W!FlushOk, W!FlushOk, G!W!FlushErr, W!FlushErr
<1>3. \A b, n, r : G!W!FlushNow(b, n, r) <=> W!FlushNow(b, n, r)
  BY <1>2 DEF G!W!FlushNow, W!FlushNow
<1>4. \A b, n : G!W!Keep(b, n) <=> W!Keep(b, n)
  BY DEF G!W!Keep, W!Keep
<1>5. \A m : G!W!DirectMsg(m) => W!DirectMsg(m)
  BY <1>1 DEF G!W!DirectMsg, W!DirectMsg, G!W!control, W!control
<1>6. \A m : G!W!BufferMsg(m) => W!BufferMsg(m)
  BY <1>3, <1>4 DEF G!W!BufferMsg, W!BufferMsg, G!W!control, W!control
<1>7. \A m : G!W!CriticalMsg(m) => W!CriticalMsg(m)
  BY <1>1, <1>2 DEF G!W!CriticalMsg, W!CriticalMsg, G!W!control, W!control, G!W!Lands, W!Lands
<1>8. G!W!ExplicitFlush => W!ExplicitFlush
  BY <1>3 DEF G!W!ExplicitFlush, W!ExplicitFlush, G!W!control, W!control
<1> QED BY <1>5, <1>6, <1>7, <1>8 DEF G!W!Push, W!Push

-----------------------------------------------------------------------------
(* Steps of the handle.                                                    *)

StreamTypes ==
  /\ Stream \in Seq(TouchMsg) /\ Stream \in Seq(Event)
  /\ script \in Seq(Event) /\ Ahead \in Seq(Event)
  /\ gpc = "idle" => Ahead = Stream

LEMMA StreamFacts == WriterOK /\ HelperOK => StreamTypes
<1> SUFFICES ASSUME WriterOK, HelperOK PROVE StreamTypes
  OBVIOUS
<1>1. Stream \in Seq(TouchMsg)
  BY ConcatFacts DEF WriterOK, Stream
<1>2. Stream \in Seq(Event) /\ script \in Seq(Event)
  BY <1>1, SeqMonotonic DEF HelperOK, Event
<1>3. Ahead \in Seq(Event)
  BY <1>2, ConcatFacts DEF Ahead
<1>4. gpc = "idle" => Ahead = Stream
  BY <1>2, ConcatEmptySeq DEF Ahead, HelperOK
<1> QED BY <1>1, <1>2, <1>3, <1>4 DEF StreamTypes

LEMMA StreamFactsNext == WriterOK' /\ HelperOK' => StreamTypes'
BY StreamFacts, PTL

LEMMA UndoableIsExact ==
  ASSUME WriterOK, Undoable
  PROVE  Exact
BY DEF WriterOK, Undoable, Exact

\* What could be undone after a step could be undone before it.
LEMMA UndoableBefore ==
  ASSUME WriterOK, WriterOK', direct' = direct, faults <= faults', Exact' => Exact,
         broken => broken', Undoable'
  PROVE  Undoable /\ Exact'
<1>1. faults \in Nat /\ faults' \in Nat
  BY DEF WriterOK
<1>2. Exact'
  BY DEF WriterOK, Undoable, Exact
<1>3. Exact
  BY <1>2
<1> QED BY <1>1, <1>2, <1>3 DEF Undoable, Exact

LEMMA DownNowIs ==
  \A q : q \in DownNow <=> (q \in Pointers /\ Touching(Stream, q))
BY DEF DownNow, Touching

\* A step that leaves the stream alone.
LEMMA SameStream ==
  ASSUME TouchInv, WriterOK', HandleOK', direct' = direct, faults <= faults',
         Exact' => (Exact /\ Stream' = Stream),
         active' = active, stray' = stray, UNCHANGED helper, pc' = "none" <=> pc = "none"
  PROVE  TouchInv'
<1>1. /\ script' = script /\ gpc' = gpc /\ kind' = kind /\ pressed' = pressed
      /\ broken' = broken
  BY DEF helper
<1>2. faults \in Nat /\ faults' \in Nat
  BY DEF TouchInv, WriterOK
<1>3. HelperOK'
  BY <1>1, <1>2 DEF TouchInv, HelperOK
<1>4. Exact' => (Exact /\ Ahead' = Ahead /\ Stream' = Stream)
  BY <1>1 DEF Ahead
<1>5. InUse' = InUse
  BY DEF InUse
<1>6. MirrorOK'
  <2>1. Stream' = Stream => DownNow' = DownNow
    BY DEF DownNow
  <2> QED BY <1>4, <2>1 DEF TouchInv, MirrorOK
<1>7. StreamOK'
  <2>1. faults' = 0 => faults = 0 /\ Exact'
    BY <1>2 DEF WriterOK, Exact
  <2> QED BY <1>4, <2>1 DEF TouchInv, StreamOK
<1>8. ReleaseOK'
  <2>1. Undoable' => Undoable /\ Exact'
    BY <1>1, UndoableBefore DEF TouchInv
  <2> QED BY <1>1, <1>4, <1>5, <2>1 DEF TouchInv, ReleaseOK
<1> QED BY <1>3, <1>6, <1>7, <1>8 DEF TouchInv

LEMMA TouchIsMsg ==
  ASSUME pushed \in Nat, NEW a \in {"DOWN", "MOVE", "UP", "CANCEL"}, NEW p \in Pointers
  PROVE  /\ Touch(a, p) \in TouchMsg /\ Touch(a, p) \in Event
         /\ Touch(a, p).act = a /\ Touch(a, p).ptr = p /\ Touch(a, p).dev = "touch"
<1>1. p \in Nat
  BY PointerAssumption DEF Pointers
<1>2. Touch(a, p) \in TouchMsg
  BY <1>1 DEF Touch, TouchMsg, Acts
<1> QED BY <1>2 DEF Touch, Event

\* A send of the handle: the flag follows the message.
LEMMA HandleSend ==
  ASSUME TouchInv, HandleOK', pc # "none", pc' # "none", UNCHANGED helper, stray' = stray,
         NEW a \in {"DOWN", "MOVE", "UP", "CANCEL"}, NEW p \in Pointers, inject_touch(a, p),
         a = "DOWN" <=> p \notin active,
         last' = "Err" => active' = active,
         last' # "Err" => active' = IF a = "DOWN" THEN active \cup {p}
                                    ELSE IF a = "MOVE" THEN active ELSE active \ {p}
  PROVE  TouchInv'
<1> DEFINE m == Touch(a, p)
<1>1. m \in TouchMsg /\ m \in Event /\ m.act = a /\ m.ptr = p /\ m.dev = "touch"
  BY TouchIsMsg DEF TouchInv, WriterOK
<1>2. SendEffect(m)
  BY <1>1, PushFacts DEF inject_touch, TouchInv
<1> HIDE DEF m
<1>3. /\ WriterOK' /\ direct' = direct /\ faults <= faults'
      /\ last' = "Err" => faults' = faults + 1
      /\ Exact' => (Exact /\ Sent(m))
  BY <1>2 DEF SendEffect
<1>4. /\ script' = script /\ gpc' = gpc /\ kind' = kind /\ pressed' = pressed
      /\ broken' = broken
  BY DEF helper
<1>5. gpc = "idle" /\ gpc' = "idle"
  BY <1>4 DEF TouchInv, HandleOK
<1>6. faults \in Nat /\ faults' \in Nat
  BY <1>3 DEF TouchInv, WriterOK
<1>7. HelperOK'
  BY <1>4, <1>5 DEF TouchInv, HelperOK
<1>8. /\ Ahead = Stream /\ Stream \in Seq(Event)
      /\ Ahead' = Stream' /\ Stream' \in Seq(Event)
  BY <1>3, <1>5, <1>7, StreamFacts, StreamFactsNext DEF TouchInv, StreamTypes
<1>9. ASSUME Exact', last' # "Err" PROVE Exact /\ Stream' = Append(Stream, m)
  BY <1>3, <1>9 DEF Sent
<1>10. ASSUME Exact', last' = "Err" PROVE Exact /\ Stream' = Stream
  BY <1>3, <1>10 DEF Sent
<1>11. \A q : Touching(Append(Stream, m), q) <=>
               (a = "DOWN" /\ p = q) \/ (Touching(Stream, q) /\ ~(a \in {"UP", "CANCEL"} /\ p = q))
  BY <1>1, <1>8, TouchingAppend DEF Lifts
<1>12. MirrorOK'
  <2> SUFFICES ASSUME Exact' PROVE (active \subseteq DownNow /\ DownNow \subseteq active \cup stray)'
    BY DEF MirrorOK
  <2>1. Exact /\ active \subseteq DownNow /\ DownNow \subseteq active \cup stray
    BY <1>9, <1>10 DEF TouchInv, MirrorOK
  <2>2. \A q : q \in DownNow' <=> (q \in Pointers /\ Touching(Stream', q))
    BY DEF DownNow, Touching
  <2>3. CASE last' = "Err"
    BY <1>10, <2>1, <2>2, <2>3, DownNowIs
  <2>4. CASE last' # "Err"
    BY <1>9, <1>11, <2>1, <2>2, <2>4, DownNowIs
  <2> QED BY <2>3, <2>4
<1>13. StreamOK'
  <2> SUFFICES ASSUME faults' = 0 PROVE WellFormed(Stream', stray)
    BY <1>8 DEF StreamOK
  <2>1. faults = 0 /\ last' # "Err" /\ Exact'
    BY <1>3, <1>6 DEF WriterOK, Exact
  <2>2. Exact /\ Stream' = Append(Stream, m) /\ WellFormed(Stream, stray)
    BY <1>8, <1>9, <2>1 DEF TouchInv, StreamOK
  <2>3. active \subseteq DownNow /\ DownNow \subseteq active \cup stray
    BY <2>2 DEF TouchInv, MirrorOK
  <2>4. /\ m.act = "DOWN" => (m.ptr \in stray \/ ~Touching(Stream, m.ptr))
        /\ m.act \notin {"DOWN", "REPORT"} => Touching(Stream, m.ptr)
    BY <1>1, <2>3, DownNowIs
  <2> QED BY <1>1, <1>8, <2>2, <2>4, WellFormedAppend
<1>14. ReleaseOK'
  <2> SUFFICES ASSUME Undoable'
               PROVE  /\ \A q \in Fingers : Touching(Stream', q) => q \in stray \cup active'
                      /\ HoldsAtMost(Stream', MayHold(kind))
    BY <1>4, <1>5, <1>8 DEF ReleaseOK, InUse
  <2>1. Undoable /\ Exact'
    BY <1>3, <1>4, UndoableBefore DEF TouchInv
  <2>2. /\ \A q \in Fingers : Touching(Stream, q) => q \in stray \cup active
        /\ HoldsAtMost(Stream, MayHold(kind))
    BY <1>8, <2>1 DEF TouchInv, ReleaseOK, InUse
  <2>3. CASE last' = "Err"
    BY <1>10, <2>1, <2>2, <2>3
  <2>4. CASE last' # "Err"
    <3>1. Stream' = Append(Stream, m)
      BY <1>9, <2>1, <2>4
    <3>2. HoldsAtMost(Stream', MayHold(kind))
      BY <1>1, <1>8, <2>2, <3>1, HoldsAppend
    <3>3. \A q \in Fingers : Touching(Stream', q) => q \in stray \cup active'
      BY <1>11, <2>2, <2>4, <3>1
    <3> QED BY <3>2, <3>3
  <2> QED BY <2>3, <2>4
<1> QED BY <1>3, <1>7, <1>12, <1>13, <1>14 DEF TouchInv

LEMMA MultitouchInv ==
  ASSUME TouchInv, Multitouch, gpc = "idle", UNCHANGED helper
  PROVE  TouchInv'
<1>1. /\ pc = "none" /\ pc' = "ready" /\ active' = {} /\ todo' = todo
      /\ stray' = stray \cup DownNow /\ UNCHANGED writer
  BY DEF Multitouch
<1>2. /\ wire' = wire /\ pending' = pending /\ accepted' = accepted /\ pushed' = pushed
      /\ faults' = faults /\ direct' = direct
  BY <1>1 DEF writer
<1>3. /\ script' = script /\ gpc' = gpc /\ kind' = kind /\ pressed' = pressed
      /\ broken' = broken
  BY DEF helper
<1>4. Stream' = Stream /\ Ahead' = Ahead /\ DownNow' = DownNow
  BY <1>2, <1>3 DEF Stream, Ahead, DownNow
<1>5. WriterOK'
  BY <1>2, <1>4 DEF TouchInv, WriterOK, FailedWritesAreEmpty
<1>6. HandleOK'
  BY <1>1, <1>3 DEF TouchInv, HandleOK, DownNow
<1>7. HelperOK'
  BY <1>2, <1>3 DEF TouchInv, HelperOK
<1>8. MirrorOK'
  BY <1>1, <1>4 DEF MirrorOK
<1>9. StreamOK'
  <2>1. stray \subseteq stray'
    BY <1>1
  <2> QED BY <1>2, <1>4, <2>1, WellFormedMore DEF TouchInv, StreamOK
<1>10. ReleaseOK'
  <2>1. Undoable' => Undoable
    BY <1>2, <1>3, <1>4 DEF Undoable, FailedWritesAreEmpty
  <2>2. InUse = {} /\ InUse' = {}
    BY <1>1 DEF InUse
  <2> QED BY <1>1, <1>3, <1>4, <2>1, <2>2 DEF TouchInv, ReleaseOK
<1> QED BY <1>5, <1>6, <1>7, <1>8, <1>9, <1>10 DEF TouchInv

LEMMA DropHandleInv ==
  ASSUME TouchInv, DropHandle, gpc = "idle", UNCHANGED helper
  PROVE  TouchInv'
<1>1. /\ pc = "ready" /\ pc' = "none" /\ active' = active /\ todo' = todo
      /\ stray' = stray \cup DownNow /\ UNCHANGED writer
  BY DEF DropHandle
<1>2. /\ wire' = wire /\ pending' = pending /\ accepted' = accepted /\ pushed' = pushed
      /\ faults' = faults /\ direct' = direct
  BY <1>1 DEF writer
<1>3. /\ script' = script /\ gpc' = gpc /\ kind' = kind /\ pressed' = pressed
      /\ broken' = broken
  BY DEF helper
<1>4. Stream' = Stream /\ Ahead' = Ahead /\ Ahead = Stream
  BY <1>2, <1>3, StreamFacts DEF Stream, Ahead, TouchInv, StreamTypes
<1>5. WriterOK'
  BY <1>2, <1>4 DEF TouchInv, WriterOK, FailedWritesAreEmpty
<1>6. HandleOK'
  BY <1>1, <1>3 DEF TouchInv, HandleOK, DownNow
<1>7. HelperOK'
  BY <1>2, <1>3 DEF TouchInv, HelperOK
<1>8. MirrorOK'
  BY <1>1 DEF MirrorOK
<1>9. StreamOK'
  <2>1. stray \subseteq stray'
    BY <1>1
  <2> QED BY <1>2, <1>4, <2>1, WellFormedMore DEF TouchInv, StreamOK
<1>10. ReleaseOK'
  <2>1. Undoable' => Undoable
    BY <1>2, <1>3, <1>4 DEF Undoable, FailedWritesAreEmpty
  <2>2. InUse = active /\ InUse' = {}
    BY <1>1 DEF InUse
  <2>3. \A q \in active : q \in Pointers
    BY DEF TouchInv, HandleOK
  <2>4. \A q \in Fingers : (Touching(Ahead, q) /\ q \in stray \cup active) => q \in stray'
    BY <1>1, <1>4, <2>3, DownNowIs
  <2> QED BY <1>3, <1>4, <2>1, <2>2, <2>4 DEF TouchInv, ReleaseOK
<1> QED BY <1>5, <1>6, <1>7, <1>8, <1>9, <1>10 DEF TouchInv

LEMMA HandleQuietInv ==
  ASSUME TouchInv, HandleOK', UNCHANGED <<writer, active, stray>>, UNCHANGED helper,
         pc # "none", pc' # "none"
  PROVE  TouchInv'
<1>1. /\ wire' = wire /\ pending' = pending /\ accepted' = accepted /\ pushed' = pushed
      /\ faults' = faults /\ direct' = direct
  BY DEF writer
<1>2. Stream' = Stream
  BY <1>1 DEF Stream
<1>3. WriterOK'
  BY <1>1, <1>2 DEF TouchInv, WriterOK, FailedWritesAreEmpty
<1>4. faults <= faults' /\ (Exact' => Exact)
  BY <1>1, <1>2 DEF TouchInv, WriterOK, Exact, FailedWritesAreEmpty
<1> QED BY <1>1, <1>2, <1>3, <1>4, SameStream

LEMMA PinchStepInv ==
  ASSUME TouchInv, PinchStep, UNCHANGED helper
  PROVE  TouchInv'
<1> DEFINE p == Head(todo)
<1>1. /\ pc = "pinch" /\ inject_touch("MOVE", p) /\ active' = active /\ stray' = stray
      /\ todo' = (IF Ok THEN Tail(todo) ELSE <<>>)
      /\ pc' = IF todo' = <<>> THEN "ready" ELSE pc
  BY DEF PinchStep
<1>2. todo \in Seq(Pointers) /\ todo # <<>> /\ Elems(todo) \subseteq active
  BY <1>1 DEF TouchInv, HandleOK
<1>3. /\ Len(todo) \in Nat \ {0} /\ p = todo[1] /\ p \in Pointers
      /\ Tail(todo) \in Seq(Pointers) /\ Len(Tail(todo)) = Len(todo) - 1
      /\ \A i \in 1..Len(Tail(todo)) : Tail(todo)[i] = todo[i + 1]
  BY <1>2, EmptySeq, HeadTailProperties
<1>4. p \in active
  BY <1>2, <1>3 DEF Elems
<1>5. Elems(Tail(todo)) \subseteq active
  <2>1. \A i \in 1..Len(Tail(todo)) : i + 1 \in 1..Len(todo)
    BY <1>3
  <2> QED BY <1>2, <1>3, <2>1 DEF Elems
<1>6. todo' \in Seq(Pointers) /\ (todo' # <<>> => Elems(todo') \subseteq active)
  BY <1>1, <1>3, <1>5
<1>7. HandleOK'
  BY <1>1, <1>6 DEF TouchInv, HandleOK, helper
<1> HIDE DEF p
<1> QED BY <1>1, <1>3, <1>4, <1>7, HandleSend

LEMMA HandleStepInv ==
  ASSUME TouchInv, HandleStep
  PROVE  TouchInv'
<1>1. gpc = "idle" /\ Next /\ UNCHANGED helper /\ gpc' = gpc
  BY DEF HandleStep, helper
<1>2. CASE Multitouch
  BY <1>1, <1>2, MultitouchInv
<1>3. CASE DropHandle
  BY <1>1, <1>3, DropHandleInv
<1>4. CASE BeginReleaseAll
  <2>1. HandleOK'
    BY <1>1, <1>4 DEF BeginReleaseAll, TouchInv, HandleOK
  <2> QED BY <1>1, <1>4, <2>1, HandleQuietInv DEF BeginReleaseAll
<1>5. CASE PinchStep
  BY <1>1, <1>5, PinchStepInv
<1>6. CASE FlushNow
  <2>1. pc = "ready" /\ W!ExplicitFlush /\ UNCHANGED <<active, pc, todo, handles, stray>>
    BY <1>6 DEF FlushNow
  <2>2. HandleOK'
    BY <1>1, <2>1 DEF TouchInv, HandleOK
  <2>3. /\ WriterOK' /\ direct' = direct /\ faults <= faults'
        /\ Exact' => (Exact /\ Stream' = Stream)
    BY <2>1, FlushFacts DEF TouchInv
  <2> QED BY <1>1, <2>1, <2>2, <2>3, SameStream
<1>7. ASSUME NEW p \in Pointers, Down(p) PROVE TouchInv'
  <2>1. /\ pc = "ready" /\ pc' = pc /\ p \notin active /\ inject_touch("DOWN", p)
        /\ todo' = todo /\ stray' = stray
        /\ active' = IF Ok THEN active \cup {p} ELSE active
    BY <1>7 DEF Down
  <2>2. HandleOK'
    BY <1>1, <2>1 DEF TouchInv, HandleOK
  <2> QED BY <1>1, <2>1, <2>2, HandleSend DEF Ok
<1>8. ASSUME NEW p \in Pointers, MoveTo(p) PROVE TouchInv'
  <2>1. /\ pc = "ready" /\ pc' = pc /\ p \in active /\ inject_touch("MOVE", p)
        /\ todo' = todo /\ stray' = stray /\ active' = active
    BY <1>8 DEF MoveTo
  <2>2. HandleOK'
    BY <1>1, <2>1 DEF TouchInv, HandleOK
  <2> QED BY <1>1, <2>1, <2>2, HandleSend
<1>9. ASSUME NEW p \in Pointers, NEW a \in {"UP", "CANCEL"}, Lift(p, a) PROVE TouchInv'
  <2>1. /\ pc = "ready" /\ pc' = pc /\ p \in active /\ inject_touch(a, p)
        /\ todo' = todo /\ stray' = stray
        /\ active' = IF Ok THEN active \ {p} ELSE active
    BY <1>9 DEF Lift
  <2>2. HandleOK'
    BY <1>1, <2>1 DEF TouchInv, HandleOK
  <2> QED BY <1>1, <2>1, <2>2, HandleSend DEF Ok
<1>10. ASSUME NEW p \in Pointers, ReleaseStep(p) PROVE TouchInv'
  <2>1. /\ pc = "release_all" /\ pc' \in {"release_all", "ready"} /\ p \in active
        /\ inject_touch("UP", p) /\ todo' = todo /\ stray' = stray
        /\ active' = IF Ok THEN active \ {p} ELSE active
    BY <1>10 DEF ReleaseStep
  <2>2. HandleOK'
    BY <1>1, <2>1 DEF TouchInv, HandleOK
  <2> QED BY <1>1, <2>1, <2>2, HandleSend DEF Ok
<1>11. ASSUME NEW p \in Pointers, NEW q \in Pointers, BeginPinch(p, q) PROVE TouchInv'
  <2>1. /\ pc = "ready" /\ p \in active /\ q \in active /\ pc' = "pinch" /\ todo' = <<p, q>>
        /\ UNCHANGED <<writer, active, stray>>
    BY <1>11 DEF BeginPinch
  <2>2. <<p, q>> \in Seq(Pointers) /\ <<p, q>> # <<>> /\ Elems(<<p, q>>) \subseteq {p, q}
    BY DEF Elems
  <2>3. HandleOK'
    BY <1>1, <2>1, <2>2 DEF TouchInv, HandleOK
  <2> QED BY <1>1, <2>1, <2>3, HandleQuietInv
<1> QED BY <1>1, <1>2, <1>3, <1>4, <1>5, <1>6, <1>7, <1>8, <1>9, <1>10, <1>11 DEF Next

-----------------------------------------------------------------------------
(* Steps of a helper.                                                      *)

\* Messages numbered from 1 on; what holds of all holds of the rest.
LEMMA TailFacts ==
  ASSUME NEW S, NEW c \in Seq(S), c # <<>>
  PROVE  /\ Head(c) \in S /\ Head(c) \in Elems(c) /\ Head(c) = c[1] /\ Len(c) \in Nat \ {0}
         /\ Tail(c) \in Seq(S) /\ Elems(Tail(c)) \subseteq Elems(c)
         /\ Len(Tail(c)) = Len(c) - 1
         /\ \A i \in 1..(Len(c) - 1) : Tail(c)[i] = c[i + 1]
<1>1. /\ Len(c) \in Nat \ {0} /\ Head(c) \in S /\ Head(c) = c[1]
      /\ Tail(c) \in Seq(S) /\ Len(Tail(c)) = Len(c) - 1
      /\ \A i \in 1..Len(Tail(c)) : Tail(c)[i] = c[i + 1]
  <2>1. Len(c) \in Nat \ {0} /\ Head(c) = c[1]
    BY EmptySeq
  <2> QED BY <2>1, HeadTailProperties
<1>2. 1 \in 1..Len(c) /\ \A i \in 1..Len(Tail(c)) : i + 1 \in 1..Len(c)
  BY <1>1
<1> QED BY <1>1, <1>2 DEF Elems

\* A message that goes from the script to the stream leaves what is ahead.
LEMMA Shift ==
  ASSUME NEW s \in Seq(Event), NEW c \in Seq(Event), c # <<>>, NEW k \in Event,
         Alike(Head(c), k)
  PROVE  /\ s \o c \in Seq(Event) /\ Append(s, k) \o Tail(c) \in Seq(Event)
         /\ AllAlike(s \o c, Append(s, k) \o Tail(c))
<1> DEFINE n == Len(s)
           l == Len(c)
           t == s \o c
           a == Append(s, k)
           r == Tail(c)
           u == a \o r
<1>1. /\ l \in Nat \ {0} /\ Head(c) = c[1] /\ r \in Seq(Event) /\ Len(r) = l - 1
      /\ \A i \in 1..(l - 1) : r[i] = c[i + 1]
  BY TailFacts
<1>2. /\ n \in Nat /\ t \in Seq(Event) /\ Len(t) = n + l
      /\ \A i \in 1..n : t[i] = s[i]
      /\ \A i \in 1..l : t[n + i] = c[i]
  BY ConcatFacts
<1>3. /\ a \in Seq(Event) /\ Len(a) = n + 1 /\ a[n + 1] = k
      /\ \A i \in 1..n : a[i] = s[i]
  BY AppendFacts
<1> HIDE DEF a, r, t, n, l
<1>4. /\ u \in Seq(Event) /\ Len(u) = Len(a) + Len(r)
      /\ \A i \in 1..Len(a) : u[i] = a[i]
      /\ \A i \in 1..Len(r) : u[Len(a) + i] = r[i]
  <2>1. a \in Seq(Event) /\ r \in Seq(Event)
    BY <1>1, <1>3
  <2> QED BY <2>1, ConcatFacts
<1> HIDE DEF u
<1>5. Len(u) = Len(t)
  BY <1>1, <1>2, <1>3, <1>4
<1>6. ASSUME NEW i \in 1..Len(t) PROVE Alike(t[i], u[i])
  <2>1. CASE i <= n
    <3>1. i \in 1..n /\ i \in 1..Len(a)
      BY <1>2, <1>3, <2>1
    <3>2. t[i] = s[i] /\ u[i] = s[i]
      BY <1>2, <1>3, <1>4, <3>1
    <3> QED BY <3>2 DEF Alike
  <2>2. CASE i = n + 1
    <3>1. i \in 1..Len(a) /\ 1 \in 1..l
      BY <1>1, <1>2, <1>3, <2>2
    <3>2. t[i] = Head(c) /\ u[i] = k
      BY <1>1, <1>2, <1>3, <1>4, <2>2, <3>1
    <3> QED BY <3>2
  <2>3. CASE i > n + 1
    <3>1. PICK h \in 1..(l - 1) : i = (n + 1) + h
      <4>1. i - (n + 1) \in 1..(l - 1) /\ i = (n + 1) + (i - (n + 1))
        BY <1>1, <1>2, <2>3
      <4> QED BY <4>1
    <3>2. h + 1 \in 1..l /\ i = n + (h + 1) /\ i = Len(a) + h /\ h \in 1..Len(r)
      BY <1>1, <1>2, <1>3, <3>1
    <3>3. t[i] = c[h + 1] /\ u[i] = r[h] /\ r[h] = c[h + 1]
      BY <1>1, <1>2, <1>4, <3>1, <3>2
    <3> QED BY <3>3 DEF Alike
  <2> QED BY <1>2, <2>1, <2>2, <2>3
<1> QED BY <1>2, <1>4, <1>5, <1>6 DEF AllAlike, t, u, a, r

LEMMA TagFacts ==
  ASSUME pushed \in Nat, NEW m \in ScriptMsg
  PROVE  G!Tag(m) \in TouchMsg /\ G!Tag(m) \in Event /\ Alike(m, G!Tag(m))
<1>1. /\ m.dev \in {"touch", "kbd"} /\ m.act \in Acts /\ m.ptr \in Nat
      /\ m.held \in SUBSET {"mod", "key"}
  BY DEF ScriptMsg, Fingers, G!Pointers
<1>2. G!Tag(m) \in TouchMsg
  BY <1>1 DEF G!Tag, TouchMsg
<1>3. Alike(m, G!Tag(m))
  BY DEF G!Tag, Alike
<1> QED BY <1>2, <1>3 DEF Event

LEMMA BeginInv ==
  ASSUME TouchInv, NEW g \in Kinds, G!Begin(g), pc = "none", UNCHANGED handle
  PROVE  TouchInv'
<1> DEFINE c == G!Script[g]
<1>1. /\ gpc = "idle" /\ gpc' = "run" /\ kind' = g /\ script' = c /\ pressed' = <<>>
      /\ broken' = broken
  BY DEF G!Begin
<1>2. /\ wire' = wire /\ pending' = pending /\ accepted' = accepted /\ pushed' = pushed
      /\ faults' = faults /\ direct' = direct
  BY DEF G!Begin, G!writer
<1>3. active' = active /\ pc' = pc /\ todo' = todo /\ stray' = stray
  BY DEF handle
<1>4. /\ Proper(c) /\ HoldsAtMost(c, MayHold(g))
      /\ g \in Keyboard => \E i \in 1..Len(c) : c[i].dev = "kbd"
      /\ g \notin Keyboard => TouchOnly(c)
      /\ g = "key_chord" => \A m \in Elems(c) : m.act = "REPORT"
  BY ScriptFacts
<1> HIDE DEF c
<1>5. c \in Seq(ScriptMsg) /\ c # <<>> /\ WellFormed(c, {}) /\ \A p : ~Touching(c, p)
  BY <1>4 DEF Proper
<1>6. Stream' = Stream /\ Ahead = Stream /\ Ahead' = Stream \o c
      /\ Stream \in Seq(Event) /\ c \in Seq(Event)
  <2>1. c \in Seq(Event)
    BY <1>5, SeqMonotonic DEF Event
  <2> QED BY <1>1, <1>2, <2>1, StreamFacts DEF Stream, Ahead, TouchInv, StreamTypes
<1>7. WriterOK'
  BY <1>2, <1>6 DEF TouchInv, WriterOK, FailedWritesAreEmpty
<1>8. HandleOK'
  BY <1>3 DEF TouchInv, HandleOK
<1>9. HelperOK'
  <2>1. <<>> \in Seq(Fingers)
    OBVIOUS
  <2>2. g \in {"tap_pointer", "multi_finger_tap"} => \A m \in Elems(c) : m.dev = "touch"
    BY <1>4 DEF Keyboard, TouchOnly
  <2> QED BY <1>1, <1>4, <1>5, <2>1, <2>2 DEF HelperOK
<1>10. MirrorOK'
  BY <1>3 DEF MirrorOK
<1>11. ASSUME Undoable
       PROVE  /\ \A p \in Fingers : Touching(Stream, p) => p \in stray
              /\ HoldsAtMost(Stream, MayHold(kind))
  BY <1>6, <1>11 DEF TouchInv, ReleaseOK, InUse
<1>12. StreamOK'
  <2> SUFFICES ASSUME faults = 0 PROVE WellFormed(Stream \o c, stray)
    BY <1>2, <1>3, <1>6 DEF StreamOK
  <2>1. WellFormed(Stream, stray)
    BY <1>6 DEF TouchInv, StreamOK
  <2>2. \A i \in 1..Len(c) : c[i].ptr \in Fingers
    <3>1. \A i \in 1..Len(c) : c[i] \in ScriptMsg
      BY <1>5, ElementOfSeq
    <3> QED BY <3>1 DEF ScriptMsg
  <2>3. \A i \in 1..Len(c) : Touching(Stream, c[i].ptr) => c[i].ptr \in stray
    BY <1>11, <2>2 DEF Undoable
  <2> QED BY <1>5, <1>6, <2>1, <2>3, WellFormedConcat
<1>13. ReleaseOK'
  <2> SUFFICES ASSUME Undoable'
               PROVE  /\ \A p \in Fingers : Touching(Stream \o c, p) => p \in stray
                      /\ HoldsAtMost(Stream \o c, MayHold(g))
                      /\ \A p \in Fingers : Touching(Stream, p) => p \in stray
    BY <1>1, <1>3, <1>6 DEF ReleaseOK, InUse
  <2>1. Undoable
    BY <1>1, <1>2, <1>6 DEF Undoable, FailedWritesAreEmpty
  <2>2. /\ \A p \in Fingers : Touching(Stream, p) => p \in stray
        /\ HoldsAtMost(Stream, MayHold(kind))
    BY <1>11, <2>1
  <2>3. \A p \in Fingers : Touching(Stream \o c, p) => p \in stray
    BY <1>5, <1>6, <2>2, TouchingConcat
  <2>4. g \notin Keyboard => HoldsAtMost(Stream, MayHold(g))
    <3>1. g \notin Keyboard => MayHold(kind) \subseteq MayHold(g)
      BY DEF Keyboard, MayHold
    <3> QED BY <2>2, <3>1 DEF HoldsAtMost
  <2>5. HoldsAtMost(Stream \o c, MayHold(g))
    BY <1>4, <1>6, <2>4, HoldsConcat
  <2> QED BY <2>2, <2>3, <2>5
<1> QED BY <1>7, <1>8, <1>9, <1>10, <1>12, <1>13 DEF TouchInv

\* One message of the script, or of the rollback, is sent.
LEMMA ScriptSend ==
  ASSUME TouchInv, gpc # "idle", G!Send(Head(script))
  PROVE  /\ script # <<>> /\ Head(script) \in ScriptMsg
         /\ SendEffect(G!Tag(Head(script)))
         /\ Alike(Head(script), G!Tag(Head(script)))
         /\ G!Tag(Head(script)) \in Event
<1>1. script # <<>> /\ script \in Seq(ScriptMsg) /\ pushed \in Nat
  BY DEF TouchInv, HelperOK, WriterOK
<1>2. Head(script) \in ScriptMsg
  BY <1>1, TailFacts
<1>3. G!Tag(Head(script)) \in TouchMsg
  BY <1>1, <1>2, TagFacts
<1>4. W!Push(G!Tag(Head(script)))
  BY SameWriter DEF G!Send
<1> QED BY <1>1, <1>2, <1>3, <1>4, TagFacts, PushFacts DEF TouchInv

\* A send that succeeds leaves what is ahead as it was.
LEMMA AheadKept ==
  ASSUME TouchInv, NEW k \in Event, script # <<>>, Alike(Head(script), k),
         Stream' = Append(Stream, k), script' = Tail(script)
  PROVE  /\ \A p : Touching(Ahead', p) <=> Touching(Ahead, p)
         /\ \A F : WellFormed(Ahead, F) => WellFormed(Ahead', F)
         /\ \A H : HoldsAtMost(Ahead, H) => HoldsAtMost(Ahead', H)
<1>1. Stream \in Seq(Event) /\ script \in Seq(Event)
  BY StreamFacts DEF TouchInv, StreamTypes
<1>2. Ahead' = Append(Stream, k) \o Tail(script)
  BY DEF Ahead
<1>3. /\ Ahead \in Seq(Event) /\ Ahead' \in Seq(Event) /\ AllAlike(Ahead, Ahead')
  BY <1>1, <1>2, Shift DEF Ahead
<1> QED BY <1>3, AlikeKeeps

LEMMA StepOkInv ==
  ASSUME TouchInv, gpc = "run", pc = "none", UNCHANGED handle, kind' = kind,
         G!Send(Head(script)), G!StepOk
  PROVE  TouchInv'
<1> DEFINE k == G!Tag(Head(script))
<1>1. /\ script # <<>> /\ Head(script) \in ScriptMsg /\ SendEffect(k)
      /\ Alike(Head(script), k) /\ k \in Event
  BY ScriptSend
<1> HIDE DEF k
<1>2. /\ last' # "Err" /\ script' = Tail(script) /\ broken' = broken
      /\ pressed' = (IF Head(script).act = "DOWN" THEN Append(pressed, Head(script).ptr)
                                                  ELSE pressed)
      /\ gpc' = (IF script' = <<>> THEN "idle" ELSE "run")
  BY DEF G!StepOk
<1>3. active' = active /\ pc' = pc /\ todo' = todo /\ stray' = stray
  BY DEF handle
<1>4. /\ WriterOK' /\ direct' = direct /\ faults <= faults'
      /\ Exact' => (Exact /\ Stream' = Append(Stream, k))
  BY <1>1, <1>2 DEF SendEffect, Sent
<1>5. script \in Seq(ScriptMsg) /\ pressed \in Seq(Fingers)
  BY DEF TouchInv, HelperOK
<1>6. script' \in Seq(ScriptMsg) /\ Elems(script') \subseteq Elems(script)
  BY <1>1, <1>2, <1>5, TailFacts
<1>7. Head(script).ptr \in Fingers
  BY <1>1 DEF ScriptMsg
<1>8. /\ pressed' \in Seq(Fingers) /\ Elems(pressed) \subseteq Elems(pressed')
      /\ Head(script).act = "DOWN" => Head(script).ptr \in Elems(pressed')
  <2>1. CASE Head(script).act # "DOWN"
    BY <1>2, <1>5, <2>1
  <2>2. CASE Head(script).act = "DOWN"
    <3> DEFINE x == Head(script).ptr
    <3>1. pressed' = Append(pressed, x) /\ x \in Fingers
      BY <1>2, <1>7, <2>2
    <3> HIDE DEF x
    <3>2. /\ pressed' \in Seq(Fingers) /\ Len(pressed) \in Nat
          /\ Len(pressed') = Len(pressed) + 1 /\ pressed'[Len(pressed) + 1] = x
          /\ \A i \in 1..Len(pressed) : pressed'[i] = pressed[i]
      BY <1>5, <3>1, AppendFacts
    <3>3. /\ Len(pressed) + 1 \in 1..Len(pressed')
          /\ \A i \in 1..Len(pressed) : i \in 1..Len(pressed')
      BY <3>2
    <3>4. x \in Elems(pressed')
      BY <3>2, <3>3 DEF Elems
    <3>5. Elems(pressed) \subseteq Elems(pressed')
      BY <3>2, <3>3 DEF Elems
    <3> QED BY <3>2, <3>4, <3>5 DEF x
  <2> QED BY <2>1, <2>2
<1>9. HandleOK'
  BY <1>3 DEF TouchInv, HandleOK
<1>10. HelperOK'
  BY <1>2, <1>6, <1>8 DEF TouchInv, HelperOK
<1>11. MirrorOK'
  BY <1>3 DEF MirrorOK
<1>12. ASSUME Exact'
       PROVE  /\ Stream' = Append(Stream, k)
              /\ \A p : Touching(Ahead', p) <=> Touching(Ahead, p)
              /\ \A F : WellFormed(Ahead, F) => WellFormed(Ahead', F)
              /\ \A H : HoldsAtMost(Ahead, H) => HoldsAtMost(Ahead', H)
  BY <1>1, <1>2, <1>4, <1>12, AheadKept
<1>13. faults \in Nat /\ faults' \in Nat
  BY <1>4 DEF TouchInv, WriterOK
<1>14. StreamOK'
  <2>1. faults' = 0 => faults = 0 /\ Exact'
    BY <1>4, <1>13 DEF WriterOK, Exact
  <2> QED BY <1>3, <1>12, <2>1 DEF TouchInv, StreamOK
<1>15. ReleaseOK'
  <2> SUFFICES ASSUME Undoable' PROVE
             /\ \A p \in Fingers : Touching(Ahead', p) => p \in stray
             /\ HoldsAtMost(Ahead', MayHold(kind))
             /\ \A p \in Fingers : Touching(Stream', p) => p \in stray \cup Elems(pressed')
    BY <1>3 DEF ReleaseOK, InUse
  <2>1. Undoable /\ Exact'
    BY <1>2, <1>4, UndoableBefore DEF TouchInv
  <2>2. /\ \A p \in Fingers : Touching(Ahead, p) => p \in stray
        /\ HoldsAtMost(Ahead, MayHold(kind))
        /\ \A p \in Fingers : Touching(Stream, p) => p \in stray \cup Elems(pressed)
    BY <2>1 DEF TouchInv, ReleaseOK, InUse
  <2>3. Stream \in Seq(Event)
    BY StreamFacts DEF TouchInv, StreamTypes
  <2>4. \A p : Touching(Stream', p) => (k.act = "DOWN" /\ k.ptr = p) \/ Touching(Stream, p)
    BY <1>1, <1>12, <2>1, <2>3, TouchingAppend
  <2>5. k.act = "DOWN" => k.ptr \in Elems(pressed')
    BY <1>1, <1>8 DEF Alike
  <2> QED BY <1>8, <1>12, <2>1, <2>2, <2>4, <2>5
<1> QED BY <1>4, <1>9, <1>10, <1>11, <1>14, <1>15 DEF TouchInv

LEMMA RollbackFacts ==
  ASSUME NEW g \in G!Guarded, pressed \in Seq(Fingers)
  PROVE  /\ G!Rollback(g) \in Seq(ScriptMsg)
         /\ \A m \in Elems(G!Rollback(g)) : Releases(m)
         /\ \A m \in Elems(G!Rollback(g)) : m.act # "DOWN"
         /\ g = "key_chord" => G!Rollback(g) = <<G!Report({})>>
         /\ g # "key_chord" =>
              /\ \A m \in Elems(G!Rollback(g)) : m.dev = "touch"
              /\ \A p \in Elems(pressed) : \E i \in 1..Len(G!Rollback(g)) : Lifts(G!Rollback(g)[i], p)
<1>1. CASE g = "key_chord"
  <2>1. G!Rollback(g) = <<G!Report({})>>
    BY <1>1 DEF G!Rollback
  <2>2. {} \in SUBSET {"mod", "key"}
    OBVIOUS
  <2>3. /\ G!Report({}) \in ScriptMsg /\ G!Report({}).act = "REPORT"
        /\ G!Report({}).dev = "kbd" /\ G!Report({}).held = {}
    BY <2>2, ReportFields
  <2>4. Elems(<<G!Report({})>>) = {G!Report({})}
    BY DEF Elems
  <2>5. <<G!Report({})>> \in Seq(ScriptMsg)
    BY <2>3
  <2> QED BY <1>1, <2>1, <2>3, <2>4, <2>5 DEF Releases
<1>2. CASE g # "key_chord"
  <2> DEFINE n == Len(pressed)
             c == G!Rollback(g)
  <2>1. n \in Nat /\ \A i \in 1..n : pressed[i] \in Fingers
    BY LenProperties, ElementOfSeq
  <2>2. c = [i \in 1..n |-> G!Touch("UP", G!Reverse(pressed)[i])]
    BY <1>2 DEF G!Rollback
  <2>3. \A i \in 1..n : G!Reverse(pressed)[i] = pressed[(n - i) + 1]
    BY <2>1 DEF G!Reverse
  <2>4. \A i \in 1..n : (n - i) + 1 \in 1..n /\ (n - ((n - i) + 1)) + 1 = i
    BY <2>1
  <2>5. \A i \in 1..n : G!Reverse(pressed)[i] \in Fingers
    BY <2>1, <2>3, <2>4
  <2>6. "UP" \in Acts
    BY DEF Acts
  <2>7. \A i \in 1..n : /\ G!Touch("UP", G!Reverse(pressed)[i]) \in ScriptMsg
                         /\ G!Touch("UP", G!Reverse(pressed)[i]).act = "UP"
                         /\ G!Touch("UP", G!Reverse(pressed)[i]).dev = "touch"
                         /\ G!Touch("UP", G!Reverse(pressed)[i]).ptr = pressed[(n - i) + 1]
    BY <2>3, <2>5, <2>6, TouchFields
  <2>8. c \in Seq(ScriptMsg) /\ Len(c) = n
    BY <2>1, <2>2, <2>7
  <2>9. \A i \in 1..n : c[i].act = "UP" /\ c[i].dev = "touch" /\ c[i].ptr = pressed[(n - i) + 1]
    BY <2>2, <2>7
  <2> HIDE DEF c, n
  <2>10. \A m \in Elems(c) : m.act = "UP" /\ m.dev = "touch"
    BY <2>8, <2>9 DEF Elems
  <2>11. ASSUME NEW p \in Elems(pressed) PROVE \E i \in 1..Len(c) : Lifts(c[i], p)
    <3>1. PICK j \in 1..n : p = pressed[j]
      BY DEF Elems, n
    <3>2. (n - j) + 1 \in 1..Len(c) /\ c[(n - j) + 1].ptr = p /\ c[(n - j) + 1].act = "UP"
      BY <2>4, <2>8, <2>9, <3>1
    <3> QED BY <3>2 DEF Lifts
  <2> QED BY <1>2, <2>8, <2>10, <2>11 DEF Releases, c
<1> QED BY <1>1, <1>2

LEMMA StepErrInv ==
  ASSUME TouchInv, gpc = "run", pc = "none", UNCHANGED handle, kind' = kind,
         G!Send(Head(script)), G!StepErr
  PROVE  TouchInv'
<1>1. SendEffect(G!Tag(Head(script)))
  BY ScriptSend
<1>2. /\ last' = "Err" /\ pressed' = pressed
      /\ script' = (IF kind \in G!Guarded THEN G!Rollback(kind) ELSE <<>>)
      /\ gpc' = (IF script' = <<>> THEN "idle" ELSE "rollback")
  BY DEF G!StepErr
<1>3. broken' = (broken \/ kind \notin G!Guarded)
  BY DEF G!StepErr
<1>4. (broken => broken') /\ (~broken' => kind \in G!Guarded)
  BY <1>3, Zenon
<1>5. active' = active /\ pc' = pc /\ todo' = todo /\ stray' = stray
  BY DEF handle
<1>6. /\ WriterOK' /\ direct' = direct /\ faults' = faults + 1
      /\ Exact' => (Exact /\ Stream' = Stream)
  BY <1>1, <1>2 DEF SendEffect, Sent
<1>7. faults \in Nat /\ pressed \in Seq(Fingers)
  BY DEF TouchInv, WriterOK, HelperOK
<1>8. HandleOK'
  BY <1>5 DEF TouchInv, HandleOK
<1>9. /\ script' \in Seq(ScriptMsg)
      /\ script' # <<>> => \A m \in Elems(script') : Releases(m)
  <2>1. CASE kind \in G!Guarded
    BY <1>2, <1>7, <2>1, RollbackFacts
  <2>2. CASE kind \notin G!Guarded
    BY <1>2, <2>2
  <2> QED BY <2>1, <2>2
<1>10. HelperOK'
  BY <1>2, <1>6, <1>7, <1>9 DEF TouchInv, HelperOK
<1>11. MirrorOK'
  BY <1>5 DEF MirrorOK
<1>12. StreamOK'
  BY <1>6, <1>7 DEF StreamOK
<1>13. ReleaseOK'
  <2> SUFFICES ASSUME Undoable'
               PROVE  /\ \A p \in Fingers : Touching(Ahead', p) => p \in stray
                      /\ HoldsAtMost(Ahead', MayHold(kind))
    BY <1>2, <1>5 DEF ReleaseOK, InUse
  <2>1. Undoable /\ Exact'
    <3>1. WriterOK /\ faults <= faults' /\ (Exact' => Exact)
      BY <1>6, <1>7 DEF TouchInv
    <3> QED BY <1>6, <1>4, <3>1, UndoableBefore
  <2>2. kind \in G!Guarded
    <3>1. ~(faults' = 0)
      BY <1>6, <1>7
    <3> QED BY <1>4, <3>1, Zenon DEF Undoable
  <2> DEFINE c == G!Rollback(kind)
  <2>3. script' = c /\ Stream' = Stream
    BY <1>2, <1>6, <2>1, <2>2
  <2>4. /\ c \in Seq(ScriptMsg) /\ \A m \in Elems(c) : m.act # "DOWN"
        /\ kind = "key_chord" => c = <<G!Report({})>>
        /\ kind # "key_chord" =>
              /\ \A m \in Elems(c) : m.dev = "touch"
              /\ \A p \in Elems(pressed) : \E i \in 1..Len(c) : Lifts(c[i], p)
    BY <1>7, <2>2, RollbackFacts
  <2> HIDE DEF c
  <2>5. Ahead' = Stream \o c
    BY <2>3 DEF Ahead
  <2>6. Stream \in Seq(Event) /\ script \in Seq(Event) /\ c \in Seq(Event)
    BY <2>4, StreamFacts, SeqMonotonic DEF TouchInv, StreamTypes, Event
  <2>7. /\ \A p \in Fingers : Touching(Stream \o script, p) => p \in stray
        /\ HoldsAtMost(Stream \o script, MayHold(kind))
        /\ \A p \in Fingers : Touching(Stream, p) => p \in stray \cup Elems(pressed)
    BY <2>1 DEF TouchInv, ReleaseOK, InUse, Ahead
  <2>8. \A p : ~Touching(c, p)
    BY <2>4 DEF Touching, DownAfter, Elems
  <2>9. CASE kind = "key_chord"
    <3>1. \A i \in 1..Len(script) : script[i].act = "REPORT"
      BY <2>9 DEF TouchInv, HelperOK, Elems
    <3>2. \A p : \A j \in 1..Len(script) : ~Lifts(script[j], p)
      BY <3>1 DEF Lifts
    <3>3. \A p : Touching(Stream, p) => Touching(Stream \o script, p)
      BY <2>6, <3>2, TouchingConcat
    <3>4. \A p \in Fingers : Touching(Ahead', p) => p \in stray
      BY <2>5, <2>6, <2>7, <2>8, <3>3, TouchingConcat
    <3>5. {} \in SUBSET {"mod", "key"}
      OBVIOUS
    <3>6. G!Report({}).dev = "kbd" /\ G!Report({}).held = {}
      BY <3>5, ReportFields
    <3>7. Len(c) = 1 /\ c[1] = G!Report({})
      BY <2>4, <2>9
    <3>8. \A i \in 1..Len(c) : i = 1
      BY <3>7
    <3>9. HoldsAtMost(c, MayHold(kind)) /\ 1 \in 1..Len(c) /\ c[1].dev = "kbd"
      BY <3>6, <3>7, <3>8 DEF HoldsAtMost
    <3>10. HoldsAtMost(Ahead', MayHold(kind))
      BY <2>5, <2>6, <3>9, HoldsConcat
    <3> QED BY <3>4, <3>10
  <2>10. CASE kind # "key_chord"
    <3>1. kind \in {"tap_pointer", "multi_finger_tap"}
      BY <2>2, <2>10 DEF G!Guarded
    <3>2. \A i \in 1..Len(script) : script[i].dev # "kbd"
      BY <3>1 DEF TouchInv, HelperOK, Elems
    <3>3. HoldsAtMost(Stream, MayHold(kind))
      BY <2>6, <2>7, <3>2, HoldsBefore
    <3>4. \A i \in 1..Len(c) : c[i].dev # "kbd"
      BY <2>4, <2>10 DEF Elems
    <3>5. HoldsAtMost(c, MayHold(kind))
      BY <3>4 DEF HoldsAtMost
    <3>6. HoldsAtMost(Ahead', MayHold(kind))
      BY <2>5, <2>6, <3>3, <3>5, HoldsConcat
    <3>7. ASSUME NEW p \in Fingers, Touching(Ahead', p) PROVE p \in stray
      <4>1. Touching(Stream, p) /\ \A j \in 1..Len(c) : ~Lifts(c[j], p)
        BY <2>5, <2>6, <2>8, <3>7, TouchingConcat
      <4>2. p \notin Elems(pressed)
        BY <2>4, <2>10, <4>1
      <4> QED BY <2>7, <4>1, <4>2
    <3> QED BY <3>6, <3>7
  <2> QED BY <2>9, <2>10
<1> QED BY <1>6, <1>8, <1>10, <1>11, <1>12, <1>13 DEF TouchInv

LEMMA RollbackStepInv ==
  ASSUME TouchInv, G!RollbackStep, pc = "none", UNCHANGED handle
  PROVE  TouchInv'
<1> DEFINE k == G!Tag(Head(script))
<1>1. /\ gpc = "rollback" /\ G!Send(Head(script)) /\ script' = Tail(script)
      /\ gpc' = (IF script' = <<>> THEN "idle" ELSE "rollback")
      /\ kind' = kind /\ pressed' = pressed /\ broken' = broken
  BY DEF G!RollbackStep
<1>2. /\ script # <<>> /\ SendEffect(k) /\ Alike(Head(script), k) /\ k \in Event
  BY <1>1, ScriptSend
<1> HIDE DEF k
<1>3. active' = active /\ pc' = pc /\ todo' = todo /\ stray' = stray
  BY DEF handle
<1>4. /\ WriterOK' /\ direct' = direct /\ faults <= faults'
      /\ last' = "Err" => faults' = faults + 1
      /\ Exact' => (Exact /\ Sent(k))
  BY <1>2 DEF SendEffect
<1>5. faults \in Nat /\ faults >= 1 /\ faults' \in Nat
  BY <1>1, <1>4 DEF TouchInv, WriterOK, HelperOK
<1>6. /\ script' \in Seq(ScriptMsg) /\ Elems(script') \subseteq Elems(script)
      /\ pressed \in Seq(Fingers) /\ \A m \in Elems(script) : Releases(m)
  BY <1>1, <1>2, TailFacts DEF TouchInv, HelperOK
<1>7. HandleOK'
  BY <1>3 DEF TouchInv, HandleOK
<1>8. HelperOK'
  BY <1>1, <1>4, <1>5, <1>6 DEF HelperOK
<1>9. MirrorOK'
  BY <1>3 DEF MirrorOK
<1>10. StreamOK'
  BY <1>4, <1>5 DEF StreamOK
<1>11. ReleaseOK'
  <2> SUFFICES ASSUME Undoable'
               PROVE  /\ \A p \in Fingers : Touching(Ahead', p) => p \in stray
                      /\ HoldsAtMost(Ahead', MayHold(kind))
    BY <1>1, <1>3 DEF ReleaseOK, InUse
  <2>1. Undoable /\ Exact'
    BY <1>1, <1>4, UndoableBefore DEF TouchInv
  <2>2. last' # "Err"
    BY <1>4, <1>5 DEF Undoable
  <2>3. Stream' = Append(Stream, k)
    BY <1>4, <2>1, <2>2 DEF Sent
  <2>4. /\ \A p \in Fingers : Touching(Ahead, p) => p \in stray
        /\ HoldsAtMost(Ahead, MayHold(kind))
    BY <2>1 DEF TouchInv, ReleaseOK, InUse
  <2> QED BY <1>1, <1>2, <2>3, <2>4, AheadKept
<1> QED BY <1>4, <1>7, <1>8, <1>9, <1>10, <1>11 DEF TouchInv

LEMMA HelperStepInv ==
  ASSUME TouchInv, HelperStep
  PROVE  TouchInv'
<1>1. pc = "none" /\ G!Next /\ UNCHANGED handle
  BY DEF HelperStep
<1>2. ASSUME NEW g \in Kinds, G!Begin(g) PROVE TouchInv'
  BY <1>1, <1>2, BeginInv
<1>3. CASE G!Step
  <2>1. gpc = "run" /\ G!Send(Head(script)) /\ (G!StepOk \/ G!StepErr) /\ kind' = kind
    BY <1>3 DEF G!Step
  <2>2. CASE G!StepOk
    BY <1>1, <2>1, <2>2, StepOkInv
  <2>3. CASE G!StepErr
    BY <1>1, <2>1, <2>3, StepErrInv
  <2> QED BY <2>1, <2>2, <2>3
<1>4. CASE G!RollbackStep
  BY <1>1, <1>4, RollbackStepInv
<1>5. CASE G!Flush
  <2>1. W!ExplicitFlush /\ UNCHANGED helper
    BY <1>5, SameWriter DEF G!Flush, helper
  <2>2. active' = active /\ pc' = pc /\ todo' = todo /\ stray' = stray /\ gpc' = gpc
    BY <1>1, <2>1 DEF handle, helper
  <2>3. HandleOK'
    BY <2>2 DEF TouchInv, HandleOK
  <2>4. /\ WriterOK' /\ direct' = direct /\ faults <= faults'
        /\ Exact' => (Exact /\ Stream' = Stream)
    BY <2>1, FlushFacts DEF TouchInv
  <2> QED BY <2>1, <2>2, <2>3, <2>4, SameStream
<1> QED BY <1>1, <1>2, <1>3, <1>4, <1>5 DEF G!Next

LEMMA StutterInv ==
  ASSUME TouchInv, UNCHANGED <<vars, helper>>
  PROVE  TouchInv'
<1>1. UNCHANGED <<writer, active, pc, todo, stray>> /\ UNCHANGED helper
  BY DEF vars
<1>2. /\ wire' = wire /\ pending' = pending /\ accepted' = accepted /\ pushed' = pushed
      /\ faults' = faults /\ direct' = direct
  BY <1>1 DEF writer
<1>3. gpc' = gpc
  BY <1>1 DEF helper
<1>4. Stream' = Stream
  BY <1>2 DEF Stream
<1>5. FailedWritesAreEmpty' <=> FailedWritesAreEmpty
  BY <1>2, <1>4 DEF FailedWritesAreEmpty
<1>6. WriterOK' /\ faults <= faults'
  BY <1>2, <1>5 DEF TouchInv, WriterOK
<1>7. Exact' => (Exact /\ Stream' = Stream)
  BY <1>2, <1>4, <1>5 DEF Exact
<1>8. HandleOK'
  BY <1>1, <1>3 DEF TouchInv, HandleOK
<1> QED BY <1>1, <1>2, <1>6, <1>7, <1>8, SameStream

LEMMA InitInv == TouchInit => TouchInv
<1> SUFFICES ASSUME TouchInit PROVE TouchInv
  OBVIOUS
<1>1. /\ wire = <<>> /\ pending = <<>> /\ accepted = <<>> /\ pushed = 0 /\ faults = 0
      /\ active = {} /\ pc = "none" /\ todo = <<>> /\ stray = {}
  BY DEF TouchInit, Init, W!Init
<1>2. gpc = "idle" /\ script = <<>> /\ pressed = <<>>
  BY DEF TouchInit, G!Init
<1>3. Stream = <<>> /\ Ahead = <<>> /\ FailedWritesAreEmpty
  BY <1>1, <1>2, ConcatEmptySeq DEF Stream, Ahead, FailedWritesAreEmpty
<1>4. WriterOK
  BY <1>1, <1>3 DEF WriterOK
<1>5. HandleOK
  BY <1>1, <1>2 DEF HandleOK
<1>6. HelperOK
  BY <1>1, <1>2 DEF HelperOK
<1>7. MirrorOK
  BY <1>1 DEF MirrorOK
<1>8. StreamOK
  BY <1>3 DEF StreamOK, WellFormed
<1>9. \A p : ~Touching(<<>>, p)
  BY DEF Touching, DownAfter
<1>10. HoldsAtMost(<<>>, MayHold(kind))
  BY DEF HoldsAtMost
<1>11. ReleaseOK
  BY <1>2, <1>3, <1>9, <1>10 DEF ReleaseOK
<1> QED BY <1>4, <1>5, <1>6, <1>7, <1>8, <1>11 DEF TouchInv

-----------------------------------------------------------------------------
(* The theorems.                                                           *)

(* The invariant holds throughout: the flags of a handle mirror the phone  *)
(* while the transport is exact, and what is sent, followed by what the    *)
(* running helper still has to send, is well formed and lets go of what it *)
(* presses.                                                                *)
THEOREM TouchInvariant == TouchSpec => []TouchInv
<1>1. TouchInit => TouchInv
  BY InitInv
<1>2. TouchInv /\ [TouchNext]_<<vars, helper>> => TouchInv'
  BY HandleStepInv, HelperStepInv, StutterInv DEF TouchNext
<1> QED BY <1>1, <1>2, PTL DEF TouchSpec

LEMMA SameView ==
  /\ G!Stream = Stream /\ (G!FailedWritesAreEmpty <=> FailedWritesAreEmpty)
  /\ \A s, p : G!IsDown(s, p) <=> Touching(s, p)
  /\ \A s, H : HoldsAtMost(s, H) => G!Held(s) \subseteq H
<1>1. G!Stream = Stream
  BY DEF G!Stream, Stream
<1>2. G!FailedWritesAreEmpty <=> FailedWritesAreEmpty
  BY <1>1 DEF G!FailedWritesAreEmpty, FailedWritesAreEmpty
<1>3. \A s, p : G!IsDown(s, p) <=> Touching(s, p)
  BY DEF G!IsDown, Touching, DownAfter, Lifts
<1>4. ASSUME NEW s, NEW H, HoldsAtMost(s, H) PROVE G!Held(s) \subseteq H
  BY <1>4 DEF G!Held, HoldsAtMost
<1> QED BY <1>1, <1>2, <1>3, <1>4

(* Between two calls nothing is half pressed: a composite helper of        *)
(* session.rs that returned with a working transport, or in direct mode    *)
(* with its guard's rollback after one send that failed and delivered      *)
(* nothing, has left no key down and no finger that a dropped handle had   *)
(* not, but for type_text's modifier; for any number of calls and handles. *)
THEOREM TouchNeverHalfPressed == TouchSpec => []NeverHalfPressed
<1>1. TouchInv => NeverHalfPressed
  <2> SUFFICES ASSUME TouchInv, pc = "none", gpc = "idle",
                      \/ faults = 0
                      \/ direct /\ faults <= 1 /\ G!FailedWritesAreEmpty /\ ~broken
               PROVE  G!AllReleasedBut(stray)
    BY DEF NeverHalfPressed, G!ReleasedBetweenCalls
  <2>1. Undoable
    BY SameView DEF Undoable
  <2>2. Ahead = Stream
    BY StreamFacts DEF TouchInv, StreamTypes
  <2>3. /\ \A p \in Fingers : Touching(Stream, p) => p \in stray
        /\ HoldsAtMost(Stream, MayHold(kind))
    BY <2>1, <2>2 DEF TouchInv, ReleaseOK, InUse
  <2>4. G!FingersDown \subseteq stray
    BY <2>3, SameView DEF G!FingersDown, Fingers
  <2>5. G!Held(G!Stream) \subseteq MayHold(kind)
    BY <2>3, SameView
  <2> QED BY <2>4, <2>5 DEF G!AllReleasedBut, MayHold
<1> QED BY <1>1, TouchInvariant, PTL

(* The flags of a MultitouchHandle mirror the phone, in direct mode or     *)
(* without faults and as long as a failed write delivers nothing: an       *)
(* active pointer is down on the phone, and what is down is active or was  *)
(* left by an earlier handle, also while pinch and release_all run and     *)
(* after their errors.                                                     *)
THEOREM TouchFlagsMirrorPhone == TouchSpec => []FlagsMirrorPhone
<1>1. TouchInv => FlagsMirrorPhone
  BY DEF TouchInv, MirrorOK, FlagsMirrorPhone, Exact
<1> QED BY <1>1, TouchInvariant, PTL

(* While no write fails the phone never gets a MOVE or a lift for a finger *)
(* that is not down, nor a press of one that is, fingers that a dropped    *)
(* handle left down apart: whatever handles and helpers do in between.     *)
THEOREM TouchWellFormedStream == TouchSpec => []WellFormedTouchStream
<1>1. TouchInv => WellFormedTouchStream
  <2> SUFFICES ASSUME TouchInv, faults = 0, NEW i \in 1..Len(Stream)
               PROVE  CASE Stream[i].act = "DOWN" ->
                             Stream[i].ptr \in stray \/ ~DownAfter(Stream, i - 1, Stream[i].ptr)
                        [] Stream[i].act = "REPORT" -> TRUE
                        [] OTHER -> DownAfter(Stream, i - 1, Stream[i].ptr)
    BY DEF WellFormedTouchStream
  <2>1. Stream \in Seq(Event) /\ script \in Seq(Event)
    BY StreamFacts DEF TouchInv, StreamTypes
  <2>2. /\ Len(Stream) \in Nat /\ Len(script) \in Nat /\ Len(Ahead) = Len(Stream) + Len(script)
        /\ \A j \in 1..Len(Stream) : Ahead[j] = Stream[j]
    BY <2>1, ConcatFacts DEF Ahead
  <2>3. i \in 1..Len(Ahead) /\ i - 1 \in Nat /\ \A j \in 1..(i - 1) : j \in 1..Len(Stream)
    BY <2>2
  <2>4. Fits(Ahead, i, stray) /\ Ahead[i] = Stream[i]
    BY <2>2, <2>3 DEF TouchInv, StreamOK, WellFormed
  <2>5. \A p : DownAfter(Ahead, i - 1, p) <=> DownAfter(Stream, i - 1, p)
    BY <2>2, <2>3, DownAfterSame
  <2> QED BY <2>4, <2>5 DEF Fits
<1> QED BY <1>1, TouchInvariant, PTL

(* A rollback undoes and never presses: what TouchGuard, release_all and   *)
(* KbdChordGuard send after a failure is a lift or an all-clear report.    *)
THEOREM TouchRollbackOnlyReleases == TouchSpec => RollbackOnlyReleases
<1>1. TouchInv /\ [TouchNext]_<<vars, helper>> => [G!OnlyReleases]_<<vars, helper>>
  <2> SUFFICES ASSUME TouchInv, TouchNext, gpc = "rollback", accepted' # accepted
               PROVE  Releases(accepted'[Len(accepted')])
    BY DEF G!OnlyReleases, Releases
  <2>1. ~HandleStep
    BY DEF HandleStep
  <2>2. G!Next
    BY <2>1 DEF TouchNext, HelperStep
  <2>3. G!Send(Head(script))
    BY <2>2 DEF G!Next, G!Begin, G!Step, G!RollbackStep, G!Flush
  <2> DEFINE k == G!Tag(Head(script))
  <2>4. /\ script # <<>> /\ SendEffect(k) /\ Alike(Head(script), k)
    BY <2>3, ScriptSend
  <2>5. k \in TouchMsg /\ accepted \in Seq(TouchMsg)
    BY <2>3, ScriptSend, TagFacts DEF TouchInv, WriterOK
  <2> HIDE DEF k
  <2>6. accepted' = Append(accepted, k)
    BY <2>4 DEF SendEffect
  <2>7. accepted'[Len(accepted')] = k
    BY <2>5, <2>6, AppendFacts
  <2>8. Head(script) \in Elems(script)
    BY <2>4, TailFacts DEF TouchInv, HelperOK
  <2>9. Releases(Head(script))
    BY <2>8 DEF TouchInv, HelperOK
  <2> QED BY <2>4, <2>7, <2>9 DEF Releases, Alike
<1> QED BY <1>1, TouchInvariant, PTL DEF TouchSpec, RollbackOnlyReleases
=============================================================================
