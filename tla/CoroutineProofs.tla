-------------------------- MODULE CoroutineProofs ---------------------------
(***************************************************************************)
(* Proofs about the coroutine types: CoroutineSafe holds for any set of    *)
(* coroutines and of variables that own them.                              *)
(***************************************************************************)
EXTENDS CoroutineParts, Naturals, Sequences, TLAPS

\* Facts about sequences.

\* The empty sequence has no elements.
LEMMA EmptySeq ==
    ASSUME NEW S
    PROVE  << >> \in Seq(S) /\ Len(<< >>) = 0 /\ \A s \in Seq(S) : s = << >> <=> Len(s) = 0
  OBVIOUS

\* A sequence is a function on 1..Len(s).
LEMMA LenProperties ==
    ASSUME NEW S, NEW s \in Seq(S)
    PROVE  Len(s) \in Nat /\ DOMAIN s = 1..Len(s) /\ s \in [1..Len(s) -> S] /\ \A i \in 1..Len(s) : s[i] \in S
  OBVIOUS

\* Append() keeps what was there and adds one element.
LEMMA AppendProperties ==
    ASSUME NEW S, NEW s \in Seq(S), NEW e \in S
    PROVE  /\ Append(s, e) \in Seq(S) /\ Append(s, e) # << >> /\ Len(Append(s, e)) = Len(s) + 1
           /\ Append(s, e)[Len(s) + 1] = e /\ \A i \in 1..Len(s) : Append(s, e)[i] = s[i]
  OBVIOUS

-----------------------------------------------------------------------------
\* Coroutine.  The inductive invariant is stated for any frames fr, variables sl, running
\* coroutine ru, ready queue rd and outcomes se, since the end of a body and an assignment change
\* them in two moves: first frames are destroyed, then the rest happens.

\* The kinds of coroutines exclude each other.
CoroutineConstants ==
    /\ None \notin C!Frames
    /\ Roots \intersect C!Called = {}
    /\ Tasks \intersect Async = {}
    /\ (Tasks \union Async) \intersect Sync = {}

FrameStates == {"none", "created", "running", "suspended", "awaiting", "yielded", "done", "destroyed"}
Promises  == [st : FrameStates, cont : C!Frames \union {None}, value : Nat, result : {"none", "value", "exception"}]
Objects   == [in : C!Frames \union {None}, handle : C!Called \union {None}, param : BOOLEAN]
Outcomes  == [how : {"none", "value", "exception", "end", "item"}, item : Nat]

Living(fr, f) == fr[f].st \notin {"none", "destroyed"}
Active(fr, f) == fr[f].st \in {"running", "suspended", "awaiting"}

CorType(fr, sl, ru, rd, se) ==
    /\ fr \in [C!Frames -> Promises] /\ sl \in [Slots -> Objects]
    /\ ru \in C!Frames \union {None} /\ rd \subseteq C!Frames
    /\ se \in [C!Called -> Seq(Outcomes)]

\* A living frame has one owner, an owner lives in a living frame.
Owned(fr, sl) ==
    /\ \A x \in Slots : sl[x].in = None => sl[x].handle = None
    /\ \A x \in Slots : sl[x].in # None => Living(fr, sl[x].in)
    /\ \A x \in Slots : sl[x].handle # None => Living(fr, sl[x].handle)
    /\ \A f \in C!Called : Living(fr, f) => \E x \in Slots : sl[x].handle = f
    /\ \A x, y \in Slots : sl[x].handle = sl[y].handle /\ sl[x].handle # None => x = y

\* The coroutines on their way are chains: each but a root has one awaiting it, which owns it.
Chained(fr, sl, ru, rd) ==
    /\ \A f \in C!Frames : fr[f].st = "running" <=> ru = f
    /\ \A f \in C!Frames : fr[f].st = "suspended" <=> f \in rd
    /\ \A f \in C!Called : Active(fr, f) =>
         /\ f \in Tasks \union Async
         /\ fr[f].cont \in C!Frames /\ fr[fr[f].cont].st = "awaiting"
         /\ \A x \in Slots : sl[x].handle = f => sl[x].in = fr[f].cont
    /\ \A f, g \in C!Called : Active(fr, f) /\ Active(fr, g) /\ fr[f].cont = fr[g].cont => f = g
    /\ \A f \in Roots : fr[f].cont = None /\ (Active(fr, f) \/ fr[f].st = "done")

Final(f, r) == C!Ended(IF f \in Async /\ r = "value" THEN "end" ELSE r)

\* Whoever awaited was told what happened.
Told(fr, se) ==
    \A f \in Tasks \union Async :
        /\ fr[f].st \notin {"done", "destroyed"} => fr[f].result = "none"
        /\ fr[f].st = "done" => se[f] # << >> /\ se[f][Len(se[f])] = Final(f, fr[f].result)
        /\ f \in Async => /\ Len(se[f]) >= fr[f].value
                          /\ fr[f].st \notin {"done", "destroyed"} => Len(se[f]) = fr[f].value
                          /\ \A i \in 1..fr[f].value : se[f][i] = C!Item(i)

Sound(fr, sl, ru, rd, se) ==
    CorType(fr, sl, ru, rd, se) /\ Owned(fr, sl) /\ Chained(fr, sl, ru, rd) /\ Told(fr, se)

CoroutineInv == Sound(frame, slot, running, ready, seen)

\* Only the roots exist.
LEMMA CoroutineInit == ASSUME CoroutineConstants, C!Init PROVE CoroutineInv
<1>1. C!Frames = Roots \union C!Called /\ Tasks \union Async \subseteq C!Called /\ Roots \subseteq C!Frames
  BY DEF C!Frames, C!Called
<1>2. CorType(frame, slot, running, ready, seen)
  BY <1>1, EmptySeq DEF C!Init, CorType, Promises, Objects, Outcomes, FrameStates, C!Undeclared
<1>3. Owned(frame, slot)
  BY <1>1 DEF C!Init, Owned, Living, C!Undeclared, CoroutineConstants
<1>4. Chained(frame, slot, running, ready)
  BY <1>1 DEF C!Init, Chained, Active, CoroutineConstants
<1>5. Told(frame, seen)
  <2>1. \A f \in Tasks \union Async : frame[f].st = "none" /\ frame[f].result = "none" /\ frame[f].value = 0 /\ seen[f] = << >>
    BY <1>1 DEF C!Init, CoroutineConstants
  <2>2. Len(<< >>) = 0 /\ 1..0 = {}
    BY EmptySeq
  <2> QED BY <2>1, <2>2 DEF Told
<1> QED BY <1>2, <1>3, <1>4, <1>5 DEF CoroutineInv, Sound

\* The set D of frames goes with the frames S: it holds what its variables own, and no more.
Goes(fr, sl, S, D) ==
    /\ S \subseteq D /\ D \subseteq C!Called
    /\ \A d \in D : ~Active(fr, d)
    /\ \A x \in Slots : sl[x].in \in D /\ sl[x].handle # None => sl[x].handle \in D
    /\ \A d \in D : d \in S \/ \E x \in Slots : sl[x].in \in D /\ sl[x].handle = d

\* What a frame that is not on its way owns, directly or not, is not on its way either.
LEMMA DoomedGoes ==
    ASSUME CoroutineConstants, CoroutineInv, NEW S \in SUBSET C!Called, \A f \in S : ~Active(frame, f)
    PROVE  Goes(frame, slot, S, C!Doomed(S))
<1> DEFINE Held(X) == {slot[x].handle : x \in {y \in Slots : slot[y].in \in X}} \ {None}
           D == C!Doomed(S)
<1>1. C!Called \subseteq C!Frames /\ slot \in [Slots -> Objects]
  BY DEF C!Frames, CoroutineInv, Sound, CorType
<1>2. \A X : Held(X) \subseteq C!Called
  BY <1>1 DEF Objects
<1>3. D = {f \in C!Frames : \A X \in SUBSET C!Frames : S \subseteq X /\ Held(X) \subseteq X => f \in X}
  BY DEF C!Doomed
<1>4. D \subseteq C!Frames /\ S \subseteq D
  BY <1>1, <1>3
<1>5. ASSUME NEW X \in SUBSET C!Frames, S \subseteq X, Held(X) \subseteq X PROVE D \subseteq X
  BY <1>3, <1>5
<1>6. Held(D) \subseteq D
  <2>1. ASSUME NEW d \in Held(D), NEW X \in SUBSET C!Frames, S \subseteq X, Held(X) \subseteq X PROVE d \in X
    <3>1. D \subseteq X
      BY <1>5, <2>1
    <3> QED BY <2>1, <3>1
  <2>2. Held(D) \subseteq C!Frames
    BY <1>1, <1>2
  <2> QED BY <1>3, <2>1, <2>2
<1>7. D \subseteq S \union Held(D)
  <2> DEFINE X == S \union Held(D)
  <2>1. X \in SUBSET C!Frames /\ X \subseteq D
    BY <1>1, <1>2, <1>4, <1>6
  <2>2. Held(X) \subseteq X
    BY <2>1
  <2> QED BY <1>5, <2>1, <2>2
<1>8. \A d \in D : ~Active(frame, d)
  <2> DEFINE X == {d \in D : ~Active(frame, d)}
  <2>1. X \in SUBSET C!Frames /\ S \subseteq X
    BY <1>4
  <2>2. ASSUME NEW h \in Held(X) PROVE h \in X
    <3>1. PICK x \in Slots : slot[x].in \in X /\ slot[x].handle = h
      BY <2>2
    <3>2. h \in D /\ h \in C!Called
      BY <1>2, <1>6, <2>2
    <3>3. ASSUME Active(frame, h) PROVE FALSE
      <4>1. slot[x].in = frame[h].cont /\ frame[frame[h].cont].st = "awaiting"
        BY <3>1, <3>2, <3>3 DEF CoroutineInv, Sound, Chained
      <4> QED BY <3>1, <4>1 DEF Active
    <3> QED BY <3>2, <3>3
  <2>3. D \subseteq X
    BY <1>5, <2>1, <2>2
  <2> QED BY <2>3
<1>9. \A x \in Slots : slot[x].in \in D /\ slot[x].handle # None => slot[x].handle \in D
  BY <1>6
<1>10. \A d \in D : d \in S \/ \E x \in Slots : slot[x].in \in D /\ slot[x].handle = d
  BY <1>7
<1>11. D \subseteq C!Called
  BY <1>2, <1>7
<1> QED BY <1>4, <1>8, <1>9, <1>10, <1>11 DEF Goes

\* The frames D are destroyed with the variables in them and the variables X that owned them.
LEMMA DisposeKeeps ==
    ASSUME CoroutineConstants, CoroutineInv, NEW X \in SUBSET Slots, NEW D, NEW fr, NEW sl,
           Goes(frame, slot, {slot[x].handle : x \in X} \ {None}, D),
           fr = C!Destroyed(frame, D), sl \in [Slots -> Objects],
           \A x \in Slots : sl[x] = IF x \in X \/ slot[x].in \in D THEN C!Undeclared ELSE slot[x]
    PROVE  Sound(fr, sl, running, ready, seen)
<1>1. /\ C!Frames = Roots \union C!Called /\ Tasks \union Async \subseteq C!Called /\ None \notin C!Frames
      /\ Roots \intersect C!Called = {}
  BY DEF C!Frames, C!Called, CoroutineConstants
<1>2. CorType(frame, slot, running, ready, seen) /\ Owned(frame, slot) /\ Chained(frame, slot, running, ready) /\ Told(frame, seen)
  BY DEF CoroutineInv, Sound
<1>3. frame \in [C!Frames -> Promises] /\ slot \in [Slots -> Objects]
  BY <1>2 DEF CorType
<1>4. D \subseteq C!Called /\ \A d \in D : ~Active(frame, d)
  BY DEF Goes
<1>5. \A q \in Promises : [q EXCEPT !.st = "destroyed"] \in Promises
  BY DEF Promises, FrameStates
<1>6. /\ \A f \in C!Frames : f \in D => fr[f] = [frame[f] EXCEPT !.st = "destroyed"]
      /\ \A f \in C!Frames : f \notin D => fr[f] = frame[f]
  BY DEF C!Destroyed
<1>7. /\ \A f \in C!Frames : f \in D => /\ fr[f].st = "destroyed" /\ fr[f].cont = frame[f].cont
                                         /\ fr[f].value = frame[f].value
      /\ fr \in [C!Frames -> Promises]
  BY <1>3, <1>5, <1>6 DEF Promises, C!Destroyed
<1>8. CorType(fr, sl, running, ready, seen)
  BY <1>2, <1>7 DEF CorType
<1>9. Owned(fr, sl)
  <2>1. ASSUME NEW x \in Slots, sl[x].in # None PROVE Living(fr, sl[x].in)
    <3>1. x \notin X /\ slot[x].in \notin D /\ sl[x] = slot[x]
      BY <2>1 DEF C!Undeclared
    <3>2. slot[x].in \in C!Frames /\ Living(frame, slot[x].in)
      BY <1>2, <1>3, <2>1, <3>1 DEF Owned, Objects
    <3> QED BY <1>6, <3>1, <3>2 DEF Living
  <2>2. ASSUME NEW x \in Slots, sl[x].handle # None PROVE Living(fr, sl[x].handle)
    <3>1. x \notin X /\ slot[x].in \notin D /\ sl[x] = slot[x]
      BY <2>2 DEF C!Undeclared
    <3>2. slot[x].handle \in C!Frames /\ Living(frame, slot[x].handle)
      BY <1>1, <1>2, <1>3, <2>2, <3>1 DEF Owned, Objects
    <3>3. \A y \in Slots : slot[y].handle = slot[x].handle => y = x
      BY <1>2, <2>2, <3>1 DEF Owned
    <3>4. slot[x].handle \notin D
      BY <3>1, <3>3 DEF Goes
    <3> QED BY <1>6, <3>1, <3>2, <3>4 DEF Living
  <2>3. ASSUME NEW f \in C!Called, Living(fr, f) PROVE \E x \in Slots : sl[x].handle = f
    <3>1. f \notin D /\ fr[f] = frame[f]
      BY <1>1, <1>6, <1>7, <2>3 DEF Living
    <3>2. PICK x \in Slots : slot[x].handle = f
      BY <1>2, <2>3, <3>1 DEF Owned, Living
    <3>3. x \notin X /\ slot[x].in \notin D
      BY <1>1, <3>1, <3>2 DEF Goes
    <3> QED BY <3>2, <3>3
  <2>4. \A x, y \in Slots : sl[x].handle = sl[y].handle /\ sl[x].handle # None => x = y
    BY <1>2 DEF Owned, C!Undeclared
  <2>5. \A x \in Slots : sl[x].in = None => sl[x].handle = None
    BY <1>2 DEF Owned, C!Undeclared
  <2> QED BY <2>1, <2>2, <2>3, <2>4, <2>5 DEF Owned
<1>10. \A f \in C!Frames : Active(fr, f) => f \notin D /\ fr[f] = frame[f] /\ Active(frame, f)
  BY <1>6, <1>7 DEF Active
<1>11. \A f \in C!Frames : Active(frame, f) => f \notin D /\ fr[f] = frame[f]
  BY <1>4, <1>6
<1>12. Chained(fr, sl, running, ready)
  <2>1. \A f \in C!Frames : fr[f].st = "running" <=> running = f
    <3>1. \A f \in C!Frames : frame[f].st = "running" <=> running = f
      BY <1>2 DEF Chained
    <3> QED BY <1>10, <1>11, <3>1 DEF Active
  <2>2. \A f \in C!Frames : fr[f].st = "suspended" <=> f \in ready
    BY <1>2, <1>10, <1>11, ZenonT(30) DEF Chained, Active
  <2>3. ASSUME NEW f \in C!Called, Active(fr, f)
        PROVE  /\ f \in Tasks \union Async
               /\ fr[f].cont \in C!Frames /\ fr[fr[f].cont].st = "awaiting"
               /\ \A x \in Slots : sl[x].handle = f => sl[x].in = fr[f].cont
    <3>1. fr[f] = frame[f] /\ Active(frame, f)
      BY <1>1, <1>10, <2>3
    <3>2. /\ f \in Tasks \union Async
          /\ frame[f].cont \in C!Frames /\ frame[frame[f].cont].st = "awaiting"
          /\ \A x \in Slots : slot[x].handle = f => slot[x].in = frame[f].cont
      BY <1>2, <3>1 DEF Chained
    <3>3. fr[frame[f].cont] = frame[frame[f].cont]
      BY <1>11, <3>2 DEF Active
    <3>4. \A x \in Slots : sl[x].handle = f => slot[x].handle = f /\ sl[x].in = slot[x].in
      BY <1>1 DEF C!Undeclared
    <3> QED BY <3>1, <3>2, <3>3, <3>4
  <2>4. \A f, g \in C!Called : Active(fr, f) /\ Active(fr, g) /\ fr[f].cont = fr[g].cont => f = g
    BY <1>1, <1>2, <1>10 DEF Chained
  <2>5. \A f \in Roots : fr[f].cont = None /\ (Active(fr, f) \/ fr[f].st = "done")
    <3>1. \A f \in Roots : f \in C!Frames /\ f \notin D
      BY <1>1, <1>4
    <3> QED BY <1>2, <1>6, <3>1 DEF Chained, Active
  <2> QED BY <2>1, <2>2, <2>3, <2>4, <2>5 DEF Chained
<1>13. Told(fr, seen)
  <2> SUFFICES ASSUME NEW f \in Tasks \union Async
               PROVE  /\ fr[f].st \notin {"done", "destroyed"} => fr[f].result = "none"
                      /\ fr[f].st = "done" => seen[f] # << >> /\ seen[f][Len(seen[f])] = Final(f, fr[f].result)
                      /\ f \in Async => /\ Len(seen[f]) >= fr[f].value
                                        /\ fr[f].st \notin {"done", "destroyed"} => Len(seen[f]) = fr[f].value
                                        /\ \A i \in 1..fr[f].value : seen[f][i] = C!Item(i)
    BY DEF Told
  <2>1. CASE f \in D
    BY <1>1, <1>2, <1>7, <2>1 DEF Told
  <2>2. CASE f \notin D
    BY <1>1, <1>2, <1>6, <2>2 DEF Told
  <2> QED BY <2>1, <2>2
<1> QED BY <1>8, <1>9, <1>12, <1>13 DEF Sound

\* What an awaiting coroutine is given when the coroutine f leaves it the promise p.
Given(fr, f, p, o) ==
    IF p.st = "done" THEN o = Final(f, p.result) /\ p.value = fr[f].value
                     ELSE o = C!Item(p.value) /\ p.value = fr[f].value + 1 /\ p.result = fr[f].result

\* The running coroutine yields or ends, and the one that awaits it, if any, goes on.
LEMMA LeaveKeeps ==
    ASSUME CoroutineConstants, NEW fr, NEW sl, NEW ru, NEW rd, NEW se, Sound(fr, sl, ru, rd, se), ru # None,
           NEW p \in Promises, p.cont = fr[ru].cont, p.st = "done" \/ (p.st = "yielded" /\ ru \in Async),
           NEW o \in Outcomes, ru \in Tasks \union Async => Given(fr, ru, p, o),
           NEW fr1 \in [C!Frames -> Promises], fr1[ru] = p, \A g \in C!Frames : g # ru => fr1[g] = fr[g],
           NEW fr2, fr2 = IF p.cont = None THEN fr1 ELSE [fr1 EXCEPT ![p.cont].st = "running"],
           NEW se2, se2 = IF p.cont = None THEN se ELSE [se EXCEPT ![ru] = Append(@, o)]
    PROVE  Sound(fr2, sl, p.cont, rd, se2)
<1>1. /\ C!Frames = Roots \union C!Called /\ Tasks \union Async \subseteq C!Called /\ None \notin C!Frames
      /\ Roots \intersect C!Called = {} /\ Tasks \intersect Async = {}
  BY DEF C!Frames, C!Called, CoroutineConstants
<1>2. CorType(fr, sl, ru, rd, se) /\ Owned(fr, sl) /\ Chained(fr, sl, ru, rd) /\ Told(fr, se)
  BY DEF Sound
<1>3. fr \in [C!Frames -> Promises] /\ sl \in [Slots -> Objects] /\ ru \in C!Frames /\ fr[ru].st = "running"
  BY <1>2 DEF CorType, Chained
<1> DEFINE c == p.cont
<1>4. \A q \in Promises : [q EXCEPT !.st = "running"] \in Promises
  BY DEF Promises, FrameStates
<1>5. CASE ru \in Roots
  <2>1. c = None /\ p.st = "done" /\ fr2 = fr1 /\ se2 = se
    BY <1>1, <1>2, <1>5 DEF Chained, C!Called
  <2>2. fr2 \in [C!Frames -> Promises] /\ fr2[ru] = p /\ \A g \in C!Frames : g # ru => fr2[g] = fr[g]
    BY <1>3, <2>1
  <2>3. CorType(fr2, sl, c, rd, se2)
    BY <1>2, <2>1, <2>2 DEF CorType
  <2>4. \A g \in C!Frames : Living(fr2, g) <=> Living(fr, g)
    BY <1>3, <2>1, <2>2 DEF Living
  <2>5. Owned(fr2, sl)
    BY <1>1, <1>2, <1>3, <2>4, ZenonT(30) DEF Owned, Objects
  <2>6. \A g \in C!Called : fr2[g] = fr[g]
    BY <1>1, <1>5, <2>2
  <2>7. Chained(fr2, sl, c, rd)
    <3>1. \A g \in C!Frames : (fr2[g].st = "running" <=> c = g) /\ (fr2[g].st = "suspended" <=> g \in rd)
      BY <1>1, <1>2, <1>3, <2>1, <2>2 DEF Chained
    <3>2. ASSUME NEW g \in C!Called, Active(fr2, g)
          PROVE  /\ g \in Tasks \union Async
                 /\ fr2[g].cont \in C!Frames /\ fr2[fr2[g].cont].st = "awaiting"
                 /\ \A x \in Slots : sl[x].handle = g => sl[x].in = fr2[g].cont
      <4>1. fr2[g] = fr[g] /\ Active(fr, g)
        BY <2>6, <3>2 DEF Active
      <4>2. fr[g].cont \in C!Frames /\ fr[fr[g].cont].st = "awaiting" /\ fr[g].cont # ru
        BY <1>2, <1>3, <4>1 DEF Chained
      <4>3. g \in Tasks \union Async /\ \A x \in Slots : sl[x].handle = g => sl[x].in = fr[g].cont
        BY <1>2, <4>1 DEF Chained
      <4>4. fr2[fr[g].cont] = fr[fr[g].cont]
        BY <2>2, <4>2
      <4> QED BY <4>1, <4>2, <4>3, <4>4
    <3>3. \A g, h \in C!Called : Active(fr2, g) /\ Active(fr2, h) /\ fr2[g].cont = fr2[h].cont => g = h
      <4>1. \A g \in C!Called : Active(fr2, g) <=> Active(fr, g)
        BY <2>6 DEF Active
      <4> QED BY <1>2, <2>6, <4>1 DEF Chained
    <3>4. \A g \in Roots : fr2[g].cont = None /\ (Active(fr2, g) \/ fr2[g].st = "done")
      BY <1>1, <1>2, <2>1, <2>2 DEF Chained, Active
    <3> QED BY <3>1, <3>2, <3>3, <3>4 DEF Chained
  <2>8. Told(fr2, se2)
    BY <1>1, <1>2, <2>1, <2>6 DEF Told
  <2> QED BY <2>3, <2>5, <2>7, <2>8 DEF Sound
<1>6. CASE ru \in C!Called
  <2>1. /\ ru \in Tasks \union Async /\ c \in C!Frames /\ fr[c].st = "awaiting" /\ c # ru /\ c # None
        /\ \A g \in C!Called : Active(fr, g) /\ fr[g].cont = c => g = ru
    BY <1>1, <1>2, <1>3, <1>6 DEF Chained, Active
  <2>2. fr2 = [fr1 EXCEPT ![c].st = "running"] /\ se2 = [se EXCEPT ![ru] = Append(@, o)]
    BY <2>1
  <2>3. /\ fr2 \in [C!Frames -> Promises] /\ fr2[ru] = p /\ fr2[c] = [fr[c] EXCEPT !.st = "running"]
        /\ \A g \in C!Frames : g # ru /\ g # c => fr2[g] = fr[g]
    BY <1>3, <1>4, <2>1, <2>2
  <2>4. fr2[c].st = "running" /\ fr2[c].cont = fr[c].cont /\ fr2[c].value = fr[c].value /\ fr2[c].result = fr[c].result
    BY <1>3, <2>1, <2>3 DEF Promises
  <2>5. /\ se[ru] \in Seq(Outcomes) /\ Len(se[ru]) \in Nat
        /\ se2[ru] = Append(se[ru], o) /\ se2[ru] \in Seq(Outcomes) /\ Len(se2[ru]) = Len(se[ru]) + 1
        /\ se2[ru][Len(se[ru]) + 1] = o /\ \A i \in 1..Len(se[ru]) : se2[ru][i] = se[ru][i]
    <3>1. se[ru] \in Seq(Outcomes) /\ se2[ru] = Append(se[ru], o)
      BY <1>2, <1>6, <2>2 DEF CorType
    <3> QED BY <3>1, AppendProperties, LenProperties
  <2>6. se2 \in [C!Called -> Seq(Outcomes)] /\ \A g \in C!Called : g # ru => se2[g] = se[g]
    BY <1>2, <1>6, <2>2, <2>5 DEF CorType
  <2>7. CorType(fr2, sl, c, rd, se2)
    BY <1>2, <2>1, <2>3, <2>6 DEF CorType
  <2>8. \A g \in C!Frames : Living(fr2, g) <=> Living(fr, g)
    BY <1>3, <2>1, <2>3, <2>4 DEF Living
  <2>9. Owned(fr2, sl)
    BY <1>1, <1>2, <1>3, <2>8, ZenonT(30) DEF Owned, Objects
  <2>10. \A g \in C!Frames : Active(fr2, g) => g # ru /\ Active(fr, g) /\ fr2[g].cont = fr[g].cont
    BY <2>1, <2>3, <2>4 DEF Active
  <2>11. Chained(fr2, sl, c, rd)
    <3>1. \A g \in C!Frames : (fr2[g].st = "running" <=> c = g) /\ (fr2[g].st = "suspended" <=> g \in rd)
      BY <1>2, <1>3, <2>1, <2>3, <2>4 DEF Chained
    <3>2. ASSUME NEW g \in C!Called, Active(fr2, g)
          PROVE  /\ g \in Tasks \union Async
                 /\ fr2[g].cont \in C!Frames /\ fr2[fr2[g].cont].st = "awaiting"
                 /\ \A x \in Slots : sl[x].handle = g => sl[x].in = fr2[g].cont
      <4>1. g # ru /\ Active(fr, g) /\ fr2[g].cont = fr[g].cont
        BY <1>1, <2>10, <3>2
      <4>2. fr[g].cont \in C!Frames /\ fr[fr[g].cont].st = "awaiting" /\ fr[g].cont # c /\ fr[g].cont # ru
        BY <1>2, <1>3, <2>1, <4>1 DEF Chained
      <4> QED BY <1>2, <2>3, <4>1, <4>2, SMTT(20) DEF Chained
    <3>3. \A g, h \in C!Called : Active(fr2, g) /\ Active(fr2, h) /\ fr2[g].cont = fr2[h].cont => g = h
      BY <1>1, <1>2, <2>10 DEF Chained
    <3>4. ASSUME NEW g \in Roots PROVE fr2[g].cont = None /\ (Active(fr2, g) \/ fr2[g].st = "done")
      BY <1>1, <1>2, <1>6, <2>3, <2>4 DEF Chained, Active
    <3> QED BY <3>1, <3>2, <3>3, <3>4 DEF Chained
  <2>12. Told(fr2, se2)
    <3> SUFFICES ASSUME NEW f \in Tasks \union Async
                 PROVE  /\ fr2[f].st \notin {"done", "destroyed"} => fr2[f].result = "none"
                        /\ fr2[f].st = "done" => se2[f] # << >> /\ se2[f][Len(se2[f])] = Final(f, fr2[f].result)
                        /\ f \in Async => /\ Len(se2[f]) >= fr2[f].value
                                          /\ fr2[f].st \notin {"done", "destroyed"} => Len(se2[f]) = fr2[f].value
                                          /\ \A i \in 1..fr2[f].value : se2[f][i] = C!Item(i)
      BY DEF Told
    <3>1. CASE f # ru
      <4>1. se2[f] = se[f] /\ fr2[f].value = fr[f].value /\ fr2[f].result = fr[f].result
        BY <1>1, <2>3, <2>4, <2>6, <3>1
      <4>2. fr2[f].st = fr[f].st \/ (fr2[f].st = "running" /\ fr[f].st = "awaiting")
        BY <1>1, <2>1, <2>3, <2>4, <3>1
      <4>3. /\ fr2[f].st \in {"done", "destroyed"} <=> fr[f].st \in {"done", "destroyed"}
            /\ fr2[f].st = "done" <=> fr[f].st = "done"
        BY <4>2
      <4>4. /\ fr[f].st \notin {"done", "destroyed"} => fr[f].result = "none"
            /\ fr[f].st = "done" => se[f] # << >> /\ se[f][Len(se[f])] = Final(f, fr[f].result)
            /\ f \in Async => /\ Len(se[f]) >= fr[f].value
                              /\ fr[f].st \notin {"done", "destroyed"} => Len(se[f]) = fr[f].value
                              /\ \A i \in 1..fr[f].value : se[f][i] = C!Item(i)
        BY <1>2 DEF Told
      <4> QED BY <4>1, <4>3, <4>4
    <3>2. CASE f = ru
      <4>1. /\ fr[ru].result = "none" /\ fr[ru].value \in Nat
            /\ ru \in Async => Len(se[ru]) = fr[ru].value /\ \A i \in 1..fr[ru].value : se[ru][i] = C!Item(i)
        BY <1>2, <1>3, <2>1 DEF Told, Promises
      <4>2. CASE p.st = "done"
        <5>1. o = Final(ru, p.result) /\ p.value = fr[ru].value
          BY <2>1, <4>2 DEF Given
        <5>2. se2[ru] # << >>
          BY <2>5, EmptySeq
        <5>3. se2[ru][Len(se2[ru])] = Final(ru, p.result)
          BY <2>5, <5>1
        <5>4. ru \in Async => Len(se2[ru]) >= p.value /\ \A i \in 1..p.value : se2[ru][i] = C!Item(i)
          BY <2>5, <4>1, <5>1
        <5> QED BY <2>3, <3>2, <4>2, <5>2, <5>3, <5>4
      <4>3. CASE p.st = "yielded"
        <5>1. o = C!Item(p.value) /\ p.value = fr[ru].value + 1 /\ p.result = fr[ru].result
          BY <2>1, <4>3 DEF Given
        <5>2. ru \in Async /\ Len(se2[ru]) = p.value
          BY <1>1, <2>5, <4>1, <4>3, <5>1
        <5>3. \A i \in 1..p.value : se2[ru][i] = C!Item(i)
          BY <2>5, <4>1, <5>1, <5>2
        <5>4. p.result = "none" /\ Len(se2[ru]) >= p.value
          BY <4>1, <5>1, <5>2
        <5> QED BY <2>3, <3>2, <4>3, <5>2, <5>3, <5>4
      <4> QED BY <4>2, <4>3
    <3> QED BY <3>1, <3>2
  <2> QED BY <2>7, <2>9, <2>11, <2>12 DEF Sound
<1> QED BY <1>1, <1>3, <1>5, <1>6

\* The kinds of coroutines, and the parts of the invariant for the current state.
LEMMA CoroutineFacts ==
    ASSUME CoroutineConstants, CoroutineInv
    PROVE  /\ C!Frames = Roots \union C!Called /\ Tasks \union Async \subseteq C!Called /\ None \notin C!Frames
           /\ Roots \intersect C!Called = {} /\ Tasks \intersect Async = {} /\ Sync \subseteq C!Called
           /\ C!Called = Tasks \union Async \union Sync /\ (Tasks \union Async) \intersect Sync = {}
           /\ CorType(frame, slot, running, ready, seen) /\ Owned(frame, slot)
           /\ Chained(frame, slot, running, ready) /\ Told(frame, seen)
           /\ frame \in [C!Frames -> Promises] /\ slot \in [Slots -> Objects]
           /\ seen \in [C!Called -> Seq(Outcomes)]
<1>1. CorType(frame, slot, running, ready, seen)
  BY DEF CoroutineInv, Sound
<1> QED BY <1>1 DEF C!Frames, C!Called, CoroutineConstants, CoroutineInv, Sound, CorType

\* A variable of the running coroutine owns no coroutine on its way.
LEMMA MineIsIdle ==
    ASSUME CoroutineConstants, NEW fr, NEW sl, NEW ru, NEW rd, NEW se, Sound(fr, sl, ru, rd, se),
           NEW x \in Slots, ru # None, sl[x].in = ru, sl[x].handle # None
    PROVE  sl[x].handle \in C!Called /\ ~Active(fr, sl[x].handle)
<1>1. sl[x].handle \in C!Called /\ ru \in C!Frames
  BY DEF Sound, CorType, Objects
<1>2. fr[ru].st = "running"
  BY <1>1 DEF Sound, Chained
<1>3. ASSUME Active(fr, sl[x].handle) PROVE FALSE
  <2>1. sl[x].in = fr[sl[x].handle].cont /\ fr[fr[sl[x].handle].cont].st = "awaiting"
    BY <1>1, <1>3 DEF Sound, Chained
  <2> QED BY <1>2, <2>1
<1> QED BY <1>1, <1>3

\* A handle moves from y to x, both variables of the running coroutine.
LEMMA MoveKeeps ==
    ASSUME CoroutineConstants, NEW fr, NEW sl, NEW ru, NEW rd, NEW se, Sound(fr, sl, ru, rd, se), ru # None,
           NEW x \in Slots, NEW y \in Slots, x # y, sl[x].handle = None, sl[y].in = ru,
           NEW sl2 \in [Slots -> Objects],
           sl2[x].in = ru, sl2[x].handle = sl[y].handle, sl2[y].in = ru, sl2[y].handle = None,
           \A z \in Slots \ {x, y} : sl2[z] = sl[z]
    PROVE  Sound(fr, sl2, ru, rd, se)
<1>1. CorType(fr, sl, ru, rd, se) /\ Owned(fr, sl) /\ Chained(fr, sl, ru, rd) /\ Told(fr, se)
  BY DEF Sound
<1>2. None \notin C!Frames /\ C!Called \subseteq C!Frames
  BY DEF CoroutineConstants, C!Frames
<1>3. CorType(fr, sl2, ru, rd, se)
  BY <1>1 DEF CorType
<1>4. Owned(fr, sl2)
  <2>1. \A z \in Slots : sl2[z].in = None => sl2[z].handle = None
    BY <1>1 DEF Owned
  <2>2. \A z \in Slots : sl2[z].in # None => Living(fr, sl2[z].in)
    BY <1>1 DEF Owned
  <2>3. \A z \in Slots : sl2[z].handle # None => Living(fr, sl2[z].handle)
    BY <1>1 DEF Owned
  <2>4. ASSUME NEW f \in C!Called, Living(fr, f) PROVE \E z \in Slots : sl2[z].handle = f
    <3>1. PICK z \in Slots : sl[z].handle = f
      BY <1>1, <2>4 DEF Owned
    <3>2. CASE z = y
      BY <3>1, <3>2
    <3>3. CASE z # y
      BY <1>2, <3>1, <3>3
    <3> QED BY <3>2, <3>3
  <2>5. \A z, w \in Slots : sl2[z].handle = sl2[w].handle /\ sl2[z].handle # None => z = w
    BY <1>1 DEF Owned
  <2> QED BY <2>1, <2>2, <2>3, <2>4, <2>5 DEF Owned
<1>5. ASSUME NEW f \in C!Called, Active(fr, f), NEW z \in Slots, sl2[z].handle = f PROVE sl2[z].in = fr[f].cont
  <2>1. z # x
    BY <1>2, <1>5, MineIsIdle
  <2>2. z # y
    BY <1>2, <1>5
  <2> QED BY <1>1, <1>5, <2>1, <2>2 DEF Chained
<1>6. Chained(fr, sl2, ru, rd)
  BY <1>1, <1>5 DEF Chained
<1> QED BY <1>1, <1>3, <1>4, <1>6 DEF Sound

\* A variable goes, and the frames it owned.
LEMMA DropKeeps == ASSUME CoroutineConstants, CoroutineInv, NEW x \in Slots, C!Drop(x) PROVE CoroutineInv'
<1> DEFINE h == slot[x].handle
           D == IF h = None THEN {} ELSE C!Doomed({h})
           S == {slot[z].handle : z \in {x}} \ {None}
<1>1. /\ running # None /\ slot[x].in = running /\ frame' = C!Destroyed(frame, D)
      /\ slot' = [C!Without(slot, D) EXCEPT ![x] = C!Undeclared] /\ UNCHANGED <<running, ready, seen>>
  BY DEF C!Drop, C!Mine
<1>2. /\ slot \in [Slots -> Objects] /\ None \notin C!Frames /\ C!Called \subseteq C!Frames
      /\ C!Undeclared \in Objects
  BY CoroutineFacts DEF C!Undeclared, Objects
<1>3. Goes(frame, slot, S, D)
  <2>1. CASE h = None
    BY <2>1 DEF Goes
  <2>2. CASE h # None
    <3>1. h \in C!Called /\ ~Active(frame, h)
      BY <1>1, <2>2, MineIsIdle DEF CoroutineInv
    <3>2. S = {h}
      BY <2>2
    <3> QED BY <2>2, <3>1, <3>2, DoomedGoes
  <2> QED BY <2>1, <2>2
<1> HIDE DEF D
<1>4. C!Without(slot, D) \in [Slots -> Objects] /\ \A z \in Slots : C!Without(slot, D)[z] = IF slot[z].in \in D THEN C!Undeclared ELSE slot[z]
  BY <1>2 DEF C!Without
<1>5. slot' \in [Slots -> Objects] /\ \A z \in Slots : slot'[z] = IF z \in {x} \/ slot[z].in \in D THEN C!Undeclared ELSE slot[z]
  BY <1>1, <1>2, <1>4
<1>6. PICK sl : sl = slot'
  OBVIOUS
<1>7. Sound(frame', sl, running, ready, seen)
  <2>1. frame' = C!Destroyed(frame, D) /\ {x} \in SUBSET Slots
    BY <1>1
  <2>2. sl \in [Slots -> Objects] /\ \A z \in Slots : sl[z] = IF z \in {x} \/ slot[z].in \in D THEN C!Undeclared ELSE slot[z]
    BY <1>5, <1>6
  <2> QED BY <1>3, <2>1, <2>2, DisposeKeeps
<1> QED BY <1>1, <1>6, <1>7 DEF CoroutineInv

\* x = std::move(y): what x owned goes, then x owns what y did.
LEMMA MoveAssignKeeps ==
    ASSUME CoroutineConstants, CoroutineInv, NEW x \in Slots, NEW y \in Slots, C!MoveAssign(x, y)
    PROVE  CoroutineInv'
<1> DEFINE h == slot[x].handle
           D == IF h = None THEN {} ELSE C!Doomed({h})
           S == {slot[z].handle : z \in {x}} \ {None}
           W == C!Without(slot, D)
           sl == [z \in Slots |-> IF z \in {x} \/ slot[z].in \in D THEN C!Undeclared ELSE slot[z]]
<1>1. /\ running # None /\ slot[y].in = running /\ x # y /\ (slot[x].in = running \/ slot[x].in = None)
      /\ frame' = C!Destroyed(frame, D) /\ UNCHANGED <<running, ready, seen>>
      /\ slot' = [W EXCEPT ![x] = [in |-> running, handle |-> slot[y].handle, param |-> @.param], ![y] = C!Emptied(@)]
  BY DEF C!MoveAssign, C!Mine
<1>2. /\ slot \in [Slots -> Objects] /\ None \notin C!Frames /\ C!Called \subseteq C!Frames
      /\ C!Undeclared \in Objects /\ running \in C!Frames /\ frame[running].st = "running"
  BY <1>1, CoroutineFacts DEF C!Undeclared, Objects, CorType, Chained
<1>3. Goes(frame, slot, S, D)
  <2>1. CASE h = None
    BY <2>1 DEF Goes
  <2>2. CASE h # None
    <3>1. slot[x].in = running
      BY <1>1, <2>2, CoroutineFacts DEF Owned
    <3>2. h \in C!Called /\ ~Active(frame, h)
      BY <1>1, <2>2, <3>1, MineIsIdle DEF CoroutineInv
    <3>3. S = {h}
      BY <2>2
    <3> QED BY <2>2, <3>2, <3>3, DoomedGoes
  <2> QED BY <2>1, <2>2
<1> HIDE DEF D
<1>4. W \in [Slots -> Objects] /\ \A z \in Slots : W[z] = IF slot[z].in \in D THEN C!Undeclared ELSE slot[z]
  BY <1>2 DEF C!Without
<1>5. sl \in [Slots -> Objects] /\ \A z \in Slots : sl[z] = IF z \in {x} \/ slot[z].in \in D THEN C!Undeclared ELSE slot[z]
  BY <1>2
<1> HIDE DEF W, sl
<1>6. Sound(frame', sl, running, ready, seen)
  BY <1>1, <1>3, <1>5, DisposeKeeps
<1>7. running \notin D
  BY <1>2, <1>3 DEF Goes, Active
<1>8. W[y] = slot[y] /\ sl[y] = slot[y] /\ sl[x].handle = None
  BY <1>1, <1>4, <1>5, <1>7 DEF C!Undeclared
<1>9. /\ slot'[x] = [in |-> running, handle |-> slot[y].handle, param |-> W[x].param]
      /\ slot'[y] = [slot[y] EXCEPT !.handle = None] /\ \A z \in Slots \ {x, y} : slot'[z] = W[z]
      /\ DOMAIN slot' = Slots /\ slot' = [z \in Slots |-> slot'[z]]
  BY <1>1, <1>4, <1>8 DEF C!Emptied
<1>10. slot'[x] \in Objects /\ slot'[y] \in Objects
  BY <1>2, <1>4, <1>9 DEF Objects
<1>11. slot' \in [Slots -> Objects]
  BY <1>4, <1>9, <1>10
<1>12. /\ slot'[x].in = running /\ slot'[x].handle = sl[y].handle /\ slot'[y].in = running /\ slot'[y].handle = None
       /\ \A z \in Slots \ {x, y} : slot'[z] = sl[z]
  BY <1>1, <1>2, <1>4, <1>5, <1>8, <1>9 DEF Objects
<1>13. Sound(frame', slot', running, ready, seen)
  <2>1. sl[y].in = running
    BY <1>1, <1>8
  <2>2. PICK fr, s2 : fr = frame' /\ s2 = slot'
    OBVIOUS
  <2> HIDE DEF sl
  <2>3. /\ Sound(fr, sl, running, ready, seen) /\ running # None /\ x # y /\ sl[x].handle = None
        /\ s2 \in [Slots -> Objects] /\ s2[x].in = running /\ s2[x].handle = sl[y].handle
        /\ s2[y].in = running /\ s2[y].handle = None /\ \A z \in Slots \ {x, y} : s2[z] = sl[z]
    BY <1>1, <1>6, <1>8, <1>11, <1>12, <2>2
  <2>4. Sound(fr, s2, running, ready, seen)
    BY <2>1, <2>3, MoveKeeps
  <2> QED BY <2>2, <2>4
<1> QED BY <1>1, <1>13 DEF CoroutineInv

\* A coroutine is called: its frame has one owner, the variable of the caller.
LEMMA CallKeeps ==
    ASSUME CoroutineConstants, CoroutineInv, NEW x \in Slots, NEW f \in C!Called, C!Call(x, f)
    PROVE  CoroutineInv'
<1>0. /\ None \notin C!Frames /\ C!Called \subseteq C!Frames /\ Roots \subseteq C!Frames /\ Roots \intersect C!Called = {}
      /\ Tasks \union Async \subseteq C!Called /\ CorType(frame, slot, running, ready, seen) /\ Owned(frame, slot)
      /\ Chained(frame, slot, running, ready) /\ Told(frame, seen)
      /\ frame \in [C!Frames -> Promises] /\ slot \in [Slots -> Objects]
  BY CoroutineFacts
<1>1. /\ running # None /\ slot[x].in = None /\ frame[f].st = "none"
      /\ slot' = [slot EXCEPT ![x] = [in |-> running, handle |-> f, param |-> FALSE]]
      /\ frame' = [frame EXCEPT ![f].st = "created"] /\ UNCHANGED <<running, ready, seen>>
  BY DEF C!Call
<1>2. \A q \in Promises : [q EXCEPT !.st = "created"] \in Promises
  BY DEF Promises, FrameStates
<1>3. /\ frame' \in [C!Frames -> Promises] /\ \A g \in C!Frames : g # f => frame'[g] = frame[g]
      /\ frame'[f] = [frame[f] EXCEPT !.st = "created"]
  BY <1>0, <1>1, <1>2
<1>4. /\ frame'[f].st = "created" /\ frame'[f].value = frame[f].value /\ frame'[f].result = frame[f].result
  BY <1>0, <1>3 DEF Promises
<1>5. running \in C!Frames /\ frame[running].st = "running" /\ running # f
  BY <1>0, <1>1 DEF CorType, Chained
<1>6. /\ slot' \in [Slots -> Objects] /\ \A z \in Slots : z # x => slot'[z] = slot[z]
      /\ slot'[x].in = running /\ slot'[x].handle = f
  BY <1>0, <1>1, <1>5 DEF Objects
<1>7. CorType(frame', slot', running', ready', seen')
  BY <1>0, <1>1, <1>3, <1>6 DEF CorType
<1>8. slot[x].handle = None /\ \A z \in Slots : slot[z].handle # f
  BY <1>0, <1>1 DEF Owned, Living
<1>9. Owned(frame', slot')
  <2>1. \A z \in Slots : slot'[z].in = None => slot'[z].handle = None
    BY <1>0, <1>1, <1>6 DEF Owned
  <2>2. \A g \in C!Frames : Living(frame, g) => Living(frame', g)
    BY <1>3, <1>4 DEF Living
  <2>3. \A z \in Slots : slot'[z].in # None => Living(frame', slot'[z].in)
    BY <1>0, <1>5, <1>6, <2>2 DEF Owned, Objects, Living
  <2>4. \A z \in Slots : slot'[z].handle # None => Living(frame', slot'[z].handle)
    BY <1>0, <1>4, <1>6, <2>2 DEF Owned, Objects, Living
  <2>5. ASSUME NEW g \in C!Called, Living(frame', g) PROVE \E z \in Slots : slot'[z].handle = g
    <3>1. CASE g = f
      BY <1>6, <3>1
    <3>2. CASE g # f
      <4>1. PICK z \in Slots : slot[z].handle = g
        BY <1>0, <1>3, <2>5, <3>2 DEF Owned, Living
      <4> QED BY <1>0, <1>6, <1>8, <4>1
    <3> QED BY <3>1, <3>2
  <2>6. \A z, w \in Slots : slot'[z].handle = slot'[w].handle /\ slot'[z].handle # None => z = w
    BY <1>0, <1>6, <1>8 DEF Owned
  <2> QED BY <2>1, <2>3, <2>4, <2>5, <2>6 DEF Owned
<1>10. \A g \in C!Frames : (Active(frame', g) => g # f) /\ (Active(frame', g) <=> Active(frame, g))
  BY <1>1, <1>3, <1>4 DEF Active
<1>11. Chained(frame', slot', running', ready')
  <2>1. \A g \in C!Frames : (frame'[g].st = "running" <=> running' = g) /\ (frame'[g].st = "suspended" <=> g \in ready')
    BY <1>0, <1>1, <1>3, <1>4 DEF Chained
  <2>2. ASSUME NEW g \in C!Called, Active(frame', g)
        PROVE  /\ g \in Tasks \union Async
               /\ frame'[g].cont \in C!Frames /\ frame'[frame'[g].cont].st = "awaiting"
               /\ \A z \in Slots : slot'[z].handle = g => slot'[z].in = frame'[g].cont
    <3>1. g # f /\ frame'[g] = frame[g] /\ Active(frame, g)
      BY <1>0, <1>3, <1>10, <2>2
    <3>2. frame[g].cont \in C!Frames /\ frame[frame[g].cont].st = "awaiting" /\ frame[g].cont # f
      BY <1>0, <1>1, <3>1 DEF Chained
    <3> QED BY <1>0, <1>3, <1>6, <3>1, <3>2 DEF Chained
  <2>3. \A g, h \in C!Called : Active(frame', g) /\ Active(frame', h) /\ frame'[g].cont = frame'[h].cont => g = h
    BY <1>0, <1>3, <1>10 DEF Chained
  <2>4. \A g \in Roots : frame'[g].cont = None /\ (Active(frame', g) \/ frame'[g].st = "done")
    BY <1>0, <1>3, <1>10 DEF Chained
  <2> QED BY <2>1, <2>2, <2>3, <2>4 DEF Chained
<1>12. Told(frame', seen')
  BY <1>0, <1>1, <1>3, <1>4 DEF Told
<1> QED BY <1>7, <1>9, <1>11, <1>12 DEF CoroutineInv, Sound

\* A variable of the running coroutine becomes a parameter of a coroutine it has called.
LEMMA GiveKeeps ==
    ASSUME CoroutineConstants, CoroutineInv, NEW x \in Slots, NEW f \in C!Called, C!GiveTo(x, f)
    PROVE  CoroutineInv'
<1>0. /\ None \notin C!Frames /\ C!Called \subseteq C!Frames /\ CorType(frame, slot, running, ready, seen)
      /\ Owned(frame, slot) /\ Chained(frame, slot, running, ready) /\ Told(frame, seen) /\ slot \in [Slots -> Objects]
  BY CoroutineFacts
<1>1. /\ running # None /\ slot[x].in = running /\ frame[f].st = "created" /\ UNCHANGED <<frame, running, ready, seen>>
      /\ slot' = [slot EXCEPT ![x] = [@ EXCEPT !.in = f, !.param = TRUE]]
  BY DEF C!GiveTo, C!Mine
<1>2. /\ slot' \in [Slots -> Objects] /\ \A z \in Slots : z # x => slot'[z] = slot[z]
      /\ slot'[x].in = f /\ slot'[x].handle = slot[x].handle
  BY <1>0, <1>1 DEF Objects
<1>3. CorType(frame', slot', running', ready', seen')
  BY <1>0, <1>1, <1>2 DEF CorType
<1>4. Owned(frame, slot')
  <2>1. Living(frame, f) /\ f # None
    BY <1>0, <1>1 DEF Living
  <2> QED BY <1>0, <1>1, <1>2, <2>1 DEF Owned
<1>5. ASSUME NEW g \in C!Called, Active(frame, g), NEW z \in Slots, slot'[z].handle = g PROVE slot'[z].in = frame[g].cont
  <2>1. z # x
    BY <1>0, <1>1, <1>2, <1>5, MineIsIdle DEF CoroutineInv
  <2> QED BY <1>0, <1>2, <1>5, <2>1 DEF Chained
<1>6. Chained(frame, slot', running, ready)
  BY <1>0, <1>5 DEF Chained
<1> QED BY <1>0, <1>1, <1>3, <1>4, <1>6 DEF CoroutineInv, Sound

\* A task that has ended gives its result again; any other coroutine is started or goes on.
LEMMA AwaitKeeps == ASSUME CoroutineConstants, CoroutineInv, NEW x \in Slots, C!Await(x) PROVE CoroutineInv'
<1>0. /\ None \notin C!Frames /\ C!Called \subseteq C!Frames /\ Roots \subseteq C!Frames /\ Roots \intersect C!Called = {}
      /\ Tasks \union Async \subseteq C!Called /\ Tasks \intersect Async = {}
      /\ CorType(frame, slot, running, ready, seen) /\ Owned(frame, slot)
      /\ Chained(frame, slot, running, ready) /\ Told(frame, seen)
      /\ frame \in [C!Frames -> Promises] /\ slot \in [Slots -> Objects] /\ seen \in [C!Called -> Seq(Outcomes)]
  BY CoroutineFacts
<1> DEFINE f == slot[x].handle
<1>1. running # None /\ slot[x].in = running /\ f \in Tasks \union Async /\ f # None /\ UNCHANGED <<slot, ready>>
  BY <1>0 DEF C!Await, C!Mine
<1>2. f \in C!Called /\ f \in C!Frames /\ ~Active(frame, f)
  BY <1>0, <1>1, MineIsIdle DEF CoroutineInv
<1>3. running \in C!Frames /\ frame[running].st = "running" /\ running # f
  BY <1>0, <1>1, <1>2 DEF CorType, Chained, Active
<1>4. CASE f \in Tasks /\ C!Done(f)
  <2> DEFINE o == C!TaskOutcome(frame[f])
  <2>1. seen' = [seen EXCEPT ![f] = Append(@, o)] /\ UNCHANGED <<frame, running>>
    BY <1>4 DEF C!Await
  <2>2. o = Final(f, frame[f].result) /\ o \in Outcomes
    BY <1>0, <1>2, <1>4 DEF Final, C!TaskOutcome, C!Ended, Outcomes, Promises
  <2> HIDE DEF o
  <2>3. seen'[f] = Append(seen[f], o) /\ seen[f] \in Seq(Outcomes) /\ \A g \in C!Called : g # f => seen'[g] = seen[g]
    BY <1>0, <1>2, <2>1
  <2>4. /\ seen'[f] \in Seq(Outcomes) /\ Len(seen'[f]) = Len(seen[f]) + 1 /\ seen'[f][Len(seen'[f])] = o
        /\ Len(seen[f]) \in Nat
    BY <2>2, <2>3, AppendProperties, LenProperties
  <2>5. seen'[f] # << >>
    BY <2>4, EmptySeq
  <2>6. CorType(frame', slot', running', ready', seen')
    BY <1>0, <1>1, <1>2, <2>1, <2>4 DEF CorType
  <2>7. Told(frame', seen')
    <3> SUFFICES ASSUME NEW g \in Tasks \union Async
                 PROVE  /\ frame[g].st \notin {"done", "destroyed"} => frame[g].result = "none"
                        /\ frame[g].st = "done" => seen'[g] # << >> /\ seen'[g][Len(seen'[g])] = Final(g, frame[g].result)
                        /\ g \in Async => /\ Len(seen'[g]) >= frame[g].value
                                          /\ frame[g].st \notin {"done", "destroyed"} => Len(seen'[g]) = frame[g].value
                                          /\ \A i \in 1..frame[g].value : seen'[g][i] = C!Item(i)
      BY <2>1 DEF Told
    <3>1. CASE g # f
      BY <1>0, <2>3, <3>1, SMTT(20) DEF Told
    <3>2. CASE g = f
      BY <1>0, <1>4, <2>2, <2>4, <2>5, <3>2 DEF C!Done
    <3> QED BY <3>1, <3>2
  <2> QED BY <1>0, <1>1, <2>1, <2>6, <2>7 DEF CoroutineInv, Sound
<1>5. CASE ~(f \in Tasks /\ C!Done(f))
  <2>1. /\ frame[f].st \in {"created", "yielded"} /\ running' = f /\ seen' = seen
        /\ frame' = [frame EXCEPT ![f].cont = running, ![f].st = "running", ![running].st = "awaiting"]
    BY <1>5 DEF C!Await
  <2>2. \A q \in Promises : [q EXCEPT !.st = "awaiting"] \in Promises /\ [[q EXCEPT !.cont = running] EXCEPT !.st = "running"] \in Promises
    BY <1>3 DEF Promises, FrameStates
  <2>3. /\ frame'[f] = [[frame[f] EXCEPT !.cont = running] EXCEPT !.st = "running"]
        /\ frame'[running] = [frame[running] EXCEPT !.st = "awaiting"]
        /\ frame' \in [C!Frames -> Promises] /\ \A g \in C!Frames : g # f /\ g # running => frame'[g] = frame[g]
    BY <1>0, <1>2, <1>3, <2>1, <2>2
  <2>4. /\ frame'[f].st = "running" /\ frame'[f].cont = running /\ frame'[f].value = frame[f].value
        /\ frame'[f].result = frame[f].result /\ frame'[running].st = "awaiting"
        /\ frame'[running].cont = frame[running].cont /\ frame'[running].value = frame[running].value
        /\ frame'[running].result = frame[running].result
    BY <1>0, <1>2, <1>3, <2>3 DEF Promises
  <2>5. CorType(frame', slot', running', ready', seen')
    BY <1>0, <1>1, <1>2, <2>1, <2>3 DEF CorType
  <2>6. \A g \in C!Frames : Living(frame', g) <=> Living(frame, g)
    BY <1>3, <2>1, <2>3, <2>4 DEF Living
  <2>7. Owned(frame', slot')
    BY <1>0, <1>1, <2>6 DEF Owned, Objects
  <2>8. \A g \in C!Frames : Active(frame', g) /\ g # f => Active(frame, g) /\ frame'[g].cont = frame[g].cont
    BY <1>3, <2>3, <2>4 DEF Active
  <2>9. Chained(frame', slot', running', ready')
    <3>1. \A g \in C!Frames : (frame'[g].st = "running" <=> running' = g) /\ (frame'[g].st = "suspended" <=> g \in ready')
      <4> SUFFICES ASSUME NEW g \in C!Frames
                   PROVE  (frame'[g].st = "running" <=> f = g) /\ (frame'[g].st = "suspended" <=> g \in ready)
        BY <1>1, <2>1
      <4>1. CASE g = f
        BY <1>0, <1>2, <2>4, <4>1 DEF Chained, Active
      <4>2. CASE g = running
        BY <1>0, <1>3, <2>4, <4>2 DEF Chained
      <4>3. CASE g # f /\ g # running
        BY <1>0, <2>3, <4>3 DEF Chained
      <4> QED BY <4>1, <4>2, <4>3
    <3>2. ASSUME NEW g \in C!Called, Active(frame', g), g # f
          PROVE  /\ g \in Tasks \union Async /\ frame'[g].cont # running
                 /\ frame'[g].cont \in C!Frames /\ frame'[frame'[g].cont].st = "awaiting"
                 /\ \A z \in Slots : slot'[z].handle = g => slot'[z].in = frame'[g].cont
      <4>1. Active(frame, g) /\ frame'[g].cont = frame[g].cont
        BY <1>0, <2>8, <3>2
      <4>2. frame[g].cont \in C!Frames /\ frame[frame[g].cont].st = "awaiting" /\ frame[g].cont # f /\ frame[g].cont # running
        BY <1>0, <1>3, <2>1, <4>1 DEF Chained
      <4>3. frame'[frame[g].cont] = frame[frame[g].cont]
        BY <2>3, <4>2
      <4> QED BY <1>0, <1>1, <4>1, <4>2, <4>3 DEF Chained
    <3>3. ASSUME NEW z \in Slots, slot'[z].handle = f PROVE slot'[z].in = frame'[f].cont
      BY <1>0, <1>1, <2>4, <3>3 DEF Owned
    <3>4. \A g \in C!Called : Active(frame', g) =>
               /\ g \in Tasks \union Async
               /\ frame'[g].cont \in C!Frames /\ frame'[frame'[g].cont].st = "awaiting"
               /\ \A z \in Slots : slot'[z].handle = g => slot'[z].in = frame'[g].cont
      BY <1>1, <1>3, <2>4, <3>2, <3>3
    <3>5. ASSUME NEW g \in C!Called, NEW h \in C!Called, Active(frame', g), Active(frame', h), frame'[g].cont = frame'[h].cont
          PROVE  g = h
      <4>1. CASE g = f \/ h = f
        BY <2>4, <3>2, <3>5, <4>1
      <4>2. CASE g # f /\ h # f
        BY <1>0, <2>8, <3>5, <4>2, SMTT(20) DEF Chained
      <4> QED BY <4>1, <4>2
    <3>6. ASSUME NEW g \in Roots PROVE frame'[g].cont = None /\ (Active(frame', g) \/ frame'[g].st = "done")
      <4>1. g \in C!Frames /\ g # f
        BY <1>0, <1>2
      <4>2. CASE g = running
        BY <1>0, <2>4, <4>2 DEF Chained, Active
      <4>3. CASE g # running
        BY <1>0, <2>3, <4>1, <4>3 DEF Chained, Active
      <4> QED BY <4>2, <4>3
    <3> QED BY <3>1, <3>4, <3>5, <3>6 DEF Chained
  <2>10. Told(frame', seen')
    <3>1. ASSUME NEW g \in Tasks \union Async
          PROVE  /\ frame'[g].value = frame[g].value /\ frame'[g].result = frame[g].result
                 /\ frame'[g].st \in {"done", "destroyed"} <=> frame[g].st \in {"done", "destroyed"}
                 /\ frame'[g].st = "done" <=> frame[g].st = "done"
      <4>1. CASE g = f
        BY <2>1, <2>4, <4>1
      <4>2. CASE g = running
        BY <1>3, <2>4, <4>2
      <4>3. CASE g # f /\ g # running
        BY <1>0, <2>3, <4>3
      <4> QED BY <4>1, <4>2, <4>3
    <3> SUFFICES ASSUME NEW g \in Tasks \union Async
                 PROVE  /\ frame'[g].st \notin {"done", "destroyed"} => frame'[g].result = "none"
                        /\ frame'[g].st = "done" => seen[g] # << >> /\ seen[g][Len(seen[g])] = Final(g, frame'[g].result)
                        /\ g \in Async => /\ Len(seen[g]) >= frame'[g].value
                                          /\ frame'[g].st \notin {"done", "destroyed"} => Len(seen[g]) = frame'[g].value
                                          /\ \A i \in 1..frame'[g].value : seen[g][i] = C!Item(i)
      BY <2>1 DEF Told
    <3> QED BY <1>0, <3>1 DEF Told
  <2> QED BY <2>5, <2>7, <2>9, <2>10 DEF CoroutineInv, Sound
<1> QED BY <1>4, <1>5

\* co_yield of an AsyncGenerator.
LEMMA YieldKeeps == ASSUME CoroutineConstants, CoroutineInv, C!Yield PROVE CoroutineInv'
<1>0. /\ None \notin C!Frames /\ C!Called \subseteq C!Frames /\ Tasks \union Async \subseteq C!Called
      /\ Tasks \intersect Async = {} /\ Told(frame, seen)
      /\ Chained(frame, slot, running, ready) /\ frame \in [C!Frames -> Promises]
  BY CoroutineFacts
<1>1. /\ running \in Async /\ running \in C!Called /\ running \in C!Frames /\ running # None
      /\ frame[running] \in Promises /\ frame[running].value \in Nat
      /\ frame[running].st = "running" /\ frame[running].result = "none"
  BY <1>0 DEF C!Yield, Chained, Told, Promises
<1>2. PICK fr1 : /\ fr1 = [frame EXCEPT ![running].st = "yielded", ![running].value = @ + 1]
                 /\ C!Transfer(fr1, running) /\ UNCHANGED <<slot, ready>>
  BY DEF C!Yield
<1> DEFINE p == fr1[running]
           o == C!Outcome(running, p)
<1>3. /\ fr1 \in [C!Frames -> Promises] /\ \A g \in C!Frames : g # running => fr1[g] = frame[g]
      /\ p.st = "yielded" /\ p.cont = frame[running].cont /\ p.value = frame[running].value + 1 /\ p.result = "none"
  <2>2. frame[running].value + 1 \in Nat
    BY <1>1
  <2>3. p = [frame[running] EXCEPT !.st = "yielded", !.value = frame[running].value + 1]
    BY <1>0, <1>1, <1>2
  <2>4. p \in Promises /\ p.st = "yielded" /\ p.cont = frame[running].cont /\ p.value = frame[running].value + 1 /\ p.result = "none"
    <3>1. PICK q, v : q = frame[running] /\ v = frame[running].value + 1
      OBVIOUS
    <3>2. p = [q EXCEPT !.st = "yielded", !.value = v] /\ q \in Promises /\ v \in Nat
      BY <1>1, <2>2, <2>3, <3>1
    <3>3. p \in Promises /\ p.st = "yielded" /\ p.cont = q.cont /\ p.value = v /\ p.result = q.result
      BY <3>2 DEF Promises, FrameStates
    <3> QED BY <1>1, <3>1, <3>3
  <2>5. \A g \in C!Frames : g # running => fr1[g] = frame[g]
    BY <1>0, <1>2
  <2>6. DOMAIN fr1 = C!Frames /\ fr1 = [g \in C!Frames |-> fr1[g]]
    BY <1>0, <1>2
  <2> QED BY <1>0, <2>4, <2>5, <2>6
<1>4. o = C!Item(p.value) /\ o \in Outcomes
  BY <1>0, <1>1, <1>3 DEF C!Outcome, C!NextOutcome, C!Item, Outcomes, Promises
<1>5. /\ running' = p.cont /\ frame' = IF p.cont = None THEN fr1 ELSE [fr1 EXCEPT ![p.cont].st = "running"]
      /\ seen' = IF p.cont = None THEN seen ELSE [seen EXCEPT ![running] = Append(@, o)]
  BY <1>2 DEF C!Transfer
<1>6. p \in Promises
  BY <1>1, <1>3
<1> HIDE DEF o
<1>7. Given(frame, running, p, o)
  BY <1>1, <1>3, <1>4 DEF Given
<1>8. PICK fr2, se2, q : fr2 = frame' /\ se2 = seen' /\ q = p
  OBVIOUS
<1> HIDE DEF p
<1>9. Sound(fr2, slot, q.cont, ready, se2)
  <2>1. /\ q \in Promises /\ q.cont = frame[running].cont /\ q.st = "yielded" /\ o \in Outcomes /\ Given(frame, running, q, o)
        /\ fr1[running] = q /\ (q.st = "done" \/ (q.st = "yielded" /\ running \in Async))
        /\ (running \in Tasks \union Async => Given(frame, running, q, o))
    BY <1>1, <1>3, <1>4, <1>6, <1>7, <1>8 DEF p
  <2>2. /\ fr2 = IF q.cont = None THEN fr1 ELSE [fr1 EXCEPT ![q.cont].st = "running"]
        /\ se2 = IF q.cont = None THEN seen ELSE [seen EXCEPT ![running] = Append(@, o)]
    BY <1>5, <1>8
  <2>3. /\ Sound(frame, slot, running, ready, seen) /\ running # None
        /\ fr1 \in [C!Frames -> Promises] /\ \A g \in C!Frames : g # running => fr1[g] = frame[g]
    BY <1>1, <1>3 DEF CoroutineInv
  <2> QED BY <2>1, <2>2, <2>3, LeaveKeeps, Zenon
<1> QED BY <1>2, <1>5, <1>8, <1>9 DEF CoroutineInv

\* The body ends: its variables go with what they own, then the one that awaits it goes on.
LEMMA FinishKeeps ==
    ASSUME CoroutineConstants, CoroutineInv, NEW f \in C!Frames, NEW r \in {"value", "exception"}, C!Finish(f, r)
    PROVE  CoroutineInv'
<1>0. /\ None \notin C!Frames /\ C!Called \subseteq C!Frames /\ Tasks \union Async \subseteq C!Called
      /\ Tasks \intersect Async = {} /\ Chained(frame, slot, running, ready)
      /\ frame \in [C!Frames -> Promises] /\ slot \in [Slots -> Objects]
  BY CoroutineFacts
<1> DEFINE X == {x \in Slots : slot[x].in = f /\ ~slot[x].param}
           S == {slot[x].handle : x \in X} \ {None}
           D == C!Doomed(S)
           fd == C!Destroyed(frame, D)
<1>1. PICK fr1 : /\ fr1 = C!Destroyed([frame EXCEPT ![f] = [@ EXCEPT !.st = "done", !.result = r]], D)
                 /\ C!Transfer(fr1, f) /\ running = f /\ ready' = ready
                 /\ slot' = [x \in Slots |-> IF x \in X THEN C!Undeclared ELSE C!Without(slot, D)[x]]
  BY DEF C!Finish, C!Final
<1>2. f # None /\ frame[f].st = "running" /\ frame[f] \in Promises /\ C!Undeclared \in Objects
  BY <1>0, <1>1 DEF Chained, C!Undeclared, Objects
<1>3. Goes(frame, slot, S, D)
  <2>1. ASSUME NEW h \in S PROVE h \in C!Called /\ ~Active(frame, h)
    BY <1>1, <1>2, <2>1, MineIsIdle DEF CoroutineInv
  <2> QED BY <2>1, DoomedGoes
<1> HIDE DEF D
<1>4. PICK sl : sl = slot'
  OBVIOUS
<1>5. sl \in [Slots -> Objects] /\ \A x \in Slots : sl[x] = IF x \in X \/ slot[x].in \in D THEN C!Undeclared ELSE slot[x]
  BY <1>0, <1>1, <1>2, <1>4 DEF C!Without
<1>6. Sound(fd, sl, running, ready, seen)
  BY <1>3, <1>5, DisposeKeeps
<1>7. f \notin D /\ fd[f] = frame[f]
  BY <1>2, <1>3 DEF Goes, Active, C!Destroyed
<1>8. /\ \A g \in C!Frames : g # f => fr1[g] = fd[g]
      /\ fr1[f] = [frame[f] EXCEPT !.st = "done", !.result = r] /\ fr1 = [g \in C!Frames |-> fr1[g]]
  BY <1>0, <1>1, <1>7 DEF C!Destroyed
<1>9. PICK q : q = fr1[f]
  OBVIOUS
<1>10. q \in Promises /\ q.st = "done" /\ q.result = r /\ q.cont = fd[f].cont /\ q.value = fd[f].value
  BY <1>2, <1>7, <1>8, <1>9 DEF Promises, FrameStates
<1>11. fd \in [C!Frames -> Promises]
  BY <1>6 DEF Sound, CorType
<1> HIDE DEF fd
<1>12. fr1 \in [C!Frames -> Promises]
  BY <1>8, <1>9, <1>10, <1>11
<1>13. PICK o : o = C!Outcome(f, q)
  OBVIOUS
<1>14. o \in Outcomes /\ (f \in Tasks \union Async => o = Final(f, q.result))
  BY <1>0, <1>10, <1>13 DEF C!Outcome, C!TaskOutcome, C!NextOutcome, C!Ended, C!Item, Outcomes, Promises, Final
<1>15. /\ running' = q.cont
       /\ frame' = IF q.cont = None THEN fr1 ELSE [fr1 EXCEPT ![q.cont].st = "running"]
       /\ seen' = IF q.cont = None THEN seen ELSE [seen EXCEPT ![f] = Append(@, o)]
  BY <1>1, <1>9, <1>13 DEF C!Transfer
<1>16. PICK fr2, se2 : fr2 = frame' /\ se2 = seen'
  OBVIOUS
<1>17. Sound(fr2, sl, q.cont, ready, se2)
  <2>1. /\ Sound(fd, sl, f, ready, seen) /\ f # None /\ q \in Promises /\ q.cont = fd[f].cont
        /\ (q.st = "done" \/ (q.st = "yielded" /\ f \in Async)) /\ o \in Outcomes
        /\ (f \in Tasks \union Async => Given(fd, f, q, o))
    BY <1>1, <1>2, <1>6, <1>10, <1>14 DEF Given
  <2>2. /\ fr1 \in [C!Frames -> Promises] /\ fr1[f] = q /\ \A g \in C!Frames : g # f => fr1[g] = fd[g]
        /\ fr2 = (IF q.cont = None THEN fr1 ELSE [fr1 EXCEPT ![q.cont].st = "running"])
        /\ se2 = (IF q.cont = None THEN seen ELSE [seen EXCEPT ![f] = Append(@, o)])
    BY <1>8, <1>9, <1>12, <1>15, <1>16
  <2> QED BY <2>1, <2>2, LeaveKeeps, ZenonT(30)
<1> QED BY <1>1, <1>4, <1>15, <1>16, <1>17 DEF CoroutineInv

\* Only where the coroutine f is changes, between running and suspended.
LEMMA SwitchKeeps ==
    ASSUME CoroutineConstants, CoroutineInv, C!Suspend \/ \E f \in C!Frames : C!Resume(f)
    PROVE  CoroutineInv'
<1>0. /\ None \notin C!Frames /\ C!Called \subseteq C!Frames /\ Roots \subseteq C!Frames /\ Tasks \union Async \subseteq C!Called
      /\ CorType(frame, slot, running, ready, seen) /\ Owned(frame, slot)
      /\ Chained(frame, slot, running, ready) /\ Told(frame, seen)
      /\ frame \in [C!Frames -> Promises] /\ slot \in [Slots -> Objects]
  BY CoroutineFacts
<1>1. PICK f \in C!Frames, s \in {"running", "suspended"} :
         /\ Active(frame, f) /\ frame[f].st # "awaiting" /\ frame' = [frame EXCEPT ![f].st = s] /\ UNCHANGED <<slot, seen>>
         /\ \/ s = "suspended" /\ running = f /\ running' = None /\ ready' = ready \union {f}
            \/ s = "running" /\ running = None /\ running' = f /\ ready' = ready \ {f} /\ f \in ready
  <2>1. CASE C!Suspend
    <3>1. running \in C!Frames /\ frame[running].st = "running"
      BY <1>0, <2>1 DEF C!Suspend, CorType, Chained
    <3> QED BY <2>1, <3>1 DEF C!Suspend, Active
  <2>2. CASE \E f \in C!Frames : C!Resume(f)
    BY <1>0, <2>2 DEF C!Resume, Chained, Active
  <2> QED BY <2>1, <2>2
<1>2. \A q \in Promises : [q EXCEPT !.st = s] \in Promises
  BY DEF Promises, FrameStates
<1>3. /\ frame' \in [C!Frames -> Promises] /\ frame'[f] = [frame[f] EXCEPT !.st = s]
      /\ \A g \in C!Frames : g # f => frame'[g] = frame[g]
  BY <1>0, <1>1, <1>2
<1>4. /\ frame'[f].st = s /\ \A g \in C!Frames : /\ frame'[g].cont = frame[g].cont
                                                /\ frame'[g].value = frame[g].value /\ frame'[g].result = frame[g].result
  BY <1>0, <1>3 DEF Promises
<1>5. CorType(frame', slot', running', ready', seen')
  BY <1>0, <1>1, <1>3 DEF CorType
<1>6. \A g \in C!Frames : /\ Living(frame', g) <=> Living(frame, g)
                          /\ Active(frame', g) <=> Active(frame, g)
                          /\ frame'[g].st = "awaiting" <=> frame[g].st = "awaiting"
                          /\ frame'[g].st = "done" <=> frame[g].st = "done"
                          /\ frame'[g].st \in {"done", "destroyed"} <=> frame[g].st \in {"done", "destroyed"}
  BY <1>1, <1>3, <1>4 DEF Living, Active
<1>7. Owned(frame', slot')
  <2>1. \A g \in C!Frames : Living(frame', g) <=> Living(frame, g)
    BY <1>6
  <2>2. Owned(frame', slot)
    BY <1>0, <2>1 DEF Owned, Objects
  <2> QED BY <1>1, <2>2
<1>8. Chained(frame', slot', running', ready')
  <2>1. ASSUME NEW g \in C!Frames PROVE (frame'[g].st = "running" <=> running' = g) /\ (frame'[g].st = "suspended" <=> g \in ready')
    <3>1. CASE g = f
      BY <1>0, <1>1, <1>4, <3>1
    <3>2. CASE g # f
      BY <1>0, <1>1, <1>3, <3>2 DEF Chained
    <3> QED BY <3>1, <3>2
  <2>2. ASSUME NEW g \in C!Called, Active(frame', g)
        PROVE  /\ g \in Tasks \union Async
               /\ frame'[g].cont \in C!Frames /\ frame'[frame'[g].cont].st = "awaiting"
               /\ \A x \in Slots : slot'[x].handle = g => slot'[x].in = frame'[g].cont
    BY <1>0, <1>1, <1>4, <1>6, <2>2 DEF Chained
  <2>3. \A g, h \in C!Called : Active(frame', g) /\ Active(frame', h) /\ frame'[g].cont = frame'[h].cont => g = h
    BY <1>0, <1>4, <1>6, SMTT(20) DEF Chained
  <2>4. \A g \in Roots : frame'[g].cont = None /\ (Active(frame', g) \/ frame'[g].st = "done")
    BY <1>0, <1>4, <1>6, SMTT(20) DEF Chained
  <2> QED BY <2>1, <2>2, <2>3, <2>4 DEF Chained
<1>9. Told(frame', seen')
  <2> SUFFICES ASSUME NEW g \in Tasks \union Async
               PROVE  /\ frame'[g].st \notin {"done", "destroyed"} => frame'[g].result = "none"
                      /\ frame'[g].st = "done" => seen[g] # << >> /\ seen[g][Len(seen[g])] = Final(g, frame'[g].result)
                      /\ g \in Async => /\ Len(seen[g]) >= frame'[g].value
                                        /\ frame'[g].st \notin {"done", "destroyed"} => Len(seen[g]) = frame'[g].value
                                        /\ \A i \in 1..frame'[g].value : seen[g][i] = C!Item(i)
    BY <1>1 DEF Told
  <2> QED BY <1>0, <1>4, <1>6 DEF Told
<1> QED BY <1>5, <1>7, <1>8, <1>9 DEF CoroutineInv, Sound

\* A range-for loop over a Generator, which is never on its way.
LEMMA PullKeeps == ASSUME CoroutineConstants, CoroutineInv, NEW x \in Slots, C!Pull(x) PROVE CoroutineInv'
<1>0. /\ None \notin C!Frames /\ C!Called \subseteq C!Frames /\ Roots \subseteq C!Frames /\ Tasks \union Async \subseteq C!Called
      /\ Sync \subseteq C!Called /\ (Tasks \union Async) \intersect Sync = {} /\ Roots \intersect C!Called = {}
      /\ CorType(frame, slot, running, ready, seen) /\ Owned(frame, slot)
      /\ Chained(frame, slot, running, ready) /\ Told(frame, seen)
      /\ frame \in [C!Frames -> Promises] /\ slot \in [Slots -> Objects] /\ seen \in [C!Called -> Seq(Outcomes)]
  BY CoroutineFacts
<1>1. PICK f \in Sync : f = slot[x].handle /\ frame[f].st \in {"created", "yielded"}
  BY DEF C!Pull
<1>2. UNCHANGED <<slot, running, ready>>
  BY DEF C!Pull
<1>3. f \in C!Called /\ f \in C!Frames /\ frame[f] \in Promises /\ frame[f].value \in Nat /\ ~Active(frame, f) /\ Living(frame, f)
  BY <1>0, <1>1 DEF Promises, Active, Living
<1>4. PICK q \in Promises, o \in Outcomes :
         /\ q.st \in {"yielded", "done"} /\ frame' = [frame EXCEPT ![f] = q]
         /\ seen' = [seen EXCEPT ![f] = Append(@, o)]
  <2>1. CASE /\ frame' = [frame EXCEPT ![f].st = "yielded", ![f].value = @ + 1]
             /\ seen' = [seen EXCEPT ![f] = Append(@, C!Item(frame[f].value + 1))]
    <3>1. PICK g, v : g = frame[f] /\ v = frame[f].value + 1
      OBVIOUS
    <3>2. g \in Promises /\ v \in Nat
      BY <1>3, <3>1
    <3>3. PICK q : q = [g EXCEPT !.st = "yielded", !.value = v]
      OBVIOUS
    <3>4. q \in Promises /\ q.st = "yielded"
      BY <3>2, <3>3 DEF Promises, FrameStates
    <3>5. frame' = [frame EXCEPT ![f] = q]
      BY <1>0, <1>3, <2>1, <3>1, <3>3
    <3>6. C!Item(frame[f].value + 1) \in Outcomes
      BY <1>3 DEF C!Item, Outcomes
    <3> QED BY <2>1, <3>4, <3>5, <3>6
  <2>2. CASE \E r \in {"value", "exception"} :
               /\ frame' = [frame EXCEPT ![f].st = "done", ![f].result = r]
               /\ seen' = [seen EXCEPT ![f] = Append(@, IF frame[f].st = "created" THEN C!BeginOutcome(r) ELSE C!NextIteration(r))]
    <3>1. PICK r \in {"value", "exception"} :
               /\ frame' = [frame EXCEPT ![f].st = "done", ![f].result = r]
               /\ seen' = [seen EXCEPT ![f] = Append(@, IF frame[f].st = "created" THEN C!BeginOutcome(r) ELSE C!NextIteration(r))]
      BY <2>2
    <3>2. PICK g : g = frame[f]
      OBVIOUS
    <3>3. PICK q : q = [g EXCEPT !.st = "done", !.result = r]
      OBVIOUS
    <3>4. q \in Promises /\ q.st = "done"
      BY <1>3, <3>2, <3>3 DEF Promises, FrameStates
    <3>5. frame' = [frame EXCEPT ![f] = q]
      BY <1>0, <1>3, <3>1, <3>2, <3>3
    <3>6. C!BeginOutcome(r) \in Outcomes /\ C!NextIteration(r) \in Outcomes
      BY DEF C!BeginOutcome, C!NextIteration, C!Ended, Outcomes
    <3> QED BY <3>1, <3>4, <3>5, <3>6
  <2> QED BY <1>1, <2>1, <2>2 DEF C!Pull
<1>5. /\ frame' \in [C!Frames -> Promises] /\ frame'[f] = q /\ \A g \in C!Frames : g # f => frame'[g] = frame[g]
  BY <1>0, <1>3, <1>4
<1>6. /\ seen' \in [C!Called -> Seq(Outcomes)] /\ \A g \in C!Called : g # f => seen'[g] = seen[g]
  <2>1. Append(seen[f], o) \in Seq(Outcomes)
    BY <1>0, <1>3, AppendProperties
  <2> QED BY <1>0, <1>3, <1>4, <2>1
<1>7. CorType(frame', slot', running', ready', seen')
  BY <1>0, <1>2, <1>5, <1>6 DEF CorType
<1>8. \A g \in C!Frames : (Living(frame', g) <=> Living(frame, g)) /\ (Active(frame', g) <=> Active(frame, g)) /\ (Active(frame', g) => g # f)
  BY <1>3, <1>4, <1>5 DEF Living, Active
<1>9. Owned(frame', slot')
  <2>1. \A g \in C!Frames : Living(frame', g) <=> Living(frame, g)
    BY <1>8
  <2>2. Owned(frame', slot)
    BY <1>0, <2>1 DEF Owned, Objects
  <2> QED BY <1>2, <2>2
<1>10. Chained(frame', slot', running', ready')
  <2>1. ASSUME NEW g \in C!Frames PROVE (frame'[g].st = "running" <=> running = g) /\ (frame'[g].st = "suspended" <=> g \in ready)
    <3>1. CASE g = f
      BY <1>0, <1>3, <1>4, <1>5, <3>1 DEF Chained, Active
    <3>2. CASE g # f
      BY <1>0, <1>5, <3>2 DEF Chained
    <3> QED BY <3>1, <3>2
  <2>2. ASSUME NEW g \in C!Called, Active(frame', g)
        PROVE  /\ g \in Tasks \union Async
               /\ frame'[g].cont \in C!Frames /\ frame'[frame'[g].cont].st = "awaiting"
               /\ \A z \in Slots : slot[z].handle = g => slot[z].in = frame'[g].cont
    <3>1. g # f /\ frame'[g] = frame[g] /\ Active(frame, g)
      BY <1>0, <1>5, <1>8, <2>2
    <3>2. frame[g].cont \in C!Frames /\ frame[frame[g].cont].st = "awaiting" /\ frame[g].cont # f
      BY <1>0, <1>3, <3>1 DEF Chained, Active
    <3>3. frame'[frame[g].cont] = frame[frame[g].cont]
      BY <1>5, <3>2
    <3> QED BY <1>0, <3>1, <3>2, <3>3, SMTT(20) DEF Chained
  <2>3. \A g, h \in C!Called : Active(frame', g) /\ Active(frame', h) /\ frame'[g].cont = frame'[h].cont => g = h
    BY <1>0, <1>5, <1>8 DEF Chained
  <2>4. \A g \in Roots : frame'[g].cont = None /\ (Active(frame', g) \/ frame'[g].st = "done")
    BY <1>0, <1>3, <1>5, <1>8, SMTT(20) DEF Chained
  <2> QED BY <1>2, <2>1, <2>2, <2>3, <2>4 DEF Chained
<1>11. Told(frame', seen')
  <2>1. \A g \in Tasks \union Async : frame'[g] = frame[g] /\ seen'[g] = seen[g]
    BY <1>0, <1>5, <1>6
  <2> QED BY <1>0, <2>1, SMTT(20) DEF Told
<1> QED BY <1>7, <1>9, <1>10, <1>11 DEF CoroutineInv, Sound

\* The invariant implies what the coroutine types promise.
LEMMA CoroutineInvSafe == ASSUME CoroutineConstants, CoroutineInv PROVE CoroutineSafe
<1>0. /\ None \notin C!Frames /\ C!Called \subseteq C!Frames /\ Tasks \union Async \subseteq C!Called
      /\ CorType(frame, slot, running, ready, seen) /\ Owned(frame, slot)
      /\ Chained(frame, slot, running, ready) /\ Told(frame, seen)
      /\ frame \in [C!Frames -> Promises] /\ slot \in [Slots -> Objects]
  BY CoroutineFacts
<1>1. ASSUME NEW f \in C!Called
      PROVE  /\ C!Alive(f) <=> C!Holder(f) # {}
             /\ \A x, y \in C!Holder(f) : x = y
             /\ \A x \in C!Holder(f) : C!Alive(slot[x].in)
  <2>1. C!Alive(f) <=> C!Holder(f) # {}
    BY <1>0 DEF C!Alive, C!Holder, Owned, Living
  <2>2. \A x, y \in C!Holder(f) : x = y
    BY <1>0, SMTT(20) DEF C!Holder, Owned
  <2>3. \A x \in C!Holder(f) : C!Alive(slot[x].in)
    BY <1>0 DEF C!Alive, C!Holder, Owned, Living
  <2> QED BY <2>1, <2>2, <2>3
<1>2. \A f \in ready : frame[f].st = "suspended"
  BY <1>0 DEF CorType, Chained
<1>3. \A f \in C!Called : frame[f].st \in {"running", "suspended", "awaiting"} => frame[frame[f].cont].st = "awaiting"
  BY <1>0 DEF Chained, Active
<1>4. C!OutcomeDelivered
  BY <1>0 DEF Told, C!OutcomeDelivered, C!Done, Final
<1> QED BY <1>1, <1>2, <1>3, <1>4 DEF CoroutineSafe, C!HandlesLive

\* For any coroutines and variables: every frame that was created and not destroyed is owned by one
\* Task or generator object in a frame that is still there, every handle that will be resumed is of
\* a coroutine suspended at that point, and an awaiting coroutine is told how the awaited one ended,
\* and gets what it yielded in order.
THEOREM CoroutineSafeHolds == ASSUME CoroutineConstants PROVE C!Spec => []CoroutineSafe
<1>1. C!Init => CoroutineInv
  BY CoroutineInit
<1>2. CoroutineInv /\ [C!Next]_(C!vars) => CoroutineInv'
  <2> SUFFICES ASSUME CoroutineInv, [C!Next]_(C!vars) PROVE CoroutineInv'
    OBVIOUS
  <2>1. CASE UNCHANGED C!vars
    BY <2>1 DEF C!vars, CoroutineInv
  <2>2. CASE C!Next
    <3>1. CASE C!Yield \/ C!Suspend
      BY <3>1, YieldKeeps, SwitchKeeps
    <3>2. CASE \E f \in C!Frames : C!Resume(f) \/ C!Ends(f)
      BY <3>2, SwitchKeeps, FinishKeeps DEF C!Ends
    <3>3. CASE \E x \in Slots : \/ C!Drop(x) \/ C!Await(x) \/ C!Pull(x)
                                \/ \E f \in C!Called : C!Call(x, f) \/ C!GiveTo(x, f)
                                \/ \E y \in Slots : C!MoveAssign(x, y)
      BY <3>3, DropKeeps, AwaitKeeps, PullKeeps, CallKeeps, GiveKeeps, MoveAssignKeeps
    <3> QED BY <2>2, <3>1, <3>2, <3>3 DEF C!Next
  <2> QED BY <2>1, <2>2
<1>3. CoroutineInv => CoroutineSafe
  BY CoroutineInvSafe
<1> QED BY <1>1, <1>2, <1>3, PTL DEF C!Spec
=============================================================================
