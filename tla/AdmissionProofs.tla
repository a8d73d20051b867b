--------------------------- MODULE AdmissionProofs ---------------------------
(* That no key passes twice within a window, that no minute sees twice the *)
(* limit, and that no suppressed message is counted twice or not at all,   *)
(* for any finite set of requests, any keys, window and limit.             *)
EXTENDS Admission, FiniteSetTheorems, TLAPS

(* A handler that has not asked yet has no age.                            *)
Fresh ==
    \A r \in Request : pc[r] = "new" =>
        outcome[r] = "none" /\ passedFor[r] = 0 /\ admittedFor[r] = 0

(* The deduplicator knows the key of whoever passed it within a window, as *)
(* of no longer ago.                                                       *)
KeyRemembered ==
    \A r \in Request : Passing(r) /\ passedFor[r] < Window =>
        seen[KeyOf[r]].known /\ seen[KeyOf[r]].age <= passedFor[r]

DupInv == TypeOK /\ Fresh /\ KeyRemembered

(* The window is forgotten later than it ends.                             *)
LEMMA ForgetAfterType == ForgetAfter \in Nat /\ Window \in Nat /\ Window <= ForgetAfter
  BY DeduperAssumption DEF ForgetAfter

(* What a key's record looks like.                                         *)
LEMMA RepeatFields ==
  ASSUME NEW x \in Repeat
  PROVE  x.known \in BOOLEAN /\ x.age \in 0..ForgetAfter + 1 /\ x.age \in Nat /\ x.swallowed \in Nat
<1>2. x.age \in 0..ForgetAfter + 1
  BY DEF Repeat
<1>3. x.swallowed \in Nat /\ x.known \in BOOLEAN
  BY DEF Repeat
<1> QED
  BY <1>2, <1>3, ForgetAfterType

(* One repeat more, and one unit of time more.                             *)
LEMMA Swallowed ==
  ASSUME NEW x \in Repeat
  PROVE  /\ [x EXCEPT !.swallowed = @ + 1] \in Repeat
         /\ [x EXCEPT !.swallowed = @ + 1].age = x.age
         /\ [x EXCEPT !.swallowed = @ + 1].known = x.known
  BY DEF Repeat

LEMMA Aged ==
  ASSUME NEW x \in Repeat, x.age <= ForgetAfter
  PROVE  /\ [x EXCEPT !.age = @ + 1] \in Repeat
         /\ [x EXCEPT !.age = @ + 1].age = x.age + 1
         /\ [x EXCEPT !.age = @ + 1].known = x.known
<1>2. x.age + 1 \in 0..ForgetAfter + 1
  BY RepeatFields, ForgetAfterType
<1> QED
  BY <1>2 DEF Repeat

(* What a key starts with, and what it has once it passed.                 *)
LEMMA UnknownType == Unknown \in Repeat /\ Passed \in Repeat
<1>1. 0 \in 0..ForgetAfter + 1
  BY ForgetAfterType
<1> QED
  BY <1>1 DEF Unknown, Passed, Repeat

LEMMA InitType == Init => TypeOK /\ Fresh
<1> USE AdmissionAssumption, DeduperAssumption, LimiterAssumption
<1> QED
  BY UnknownType DEF Init, TypeOK, Fresh, SeenInit, SeenTypeOK, LimitInit, LimitTypeOK

(* What eviction leaves of the deduplicator's memory.                      *)
LEMMA KeptType ==
  ASSUME SeenTypeOK
  PROVE  /\ Kept \in [Key -> Repeat]
         /\ \A k \in Key : seen[k].known /\ seen[k].age <= Window => Kept[k] = seen[k]
<1> USE DeduperAssumption
<1>1. Kept \in [Key -> Repeat]
  BY UnknownType DEF Kept, SeenTypeOK
<1>2. ASSUME NEW k \in Key, seen[k].known, seen[k].age <= Window PROVE Kept[k] = seen[k]
  <2>1. seen[k].age \in Nat
    BY RepeatFields DEF SeenTypeOK
  <2>2. ~(seen[k].age > ForgetAfter)
    BY <1>2, <2>1, ForgetAfterType
  <2> QED
    BY <2>2 DEF Kept, Quiet
<1> QED
  BY <1>1, <1>2

LEMMA TypeStep == TypeOK /\ Fresh /\ [Next]_vars => TypeOK' /\ Fresh'
<1> SUFFICES ASSUME TypeOK, Fresh, [Next]_vars PROVE TypeOK' /\ Fresh'
  OBVIOUS
<1> USE AdmissionAssumption, DeduperAssumption, LimiterAssumption
<1>0. \A r \in Request : KeyOf[r] \in Key
  OBVIOUS
<1>1. ASSUME NEW r \in Request, Duplicate(r) PROVE TypeOK' /\ Fresh'
  <2>1. SeenTypeOK'
    <3>1. Kept[KeyOf[r]] \in Repeat
      BY <1>0, KeptType DEF TypeOK
    <3>2. [Kept[KeyOf[r]] EXCEPT !.swallowed = @ + 1] \in Repeat
      BY <3>1, Swallowed
    <3> QED
      BY <1>0, <1>1, <3>2, KeptType DEF Duplicate, Swallow, SeenTypeOK, TypeOK
  <2>2. LimitTypeOK'
    BY <1>1 DEF Duplicate, TypeOK, LimitTypeOK, limitVars
  <2> QED
    BY <1>1, <2>1, <2>2 DEF Duplicate, Return, TypeOK, Fresh
<1>2. ASSUME NEW r \in Request, Unique(r) PROVE TypeOK' /\ Fresh'
  <2>1. SeenTypeOK' /\ Owed(KeyOf[r]) \in Nat
    <3>1. Kept[KeyOf[r]].swallowed \in Nat
      BY <1>0, KeptType, RepeatFields DEF TypeOK
    <3>2. Passed \in Repeat
      BY UnknownType
    <3> QED
      BY <1>0, <1>2, <3>1, <3>2, KeptType DEF Unique, Pass, Owed, SeenTypeOK, TypeOK
  <2>2. LimitTypeOK'
    BY <1>2 DEF Unique, TypeOK, LimitTypeOK, limitVars
  <2> QED
    BY <1>2, <2>1, <2>2 DEF Unique, TypeOK, Fresh
<1>3. ASSUME NEW r \in Request, OverLimit(r) PROVE TypeOK' /\ Fresh'
  <2>1. LimitTypeOK'
    BY <1>3 DEF OverLimit, Refuse, Roll, Used, Stale, TypeOK, LimitTypeOK
  <2> QED
    BY <1>3, <2>1 DEF OverLimit, Return, TypeOK, SeenTypeOK, Fresh
<1>4. ASSUME NEW r \in Request, WithinLimit(r) PROVE TypeOK' /\ Fresh'
  <2>1. LimitTypeOK' /\ Missed \in Nat
    BY <1>4 DEF WithinLimit, Admit, Roll, Used, Stale, Missed, TypeOK, LimitTypeOK
  <2> QED
    BY <1>4, <2>1 DEF WithinLimit, TypeOK, SeenTypeOK, Fresh
<1>5. ASSUME NEW r \in Request, Queue(r) PROVE TypeOK' /\ Fresh'
  BY <1>5 DEF Queue, Return, TypeOK, SeenTypeOK, LimitTypeOK, limitVars, Fresh
<1>6. CASE Tick
  <2>1. SeenTypeOK'
    <3>1. ASSUME NEW k \in Key PROVE seen'[k] \in Repeat
      BY <1>6, Aged DEF Tick, SeenTick, TypeOK, SeenTypeOK
    <3> QED
      BY <1>6, <3>1 DEF Tick, SeenTick, SeenTypeOK
  <2>2. LimitTypeOK'
    BY <1>6 DEF Tick, LimitTick, Stale, TypeOK, LimitTypeOK
  <2>3. passedFor' \in [Request -> 0..Window] /\ admittedFor' \in [Request -> 0..Minute]
    BY <1>6 DEF Tick, TypeOK
  <2>4. Fresh'
    BY <1>6 DEF Tick, Fresh, Passing, Admitted, TypeOK
  <2> QED
    BY <1>6, <2>1, <2>2, <2>3, <2>4 DEF Tick, TypeOK
<1>7. CASE UNCHANGED vars
  BY <1>7 DEF vars, limitVars, handlerVars, TypeOK, SeenTypeOK, LimitTypeOK, Fresh
<1> QED
  BY <1>1, <1>2, <1>3, <1>4, <1>5, <1>6, <1>7 DEF Next

-----------------------------------------------------------------------------
(* The deduplicator.                                                       *)

(* Who passes finds nobody of the key that did within the window.          *)
LEMMA PassIsAlone ==
  ASSUME DupInv, NEW r \in Request, Unique(r),
         NEW s \in Request, KeyOf[s] = KeyOf[r], Passing(s)
  PROVE  passedFor[s] >= Window
<1> USE AdmissionAssumption, DeduperAssumption
<1> SUFFICES ASSUME passedFor[s] < Window PROVE FALSE
  BY DEF DupInv, TypeOK
<1>1. /\ seen[KeyOf[r]].known /\ seen[KeyOf[r]].age <= passedFor[s]
      /\ passedFor[s] \in Nat /\ KeyOf[r] \in Key
  BY DEF DupInv, KeyRemembered, TypeOK
<1>2. seen[KeyOf[r]].age \in Nat
  BY <1>1, RepeatFields DEF DupInv, TypeOK, SeenTypeOK
<1>3. Kept[KeyOf[r]] = seen[KeyOf[r]]
  BY <1>1, <1>2, KeptType DEF DupInv, TypeOK
<1>4. Repeats(KeyOf[r])
  BY <1>1, <1>2, <1>3 DEF Repeats
<1> QED
  BY <1>4 DEF Unique, Pass

LEMMA RememberedStep == DupInv /\ [Next]_vars => KeyRemembered'
<1> SUFFICES ASSUME DupInv, [Next]_vars, NEW s \in Request,
                    Passing(s)', passedFor'[s] < Window
             PROVE  seen'[KeyOf[s]].known /\ seen'[KeyOf[s]].age <= passedFor'[s]
  BY DEF KeyRemembered
<1> USE AdmissionAssumption, DeduperAssumption
<1>0. /\ KeyOf[s] \in Key
      /\ Passing(s) /\ passedFor[s] < Window =>
            seen[KeyOf[s]].known /\ seen[KeyOf[s]].age <= passedFor[s]
      /\ passedFor[s] \in 0..Window
      /\ seen[KeyOf[s]] \in Repeat /\ seen[KeyOf[s]].age \in Nat
  BY RepeatFields DEF DupInv, KeyRemembered, TypeOK, SeenTypeOK
<1>1. ASSUME NEW r \in Request, Duplicate(r)
      PROVE  seen'[KeyOf[s]].known /\ seen'[KeyOf[s]].age <= passedFor'[s]
  <2>1. Passing(s) /\ passedFor'[s] = passedFor[s]
    BY <1>1 DEF Duplicate, Return, Passing, DupInv, TypeOK
  <2>2. Kept[KeyOf[s]] = seen[KeyOf[s]]
    BY <1>0, <2>1, KeptType DEF DupInv, TypeOK
  <2>3. seen'[KeyOf[s]].known = Kept[KeyOf[s]].known /\ seen'[KeyOf[s]].age = Kept[KeyOf[s]].age
    <3>1. Kept \in [Key -> Repeat]
      BY KeptType DEF DupInv, TypeOK
    <3>2. KeyOf[r] \in Key
      OBVIOUS
    <3> QED
      BY <1>0, <1>1, <3>1, <3>2, Swallowed DEF Duplicate, Swallow
  <2> QED
    BY <1>0, <2>1, <2>2, <2>3
<1>2. ASSUME NEW r \in Request, Unique(r)
      PROVE  seen'[KeyOf[s]].known /\ seen'[KeyOf[s]].age <= passedFor'[s]
  <2>0. passedFor'[s] = passedFor[s] /\ Window > 0
    BY <1>0, <1>2 DEF Unique
  <2>1. CASE KeyOf[s] = KeyOf[r]
    <3>1. seen'[KeyOf[s]] = Passed
      BY <1>0, <1>2, <2>0, <2>1 DEF Unique, Pass, Kept
    <3> QED
      BY <1>0, <2>0, <3>1 DEF Passed
  <2>2. CASE KeyOf[s] # KeyOf[r]
    <3>1. Passing(s)
      BY <1>2, <2>2 DEF Unique, Passing, DupInv, TypeOK
    <3>2. Kept[KeyOf[s]] = seen[KeyOf[s]]
      BY <1>0, <2>0, <3>1, KeptType DEF DupInv, TypeOK
    <3>3. seen'[KeyOf[s]] = Kept[KeyOf[s]]
      BY <1>0, <1>2, <2>0, <2>2 DEF Unique, Pass, Kept
    <3> QED
      BY <1>0, <2>0, <3>1, <3>2, <3>3
  <2> QED
    BY <2>1, <2>2
<1>3. ASSUME NEW r \in Request, OverLimit(r) \/ WithinLimit(r) \/ Queue(r)
      PROVE  seen'[KeyOf[s]].known /\ seen'[KeyOf[s]].age <= passedFor'[s]
  <2>1. Passing(s) /\ passedFor'[s] = passedFor[s] /\ seen' = seen
    BY <1>3 DEF OverLimit, WithinLimit, Queue, Return, Passing, DupInv, TypeOK
  <2> QED
    BY <1>0, <2>1
<1>4. CASE Tick
  <2>1. Passing(s)
    BY <1>4 DEF Tick, Passing
  <2>2. passedFor'[s] = passedFor[s] + 1 /\ passedFor[s] < Window
    BY <1>0, <1>4, <2>1 DEF Tick
  <2>3. seen'[KeyOf[s]].known /\ seen'[KeyOf[s]].age = seen[KeyOf[s]].age + 1
    <3>1. seen[KeyOf[s]].age <= ForgetAfter
      BY <1>0, <2>1, <2>2, ForgetAfterType
    <3>2. seen'[KeyOf[s]] = [seen[KeyOf[s]] EXCEPT !.age = @ + 1]
      BY <1>0, <1>4, <2>1, <2>2, <3>1 DEF Tick, SeenTick
    <3> QED
      BY <1>0, <2>1, <2>2, <3>1, <3>2, Aged
  <2> QED
    BY <1>0, <2>1, <2>2, <2>3
<1>5. CASE UNCHANGED vars
  BY <1>0, <1>5 DEF vars, handlerVars, Passing
<1> QED
  BY <1>1, <1>2, <1>3, <1>4, <1>5 DEF Next

LEMMA DupInvHolds == Spec => []DupInv
<1>1. Init => DupInv
  BY InitType DEF Init, DupInv, KeyRemembered, Passing
<1>2. DupInv /\ [Next]_vars => DupInv'
  BY TypeStep, RememberedStep DEF DupInv
<1> QED
  BY <1>1, <1>2, PTL DEF Spec

(* Every variable keeps its type, the counts among them.                   *)
THEOREM TypeCorrect == Spec => []TypeOK
<1>1. DupInv => TypeOK
  BY DEF DupInv
<1> QED
  BY <1>1, DupInvHolds, PTL

(* However many handlers race for a key, of two that pass the second does  *)
(* so a whole window later, through eviction and saturated clocks (Allow). *)
THEOREM PassesOncePerWindow == Spec => OncePerWindow
<1>1. DupInv /\ [Next]_vars =>
          [\A r, s \in Request :
              /\ pc[r] = "new" /\ pc'[r] = "unique"
              /\ s # r /\ KeyOf[s] = KeyOf[r] /\ Passing(s)
              => passedFor[s] >= Window]_vars
  <2> SUFFICES ASSUME DupInv, [Next]_vars, NEW r \in Request, NEW s \in Request,
                      pc[r] = "new", pc'[r] = "unique", KeyOf[s] = KeyOf[r], Passing(s)
               PROVE  passedFor[s] >= Window
    OBVIOUS
  <2>1. Unique(r)
    BY DEF Next, Duplicate, Unique, OverLimit, WithinLimit, Queue, Return, Tick, vars, handlerVars,
       DupInv, TypeOK
  <2> QED
    BY <2>1, PassIsAlone
<1> QED
  BY <1>1, DupInvHolds, PTL DEF Spec, OncePerWindow

-----------------------------------------------------------------------------
(* The rate cap.                                                           *)

(* The messages of the last minute, split where the window opened.         *)
InWindow == {r \in Request : Admitted(r) /\ admittedFor[r] < Minute /\ admittedFor[r] <= opened}
Before == {r \in Request : Admitted(r) /\ admittedFor[r] < Minute /\ admittedFor[r] > opened}

(* Who was not let through has no age, and asked once.                     *)
NotYet ==
    \A r \in Request : /\ pc[r] = "unique" => outcome[r] = "none"
                       /\ ~Admitted(r) => admittedFor[r] = 0

(* A window is opened by a message as old as it is, so by the time it ends *)
(* there is one less than the limit of it in the last minute.              *)
CapInv ==
    /\ TypeOK /\ Fresh /\ NotYet
    /\ IsFiniteSet(InWindow) /\ IsFiniteSet(Before)
    /\ Cardinality(Before) < Limit
    /\ opened < Minute =>
          /\ Cardinality(InWindow) <= sent
          /\ \E o \in Request : Admitted(o) /\ admittedFor[o] = opened
    /\ opened = Minute =>
          /\ Cardinality(InWindow) < Limit
          /\ \A r \in Request : Admitted(r) => admittedFor[r] > 0

(* A set within a finite one is finite and no larger.                      *)
LEMMA Within ==
  ASSUME NEW T, IsFiniteSet(T), NEW S \in SUBSET T
  PROVE  IsFiniteSet(S) /\ Cardinality(S) <= Cardinality(T)
         /\ Cardinality(S) \in Nat /\ Cardinality(T) \in Nat
  BY FS_Subset, FS_CardinalityType

LEMMA CapInit == Init => CapInv
<1> SUFFICES ASSUME Init PROVE CapInv
  OBVIOUS
<1>1. InWindow = {} /\ Before = {}
  BY DEF Init, InWindow, Before, Admitted
<1>2. NotYet /\ opened = Minute /\ \A r \in Request : ~Admitted(r)
  BY DEF Init, LimitInit, NotYet, Admitted
<1> QED
  BY <1>1, <1>2, InitType, FS_EmptySet, LimiterAssumption DEF CapInv

(* A step that admits nobody and leaves the window alone.                  *)
LEMMA CapFrame ==
  ASSUME CapInv, TypeOK', Fresh', NotYet', opened' = opened, sent' = sent,
         admittedFor' = admittedFor, \A r \in Request : Admitted(r)' = Admitted(r)
  PROVE  CapInv'
<1>1. InWindow' = InWindow /\ Before' = Before
  BY DEF InWindow, Before
<1> QED
  BY <1>1 DEF CapInv

LEMMA CapAdmit ==
  ASSUME CapInv, TypeOK', Fresh', NotYet', NEW r \in Request, WithinLimit(r)
  PROVE  CapInv'
<1> USE LimiterAssumption
<1>1. /\ ~Admitted(r) /\ admittedFor[r] = 0 /\ admittedFor' = admittedFor
      /\ Admitted(r)' /\ \A s \in Request \ {r} : Admitted(s)' = Admitted(s)
  BY DEF WithinLimit, Admitted, CapInv, NotYet, TypeOK
<1>2. opened \in 0..Minute /\ Minute \in Nat \ {0} /\ \A s \in Request : admittedFor[s] \in Nat
  BY DEF CapInv, TypeOK, LimitTypeOK
<1>3. CASE opened = Minute
  <2>1. opened' = 0 /\ sent' = 1
    BY <1>3 DEF WithinLimit, Admit, Roll, Used, Stale
  <2>2. InWindow' = {r} /\ Before' = InWindow
    BY <1>1, <1>2, <1>3, <2>1 DEF InWindow, Before, CapInv
  <2>3. IsFiniteSet({r}) /\ Cardinality({r}) = 1
    BY FS_Singleton
  <2>4. IsFiniteSet(InWindow) /\ Cardinality(InWindow) < Limit
    BY <1>3 DEF CapInv
  <2>5. admittedFor'[r] = opened'
    BY <1>1, <2>1
  <2> QED
    BY <1>1, <1>2, <2>1, <2>2, <2>3, <2>4, <2>5 DEF CapInv
<1>4. CASE opened < Minute
  <2>1. opened' = opened /\ sent' = sent + 1
    BY <1>2, <1>4 DEF WithinLimit, Admit, Roll, Used, Stale
  <2>2. InWindow' = InWindow \cup {r} /\ Before' = Before /\ r \notin InWindow
    BY <1>1, <1>2, <1>4, <2>1 DEF InWindow, Before
  <2>3. IsFiniteSet(InWindow) /\ IsFiniteSet(Before) /\ Cardinality(Before) < Limit
        /\ Cardinality(InWindow) <= sent /\ sent \in Nat
    BY <1>4 DEF CapInv, TypeOK, LimitTypeOK
  <2>4. IsFiniteSet(InWindow') /\ Cardinality(InWindow') = Cardinality(InWindow) + 1
        /\ Cardinality(InWindow) \in Nat
    BY <2>2, <2>3, FS_AddElement, FS_CardinalityType
  <2>5. Cardinality(InWindow') <= sent'
    BY <2>1, <2>3, <2>4
  <2>6. PICK o \in Request : Admitted(o) /\ admittedFor[o] = opened
    BY <1>4 DEF CapInv
  <2>7. Admitted(o)' /\ admittedFor'[o] = opened'
    BY <1>1, <2>1, <2>6
  <2> QED
    BY <1>4, <2>1, <2>2, <2>3, <2>4, <2>5, <2>7 DEF CapInv
<1> QED
  BY <1>2, <1>3, <1>4

LEMMA CapTick ==
  ASSUME CapInv, TypeOK', Fresh', NotYet', Tick
  PROVE  CapInv'
<1> USE LimiterAssumption
<1>1. /\ opened \in 0..Minute /\ Minute \in Nat \ {0} /\ sent' = sent
      /\ \A s \in Request : admittedFor[s] \in 0..Minute
      /\ \A s \in Request : Admitted(s)' = Admitted(s)
      /\ \A s \in Request : admittedFor'[s] = IF Admitted(s) /\ admittedFor[s] < Minute
                                              THEN admittedFor[s] + 1 ELSE admittedFor[s]
  BY DEF Tick, LimitTick, Admitted, CapInv, TypeOK, LimitTypeOK
<1>2. IsFiniteSet(InWindow) /\ IsFiniteSet(Before) /\ Cardinality(Before) < Limit
  BY DEF CapInv
<1>3. CASE opened = Minute
  <2>1. opened' = Minute
    BY <1>3 DEF Tick, LimitTick, Stale
  <2>2. InWindow' \in SUBSET InWindow /\ Before' = {}
    BY <1>1, <1>3, <2>1 DEF InWindow, Before
  <2>3. IsFiniteSet(InWindow') /\ Cardinality(InWindow') < Limit
    BY <1>2, <1>3, <2>2, Within DEF CapInv
  <2>4. \A s \in Request : Admitted(s)' => admittedFor'[s] > 0
    BY <1>1, <1>3 DEF CapInv
  <2> QED
    BY <1>1, <2>1, <2>2, <2>3, <2>4, FS_EmptySet DEF CapInv
<1>4. CASE opened < Minute
  <2>1. opened' = opened + 1
    BY <1>1, <1>4 DEF Tick, LimitTick, Stale
  <2>2. InWindow' \in SUBSET InWindow /\ Before' \in SUBSET Before
    BY <1>1, <1>4, <2>1 DEF InWindow, Before
  <2>3. /\ IsFiniteSet(InWindow') /\ Cardinality(InWindow') <= Cardinality(InWindow)
        /\ IsFiniteSet(Before') /\ Cardinality(Before') < Limit
        /\ Cardinality(InWindow) <= sent /\ sent \in 0..Limit
        /\ Cardinality(InWindow') \in Nat /\ Cardinality(InWindow) \in Nat
    BY <1>2, <1>4, <2>2, Within DEF CapInv, TypeOK, LimitTypeOK
  <2>4. PICK o \in Request : Admitted(o) /\ admittedFor[o] = opened
    BY <1>4 DEF CapInv
  <2>5. CASE opened + 1 < Minute
    <3>1. Admitted(o)' /\ admittedFor'[o] = opened'
      BY <1>1, <1>4, <2>1, <2>4
    <3> QED
      BY <1>1, <2>1, <2>3, <2>5, <3>1 DEF CapInv
  <2>6. CASE opened + 1 = Minute
    <3>1. o \in InWindow /\ InWindow' \in SUBSET (InWindow \ {o})
      BY <1>1, <1>4, <2>1, <2>4, <2>6 DEF InWindow
    <3>2. IsFiniteSet(InWindow \ {o}) /\ Cardinality(InWindow \ {o}) = Cardinality(InWindow) - 1
      BY <1>2, <3>1, FS_RemoveElement
    <3>3. Cardinality(InWindow') < Limit
      BY <2>3, <3>1, <3>2, Within
    <3>4. \A s \in Request : Admitted(s)' => admittedFor'[s] > 0
      BY <1>1
    <3> QED
      BY <1>1, <2>1, <2>3, <2>6, <3>3, <3>4 DEF CapInv
  <2> QED
    BY <1>1, <1>4, <2>5, <2>6
<1> QED
  BY <1>1, <1>3, <1>4

LEMMA CapStep == CapInv /\ [Next]_vars => CapInv'
<1> SUFFICES ASSUME CapInv, [Next]_vars PROVE CapInv'
  OBVIOUS
<1>1. TypeOK' /\ Fresh'
  BY TypeStep DEF CapInv
<1>2. ASSUME NEW r \in Request, Duplicate(r) \/ Unique(r) \/ OverLimit(r) \/ Queue(r)
      PROVE  CapInv'
  <2>1. /\ admittedFor' = admittedFor /\ NotYet'
        /\ \A s \in Request : Admitted(s)' = Admitted(s)
    BY <1>2 DEF Duplicate, Unique, OverLimit, Queue, Return, Admitted, NotYet, CapInv, TypeOK, Fresh
  <2>2. opened' = opened /\ sent' = sent
    BY <1>2, LimiterAssumption DEF Duplicate, Unique, OverLimit, Queue, limitVars, Refuse, Roll, Used,
       Stale
  <2> QED
    BY <1>1, <2>1, <2>2, CapFrame
<1>3. ASSUME NEW r \in Request, WithinLimit(r) PROVE CapInv'
  <2>1. NotYet'
    BY <1>3 DEF WithinLimit, NotYet, Admitted, CapInv, TypeOK
  <2> QED
    BY <1>1, <1>3, <2>1, CapAdmit
<1>4. CASE Tick
  <2>1. NotYet'
    BY <1>4 DEF Tick, NotYet, Admitted, CapInv, TypeOK
  <2> QED
    BY <1>1, <1>4, <2>1, CapTick
<1>5. CASE UNCHANGED vars
  <2>1. NotYet' /\ \A s \in Request : Admitted(s)' = Admitted(s)
    BY <1>5 DEF vars, handlerVars, NotYet, Admitted, CapInv
  <2> QED
    BY <1>1, <1>5, <2>1, CapFrame DEF vars, handlerVars, limitVars
<1> QED
  BY <1>2, <1>3, <1>4, <1>5 DEF Next

(* No minute sees twice the limit, wherever it lies to the windows (Allow). *)
THEOREM FewerThanTwice == Spec => []AlmostTwice
<1>1. CapInv => AlmostTwice
  <2> SUFFICES ASSUME CapInv PROVE AlmostTwice
    OBVIOUS
  <2> DEFINE Recent == {r \in Request : Admitted(r) /\ admittedFor[r] < Minute}
  <2>1. Recent = InWindow \cup Before
    BY LimiterAssumption DEF InWindow, Before, CapInv, TypeOK, LimitTypeOK
  <2>2. IsFiniteSet(InWindow) /\ IsFiniteSet(Before) /\ InWindow \cap Before = {}
    BY LimiterAssumption DEF InWindow, Before, CapInv, TypeOK, LimitTypeOK
  <2>3. Cardinality(InWindow) <= Limit /\ Cardinality(Before) < Limit
        /\ Cardinality(InWindow) \in Nat /\ Cardinality(Before) \in Nat
    BY <2>2, FS_CardinalityType, LimiterAssumption DEF CapInv, TypeOK, LimitTypeOK
  <2>4. Cardinality(InWindow \cup Before) = Cardinality(InWindow) + Cardinality(Before)
    BY <2>2, <2>3, FS_Union, FS_EmptySet
  <2>5. Cardinality(InWindow) + Cardinality(Before) < 2 * Limit
    BY <2>3, LimiterAssumption
  <2>6. Cardinality(Recent) < 2 * Limit
    BY <2>1, <2>4, <2>5
  <2> QED
    BY <2>6 DEF AlmostTwice
<1> QED
  BY <1>1, CapInit, CapStep, PTL DEF Spec

-----------------------------------------------------------------------------
(* The counts.                                                             *)

(* Induction over a finite set, in a form the provers can use: among the   *)
(* subsets that are bad there is one with nothing bad inside it.           *)
LEMMA Smallest ==
  ASSUME NEW S, IsFiniteSet(S), NEW Bad \in SUBSET (SUBSET S), Bad # {}
  PROVE  \E T \in Bad : \A U \in Bad : U \subseteq T => U = T
<1>1. IsWellFoundedOn(StrictSubsetOrdering(S), SUBSET S)
  BY FS_StrictSubsetOrderingWellFounded, FS_FiniteSubsetsOfFinite
<1>2. PICK T \in Bad : \A U \in Bad : ~(<<U, T>> \in StrictSubsetOrdering(S))
  BY <1>1, WFMin
<1> QED
  BY <1>2 DEF StrictSubsetOrdering

(* The sum of f over S, as something to count: for each x, f[x] pairs.     *)
Pairs(f, S) == UNION {{x} \X (1..f[x]) : x \in S}

(* Two sets with nothing in common.                                        *)
LEMMA Disjoint ==
  ASSUME NEW S, IsFiniteSet(S), NEW T, IsFiniteSet(T), S \cap T = {}
  PROVE  IsFiniteSet(S \cup T) /\ Cardinality(S \cup T) = Cardinality(S) + Cardinality(T)
         /\ Cardinality(S) \in Nat /\ Cardinality(T) \in Nat
<1>1. Cardinality(S \cap T) = 0 /\ Cardinality(S) \in Nat /\ Cardinality(T) \in Nat
  BY FS_EmptySet, FS_CardinalityType
<1>2. /\ IsFiniteSet(S \cup T)
      /\ Cardinality(S \cup T) = Cardinality(S) + Cardinality(T) - Cardinality(S \cap T)
  BY FS_Union, Zenon
<1> QED
  BY <1>1, <1>2

(* One element more adds what it stands for.                               *)
LEMMA PairsAdd ==
  ASSUME NEW S, NEW f, NEW x, x \notin S, f[x] \in Nat, IsFiniteSet(Pairs(f, S))
  PROVE  /\ IsFiniteSet(Pairs(f, S \cup {x}))
         /\ Cardinality(Pairs(f, S \cup {x})) = Cardinality(Pairs(f, S)) + f[x]
<1> DEFINE Row == {x} \X (1..f[x])
<1>1. Pairs(f, S \cup {x}) = Pairs(f, S) \cup Row /\ Pairs(f, S) \cap Row = {}
  BY DEF Pairs
<1>2. IsFiniteSet(1..f[x]) /\ Cardinality(1..f[x]) = f[x]
  BY FS_Interval
<1>3. IsFiniteSet({x}) /\ Cardinality({x}) = 1
  BY FS_Singleton
<1>4. IsFiniteSet(Row) /\ Cardinality(Row) = Cardinality({x}) * Cardinality(1..f[x])
  BY <1>2, <1>3, FS_Product
<1>5. Cardinality(Row) = f[x]
  BY <1>2, <1>3, <1>4
<1> HIDE DEF Row
<1> QED
  BY <1>1, <1>4, <1>5, Disjoint

(* There are finitely many pairs: a smallest set with infinitely many      *)
(* would have one element too many.                                        *)
LEMMA PairsFinite ==
  ASSUME NEW S, IsFiniteSet(S), NEW f, \A x \in S : f[x] \in Nat
  PROVE  IsFiniteSet(Pairs(f, S)) /\ Cardinality(Pairs(f, S)) \in Nat
<1> DEFINE Bad == {s \in SUBSET S : ~IsFiniteSet(Pairs(f, s))}
<1>1. SUFFICES Bad = {}
  BY FS_CardinalityType
<1>2. SUFFICES ASSUME Bad # {} PROVE FALSE
  OBVIOUS
<1>3. PICK s \in Bad : \A u \in Bad : u \subseteq s => u = s
  <2>1. Bad \in SUBSET (SUBSET S)
    OBVIOUS
  <2> HIDE DEF Bad
  <2> QED
    BY <1>2, <2>1, Smallest
<1>4. s # {}
  <2>1. Pairs(f, {}) = {}
    BY DEF Pairs
  <2> QED
    BY <2>1, FS_EmptySet
<1>5. PICK x : x \in s
  BY <1>4
<1>6. IsFiniteSet(Pairs(f, s \ {x}))
  BY <1>3, <1>5
<1>7. (s \ {x}) \cup {x} = s /\ f[x] \in Nat /\ x \notin s \ {x}
  BY <1>5
<1> QED
  BY <1>6, <1>7, PairsAdd

(* What the library's fold computes, whatever order it chooses: the count  *)
(* of the pairs solves its equation, and two solutions agree, since a      *)
(* smallest set on which they differ would be an element more than one     *)
(* where they do.                                                          *)
LEMMA SumIsPairs ==
  ASSUME NEW S, IsFiniteSet(S), NEW f, \A x \in S : f[x] \in Nat
  PROVE  MapThenSumSet(LAMBDA x : f[x], S) = Cardinality(Pairs(f, S))
<1> DEFINE Pick(s) == CHOOSE x \in s : TRUE
           Eq(g) == g = [s \in SUBSET S |-> IF s = {} THEN 0 ELSE f[Pick(s)] + g[s \ {Pick(s)}]]
           Count == [s \in SUBSET S |-> Cardinality(Pairs(f, s))]
           iter == CHOOSE g : Eq(g)
<1>1. MapThenSumSet(LAMBDA x : f[x], S) = iter[S]
  BY DEF MapThenSumSet, MapThenFoldSet
<1>2. ASSUME NEW s \in SUBSET S, s # {}
      PROVE  /\ Pick(s) \in s /\ s \ {Pick(s)} \in SUBSET S
             /\ Cardinality(Pairs(f, s)) = f[Pick(s)] + Cardinality(Pairs(f, s \ {Pick(s)}))
  <2>1. Pick(s) \in s
    BY <1>2
  <2> HIDE DEF Pick
  <2>2. IsFiniteSet(s \ {Pick(s)}) /\ \A x \in s \ {Pick(s)} : f[x] \in Nat
    BY FS_Subset
  <2>3. IsFiniteSet(Pairs(f, s \ {Pick(s)})) /\ Cardinality(Pairs(f, s \ {Pick(s)})) \in Nat
    BY <2>2, PairsFinite
  <2>4. (s \ {Pick(s)}) \cup {Pick(s)} = s /\ f[Pick(s)] \in Nat
    BY <2>1
  <2>5. Cardinality(Pairs(f, s)) = Cardinality(Pairs(f, s \ {Pick(s)})) + f[Pick(s)]
    <3>1. Pick(s) \notin s \ {Pick(s)}
      OBVIOUS
    <3>2. Cardinality(Pairs(f, (s \ {Pick(s)}) \cup {Pick(s)}))
              = Cardinality(Pairs(f, s \ {Pick(s)})) + f[Pick(s)]
      BY <2>3, <2>4, <3>1, PairsAdd, Zenon
    <3> QED
      BY <2>4, <3>2
  <2> QED
    BY <2>1, <2>3, <2>4, <2>5
<1>3. Cardinality(Pairs(f, {})) = 0
  BY FS_EmptySet DEF Pairs
<1>4. Eq(Count)
  <2> HIDE DEF Pick
  <2>1. ASSUME NEW s \in SUBSET S
        PROVE  Count[s] = IF s = {} THEN 0 ELSE f[Pick(s)] + Count[s \ {Pick(s)}]
    BY <1>2, <1>3
  <2> HIDE DEF Count
  <2>2. Count = [s \in SUBSET S |-> Count[s]]
    BY DEF Count
  <2> QED
    BY <2>1, <2>2
<1>5. Eq(iter)
  <2> HIDE DEF Eq
  <2> QED
    BY <1>4
<1>6. \A s \in SUBSET S : iter[s] = Count[s]
  <2> DEFINE Bad == {s \in SUBSET S : iter[s] # Count[s]}
  <2> SUFFICES ASSUME Bad # {} PROVE FALSE
    OBVIOUS
  <2>1. PICK s \in Bad : \A u \in Bad : u \subseteq s => u = s
    <3>1. Bad \in SUBSET (SUBSET S)
      OBVIOUS
    <3> HIDE DEF Bad
    <3> QED
      BY <3>1, Smallest
  <2> HIDE DEF Pick, iter
  <2>2. \A u \in SUBSET S : iter[u] = IF u = {} THEN 0 ELSE f[Pick(u)] + iter[u \ {Pick(u)}]
    BY <1>5
  <2>3. s # {}
    BY <1>3, <2>2
  <2>4. Pick(s) \in s /\ s \ {Pick(s)} \in SUBSET S
    BY <1>2, <2>3
  <2>5. iter[s \ {Pick(s)}] = Count[s \ {Pick(s)}]
    <3> HIDE DEF Count
    <3> QED
      BY <2>1, <2>4
  <2>6. Count[s] = f[Pick(s)] + Count[s \ {Pick(s)}]
    BY <1>2, <2>3, <2>4
  <2> QED
    BY <2>2, <2>3, <2>5, <2>6
<1> QED
  BY <1>1, <1>6

(* The sum the properties of Admission take.                               *)
Sum(f, S) == MapThenSumSet(LAMBDA x : f[x], S)

(* The sum is the count of the pairs.                                      *)
LEMMA SumOf ==
  ASSUME NEW S, IsFiniteSet(S), NEW f, \A x \in S : f[x] \in Nat
  PROVE  Sum(f, S) = Cardinality(Pairs(f, S)) /\ Sum(f, S) \in Nat
<1>1. Sum(f, S) = Cardinality(Pairs(f, S))
  BY SumIsPairs, Zenon DEF Sum
<1> QED
  BY <1>1, PairsFinite

(* It depends on the numbers alone.                                        *)
LEMMA SumAlike ==
  ASSUME NEW S, IsFiniteSet(S), NEW f, NEW g, \A x \in S : f[x] \in Nat /\ g[x] = f[x]
  PROVE  Sum(g, S) = Sum(f, S)
<1>1. Pairs(g, S) = Pairs(f, S)
  BY DEF Pairs
<1>2. \A x \in S : f[x] \in Nat /\ g[x] \in Nat
  OBVIOUS
<1> QED
  BY <1>1, <1>2, SumOf

(* It grows by what a zero is raised to.                                   *)
LEMMA SumRaised ==
  ASSUME NEW S, IsFiniteSet(S), NEW f, NEW g, NEW x \in S,
         f[x] = 0, \A y \in S : f[y] \in Nat /\ g[y] \in Nat,
         \A y \in S \ {x} : g[y] = f[y]
  PROVE  Sum(g, S) = Sum(f, S) + g[x]
<1>1. IsFiniteSet(S \ {x}) /\ x \notin S \ {x} /\ (S \ {x}) \cup {x} = S
  BY FS_RemoveElement
<1>2. Pairs(g, S \ {x}) = Pairs(f, S \ {x}) /\ IsFiniteSet(Pairs(f, S \ {x}))
      /\ Cardinality(Pairs(f, S \ {x})) \in Nat
  <2>1. \A y \in S \ {x} : f[y] \in Nat
    OBVIOUS
  <2> QED
    BY <1>1, <2>1, PairsFinite DEF Pairs
<1>3. Cardinality(Pairs(g, S)) = Cardinality(Pairs(g, S \ {x})) + g[x]
  <2>1. Cardinality(Pairs(g, (S \ {x}) \cup {x})) = Cardinality(Pairs(g, S \ {x})) + g[x]
    BY <1>1, <1>2, PairsAdd
  <2> QED
    BY <1>1, <2>1
<1>4. Cardinality(Pairs(f, S)) = Cardinality(Pairs(f, S \ {x})) + f[x]
  <2>1. Cardinality(Pairs(f, (S \ {x}) \cup {x})) = Cardinality(Pairs(f, S \ {x})) + f[x]
    BY <1>1, <1>2, PairsAdd
  <2> QED
    BY <1>1, <2>1
<1>5. Sum(g, S) = Cardinality(Pairs(g, S)) /\ Sum(f, S) = Cardinality(Pairs(f, S))
  BY SumOf
<1> QED
  BY <1>2, <1>3, <1>4, <1>5

(* The requests for a key.                                                 *)
Of(k) == {r \in Request : KeyOf[r] = k}

(* The two properties with the sum under its name.                         *)
RepeatsHanded == \A k \in Key : Cardinality(With("duplicate", k)) = seen[k].swallowed + Sum(dupNote, Of(k))

RefusalsHanded == Cardinality({r \in Request : outcome[r] = "rate"}) = suppressed + Sum(rateNote, Request)

LEMMA SameCounts == (RepeatsHanded <=> RepeatsCounted) /\ (RefusalsHanded <=> RefusalsCounted)
  BY DEF RepeatsHanded, RepeatsCounted, RefusalsHanded, RefusalsCounted, Sum, Of

(* Who has not been let through owes nothing yet, and nobody returns twice. *)
Clean ==
    \A r \in Request : /\ pc[r] # "done" => outcome[r] = "none"
                       /\ pc[r] = "new" => dupNote[r] = 0
                       /\ pc[r] \in {"new", "unique"} => rateNote[r] = 0

CountInv == TypeOK /\ Fresh /\ Clean /\ RepeatsHanded /\ RefusalsHanded

(* A key has finitely many requests.                                       *)
LEMMA OfFinite == \A k \in Key : Of(k) \in SUBSET Request /\ IsFiniteSet(Of(k))
  BY RequestAssumption, FS_Subset DEF Of

LEMMA CountInit == Init => CountInv
<1> SUFFICES ASSUME Init PROVE CountInv
  OBVIOUS
<1>1. TypeOK /\ Fresh /\ Clean
  BY InitType DEF Init, Clean
<1>2. \A S : (IsFiniteSet(S) /\ S \subseteq Request) => Sum(dupNote, S) = 0 /\ Sum(rateNote, S) = 0
  <2> SUFFICES ASSUME NEW S, IsFiniteSet(S), S \subseteq Request
               PROVE  Sum(dupNote, S) = 0 /\ Sum(rateNote, S) = 0
    OBVIOUS
  <2>1. Pairs(dupNote, S) = {} /\ Pairs(rateNote, S) = {}
    BY DEF Pairs, Init
  <2>2. \A x \in S : dupNote[x] \in Nat /\ rateNote[x] \in Nat
    BY DEF Init
  <2>3. Sum(dupNote, S) = Cardinality(Pairs(dupNote, S)) /\ Sum(rateNote, S) = Cardinality(Pairs(rateNote, S))
    BY <2>2, SumOf
  <2> QED
    BY <2>1, <2>3, FS_EmptySet
<1>3. RepeatsHanded
  <2> SUFFICES ASSUME NEW k \in Key
               PROVE  Cardinality(With("duplicate", k)) = seen[k].swallowed + Sum(dupNote, Of(k))
    BY DEF RepeatsHanded
  <2>1. With("duplicate", k) = {}
    BY DEF With, Init
  <2>2. seen[k].swallowed = 0
    BY DEF Init, SeenInit, Unknown
  <2>3. Sum(dupNote, Of(k)) = 0
    BY <1>2, OfFinite
  <2> QED
    BY <2>1, <2>2, <2>3, FS_EmptySet
<1>4. RefusalsHanded
  <2>1. {r \in Request : outcome[r] = "rate"} = {} /\ suppressed = 0
    BY DEF Init, LimitInit
  <2>2. Sum(rateNote, Request) = 0
    BY <1>2, RequestAssumption
  <2> QED
    BY <2>1, <2>2, FS_EmptySet DEF RefusalsHanded
<1> QED
  BY <1>1, <1>3, <1>4 DEF CountInv

(* Eviction takes nothing that is owed.                                    *)
LEMMA KeptCount == \A k \in Key : Kept[k].swallowed = seen[k].swallowed
  BY DEF Kept, Quiet, Unknown

LEMMA CleanStep == TypeOK /\ Fresh /\ Clean /\ [Next]_vars => Clean'
<1> SUFFICES ASSUME TypeOK, Fresh, Clean, [Next]_vars PROVE Clean'
  OBVIOUS
<1>1. ASSUME NEW r \in Request, Duplicate(r) \/ Unique(r) \/ OverLimit(r) \/ WithinLimit(r) \/ Queue(r)
      PROVE  Clean'
  BY <1>1 DEF Duplicate, Unique, OverLimit, WithinLimit, Queue, Return, TypeOK, Clean
<1>2. CASE Tick
  BY <1>2 DEF Tick, Clean
<1>3. CASE UNCHANGED vars
  BY <1>3 DEF vars, handlerVars, Clean
<1> QED
  BY <1>1, <1>2, <1>3 DEF Next

(* One who returns joins those who did.                                    *)
LEMMA Joins ==
  ASSUME NEW S \in SUBSET Request, NEW r \in Request, r \notin S
  PROVE  Cardinality(S \cup {r}) = Cardinality(S) + 1 /\ Cardinality(S) \in Nat
  BY RequestAssumption, FS_Subset, FS_AddElement, FS_CardinalityType

LEMMA RepeatsStep == CountInv /\ [Next]_vars => RepeatsHanded'
<1> SUFFICES ASSUME CountInv, [Next]_vars, NEW k \in Key
             PROVE  Cardinality(With("duplicate", k)') = seen'[k].swallowed + Sum(dupNote', Of(k))
  BY DEF RepeatsHanded, Of
<1> USE AdmissionAssumption, DeduperAssumption
<1>0. /\ Cardinality(With("duplicate", k)) = seen[k].swallowed + Sum(dupNote, Of(k))
      /\ seen[k].swallowed \in Nat /\ Sum(dupNote, Of(k)) \in Nat
      /\ Kept \in [Key -> Repeat] /\ Kept[k].swallowed = seen[k].swallowed
      /\ \A r \in Of(k) : dupNote[r] \in Nat
  <2>1. \A r \in Of(k) : dupNote[r] \in Nat
    BY DEF Of, CountInv, TypeOK
  <2> QED
    BY <2>1, OfFinite, SumOf, KeptType, KeptCount, RepeatFields
    DEF CountInv, RepeatsHanded, TypeOK, SeenTypeOK
<1>1. ASSUME NEW r \in Request, Duplicate(r)
      PROVE  Cardinality(With("duplicate", k)') = seen'[k].swallowed + Sum(dupNote', Of(k))
  <2>1. dupNote' = dupNote /\ outcome' = [outcome EXCEPT ![r] = "duplicate"] /\ outcome[r] = "none"
    BY <1>1 DEF Duplicate, Return, CountInv, Fresh
  <2>2. CASE KeyOf[r] = k
    <3>1. With("duplicate", k)' = With("duplicate", k) \cup {r} /\ r \notin With("duplicate", k)
      BY <2>1, <2>2 DEF With, CountInv, TypeOK
    <3>2. Cardinality(With("duplicate", k)') = Cardinality(With("duplicate", k)) + 1
      BY <3>1, Joins DEF With
    <3>3. seen'[k].swallowed = Kept[k].swallowed + 1
      <4>1. seen'[k] = [Kept[k] EXCEPT !.swallowed = @ + 1] /\ Kept[k] \in Repeat
        BY <1>0, <1>1, <2>2 DEF Duplicate, Swallow
      <4> QED
        BY <4>1 DEF Repeat
    <3> QED
      BY <1>0, <2>1, <3>2, <3>3
  <2>3. CASE KeyOf[r] # k
    <3>1. With("duplicate", k)' = With("duplicate", k)
      BY <2>1, <2>3 DEF With, CountInv, TypeOK
    <3>2. seen'[k] = Kept[k]
      BY <1>0, <1>1, <2>3 DEF Duplicate, Swallow
    <3> QED
      BY <1>0, <2>1, <3>1, <3>2
  <2> QED
    BY <2>2, <2>3
<1>2. ASSUME NEW r \in Request, Unique(r)
      PROVE  Cardinality(With("duplicate", k)') = seen'[k].swallowed + Sum(dupNote', Of(k))
  <2>1. With("duplicate", k)' = With("duplicate", k)
    BY <1>2 DEF Unique, With
  <2>2. dupNote' = [dupNote EXCEPT ![r] = Owed(KeyOf[r])] /\ dupNote \in [Request -> Nat] /\ dupNote[r] = 0
    BY <1>2 DEF Unique, CountInv, TypeOK, Clean
  <2>3. CASE KeyOf[r] = k
    <3>1. Owed(k) \in Nat /\ seen'[k].swallowed + Owed(k) = seen[k].swallowed
      BY <1>0, <1>2, <2>3 DEF Unique, Pass, Owed, Passed, Repeat
    <3>2. r \in Of(k) /\ dupNote'[r] = Owed(k)
      BY <2>2, <2>3 DEF Of
    <3>3. /\ \A y \in Of(k) : dupNote[y] \in Nat /\ dupNote'[y] \in Nat
          /\ \A y \in Of(k) \ {r} : dupNote'[y] = dupNote[y]
          /\ dupNote[r] = 0 /\ IsFiniteSet(Of(k))
      BY <2>2, <2>3, <3>1, OfFinite DEF Of
    <3>4. Sum(dupNote', Of(k)) = Sum(dupNote, Of(k)) + dupNote'[r]
      BY <3>2, <3>3, SumRaised
    <3>5. seen'[k].swallowed \in Nat
      BY <1>0, <1>2, <2>3 DEF Unique, Pass, Passed
    <3> QED
      BY <1>0, <2>1, <3>1, <3>2, <3>4, <3>5
  <2>4. CASE KeyOf[r] # k
    <3>1. seen'[k].swallowed = seen[k].swallowed
      BY <1>0, <1>2, <2>4 DEF Unique, Pass
    <3>2. \A y \in Of(k) : dupNote'[y] = dupNote[y]
      BY <2>2, <2>4 DEF Of
    <3>3. Sum(dupNote', Of(k)) = Sum(dupNote, Of(k))
      BY <1>0, <3>2, OfFinite, SumAlike
    <3> QED
      BY <1>0, <2>1, <3>1, <3>3
  <2> QED
    BY <2>3, <2>4
<1>3. ASSUME NEW r \in Request, OverLimit(r) \/ WithinLimit(r) \/ Queue(r)
      PROVE  Cardinality(With("duplicate", k)') = seen'[k].swallowed + Sum(dupNote', Of(k))
  <2>1. With("duplicate", k)' = With("duplicate", k) /\ seen' = seen /\ dupNote' = dupNote
    BY <1>3 DEF OverLimit, WithinLimit, Queue, Return, With, CountInv, TypeOK, Clean
  <2> QED
    BY <1>0, <2>1
<1>4. CASE Tick
  <2>1. With("duplicate", k)' = With("duplicate", k) /\ dupNote' = dupNote
    BY <1>4 DEF Tick, With
  <2>2. seen'[k].swallowed = seen[k].swallowed
    <3>1. seen[k] \in Repeat
      BY DEF CountInv, TypeOK, SeenTypeOK
    <3> QED
      BY <1>4, <3>1 DEF Tick, SeenTick, Repeat
  <2> QED
    BY <1>0, <2>1, <2>2
<1>5. CASE UNCHANGED vars
  BY <1>0, <1>5 DEF vars, handlerVars, With
<1> QED
  BY <1>1, <1>2, <1>3, <1>4, <1>5 DEF Next

LEMMA RefusalsStep == CountInv /\ [Next]_vars => RefusalsHanded'
<1> DEFINE Refused == {r \in Request : outcome[r] = "rate"}
<1> SUFFICES ASSUME CountInv, [Next]_vars
             PROVE  Cardinality(Refused') = suppressed' + Sum(rateNote', Request)
  BY DEF RefusalsHanded
<1>0. /\ Cardinality(Refused) = suppressed + Sum(rateNote, Request)
      /\ suppressed \in Nat /\ rateNote \in [Request -> Nat]
      /\ Sum(rateNote, Request) \in Nat
  <2>1. \A r \in Request : rateNote[r] \in Nat
    BY DEF CountInv, TypeOK
  <2> QED
    BY <2>1, RequestAssumption, SumOf DEF CountInv, RefusalsHanded, TypeOK, LimitTypeOK
<1>1. ASSUME NEW r \in Request, OverLimit(r)
      PROVE  Cardinality(Refused') = suppressed' + Sum(rateNote', Request)
  <2>1. Refused' = Refused \cup {r} /\ r \notin Refused
    BY <1>1 DEF OverLimit, Return, CountInv, TypeOK, Clean
  <2>2. Cardinality(Refused') = Cardinality(Refused) + 1
    BY <2>1, Joins
  <2>3. suppressed' = suppressed + 1 /\ rateNote' = rateNote
    BY <1>1 DEF OverLimit, Refuse
  <2> QED
    BY <1>0, <2>2, <2>3
<1>2. ASSUME NEW r \in Request, WithinLimit(r)
      PROVE  Cardinality(Refused') = suppressed' + Sum(rateNote', Request)
  <2>1. Refused' = Refused /\ suppressed' = 0 /\ rateNote' = [rateNote EXCEPT ![r] = suppressed]
        /\ rateNote[r] = 0
    BY <1>2 DEF WithinLimit, Admit, Missed, CountInv, Clean
  <2>2. Sum(rateNote', Request) = Sum(rateNote, Request) + rateNote'[r]
    <3>1. \A y \in Request : rateNote[y] \in Nat /\ rateNote'[y] \in Nat
      BY <1>0, <2>1
    <3>2. (\A y \in Request \ {r} : rateNote'[y] = rateNote[y]) /\ rateNote[r] = 0
      BY <1>0, <2>1
    <3> QED
      BY <3>1, <3>2, RequestAssumption, SumRaised
  <2>3. rateNote'[r] = suppressed
    BY <1>0, <2>1
  <2> HIDE DEF Refused
  <2> QED
    BY <1>0, <2>1, <2>2, <2>3
<1>3. ASSUME NEW r \in Request, Duplicate(r) \/ Unique(r) \/ Queue(r)
      PROVE  Cardinality(Refused') = suppressed' + Sum(rateNote', Request)
  <2>1. Refused' = Refused /\ suppressed' = suppressed /\ rateNote' = rateNote
    BY <1>3 DEF Duplicate, Unique, Queue, Return, limitVars, CountInv, TypeOK, Fresh, Clean
  <2> QED
    BY <1>0, <2>1
<1>4. CASE Tick
  BY <1>0, <1>4 DEF Tick, LimitTick
<1>5. CASE UNCHANGED vars
  BY <1>0, <1>5 DEF vars, handlerVars, limitVars
<1> QED
  BY <1>1, <1>2, <1>3, <1>4, <1>5 DEF Next

LEMMA CountInvHolds == Spec => []CountInv
<1>1. CountInv /\ [Next]_vars => CountInv'
  BY TypeStep, CleanStep, RepeatsStep, RefusalsStep DEF CountInv
<1> QED
  BY <1>1, CountInit, PTL DEF Spec

(* Every repeat is handed on exactly once or still waits, however handlers *)
(* race and whatever eviction forgets (Allow, evictLocked).                *)
THEOREM RepeatsCountedAlways == Spec => []RepeatsCounted
<1>1. CountInv => RepeatsCounted
  BY SameCounts DEF CountInv
<1> QED
  BY <1>1, CountInvHolds, PTL

(* And every refusal, over any number of windows (Limiter.Allow).          *)
THEOREM RefusalsCountedAlways == Spec => []RefusalsCounted
<1>1. CountInv => RefusalsCounted
  BY SameCounts DEF CountInv
<1> QED
  BY <1>1, CountInvHolds, PTL
=============================================================================
