---------------------------- MODULE TableProofs ----------------------------
(***************************************************************************)
(* What the steps of Table do to the calls and to the plans, for the       *)
(* proofs about the modules over it.                                       *)
(***************************************************************************)
EXTENDS Table, SequenceTheorems, TLAPS

\* A sequence, of whatever its elements are.
Sequence(s) == s \in Seq({s[i] : i \in DOMAIN s})

\* The writes a plan still has to make.
Planned(todo) == UNION {todo[i] : i \in DOMAIN todo}

\* A plan writes every key once.
Distinct(todo) ==
    \A i, j \in DOMAIN todo : \A x \in todo[i], y \in todo[j] :
        x.key = y.key => i = j /\ x = y

Shaped(k) == k = [op |-> k.op, at |-> k.at, id |-> k.id, on |-> k.on,
                  arg |-> k.arg, todo |-> k.todo]

\* What each worker is doing is a call.
CallsOK ==
    /\ call = [w \in Worker |-> call[w]]
    /\ \A w \in Worker :
          /\ Shaped(call[w])
          /\ Sequence(call[w].todo)
          /\ call[w].op = "idle" => call[w] = Idle

\* A plan after one of its next writes.
Rest(todo, x) ==
    IF Head(todo) \ {x} = {} THEN Tail(todo) ELSE <<Head(todo) \ {x}>> \o Tail(todo)

-----------------------------------------------------------------------------
(* Plans.                                                                  *)

LEMMA NoPlan ==
    Sequence(<<>>) /\ Distinct(<<>>) /\ Planned(<<>>) = {}
BY DEF Sequence, Distinct, Planned

LEMMA OneSet ==
    ASSUME NEW S
    PROVE  Sequence(<<S>>) /\ Planned(<<S>>) = S /\ <<S>> # <<>> /\ Head(<<S>>) = S
<1>1. <<S>> \in Seq({S}) OBVIOUS
<1>2. DOMAIN <<S>> = {1} /\ <<S>>[1] = S OBVIOUS
<1>3. {<<S>>[i] : i \in DOMAIN <<S>>} = {S} BY <1>2
<1> QED BY <1>1, <1>3 DEF Sequence, Planned

LEMMA SequenceOf ==
    ASSUME NEW R, NEW s \in Seq(R)
    PROVE  Sequence(s)
<1> DEFINE Q == {s[i] : i \in DOMAIN s}
<1>1. Len(s) \in Nat /\ DOMAIN s = 1..Len(s) OBVIOUS
<1>2. s \in [1..Len(s) -> Q] BY <1>1
<1>3. s \in Seq(Q) BY SMTT(30), <1>1, <1>2, SeqDef
<1> QED BY <1>3 DEF Sequence

LEMMA SetsOf ==
    ASSUME NEW s, Sequence(s)
    PROVE  /\ Len(s) \in Nat /\ DOMAIN s = 1..Len(s)
           /\ s # <<>> => Len(s) # 0 /\ Head(s) = s[1] /\ 1 \in DOMAIN s
BY DEF Sequence

LEMMA Ended ==
    ASSUME NEW s, Sequence(s)
    PROVE  s # <<>> /\ (\A i \in DOMAIN s : s[i] # {}) => Planned(s) # {}
BY SetsOf DEF Planned

LEMMA Concat ==
    ASSUME NEW s, NEW t, Sequence(s), Sequence(t)
    PROVE  /\ Sequence(s \o t)
           /\ Planned(s \o t) = Planned(s) \cup Planned(t)
           /\ s # <<>> => s \o t # <<>> /\ Head(s \o t) = Head(s)
           /\ (/\ Distinct(s) /\ Distinct(t)
               /\ \A x \in Planned(s), y \in Planned(t) : x.key # y.key)
              => Distinct(s \o t)
<1> DEFINE R == {s[i] : i \in DOMAIN s} \cup {t[i] : i \in DOMAIN t}
           u == s \o t
<1>1. s \in Seq(R) /\ t \in Seq(R) BY DEF Sequence
<1> HIDE DEF R
<1>2. u \in Seq(R) /\ Len(u) = Len(s) + Len(t) BY <1>1
<1>3. Len(s) \in Nat /\ Len(t) \in Nat /\ DOMAIN s = 1..Len(s) /\ DOMAIN t = 1..Len(t)
      /\ DOMAIN u = 1..Len(u)
  BY <1>1, <1>2
<1>4. \A i \in DOMAIN u : u[i] = IF i \in DOMAIN s THEN s[i] ELSE t[i - Len(s)]
  BY <1>1, <1>3
<1>5. \A i \in DOMAIN s : i \in DOMAIN u /\ u[i] = s[i]
  BY <1>2, <1>3, <1>4
<1>6. \A i \in DOMAIN t : i + Len(s) \in DOMAIN u /\ u[i + Len(s)] = t[i]
  BY <1>2, <1>3, <1>4
<1>7. \A i \in DOMAIN u : i \in DOMAIN s \/ (i - Len(s)) \in DOMAIN t
  BY <1>2, <1>3
<1> HIDE DEF u
<1>8. Sequence(u) BY <1>2, SequenceOf
<1>9. Planned(u) = Planned(s) \cup Planned(t)
  BY <1>4, <1>5, <1>6, <1>7 DEF Planned
<1>10. s # <<>> => u # <<>> /\ Head(u) = Head(s)
  BY <1>1, <1>2, <1>3, <1>5
<1>11. ASSUME Distinct(s), Distinct(t),
              \A x \in Planned(s), y \in Planned(t) : x.key # y.key
       PROVE  Distinct(u)
  <2> SUFFICES ASSUME NEW i \in DOMAIN u, NEW j \in DOMAIN u,
                      NEW x \in u[i], NEW y \in u[j], x.key = y.key
               PROVE  i = j /\ x = y
    BY DEF Distinct
  <2>1. CASE i \in DOMAIN s /\ j \in DOMAIN s
    BY <2>1, <1>4, <1>11 DEF Distinct
  <2>2. CASE i \notin DOMAIN s /\ j \notin DOMAIN s
    BY <2>2, <1>2, <1>3, <1>4, <1>7, <1>11 DEF Distinct
  <2>3. CASE i \in DOMAIN s /\ j \notin DOMAIN s
    BY <2>3, <1>4, <1>7, <1>11 DEF Planned
  <2>4. CASE i \notin DOMAIN s /\ j \in DOMAIN s
    BY <2>4, <1>4, <1>7, <1>11 DEF Planned
  <2> QED BY <2>1, <2>2, <2>3, <2>4
<1> QED BY <1>8, <1>9, <1>10, <1>11 DEF u

LEMMA RestOf ==
    ASSUME NEW s, Sequence(s), s # <<>>, NEW x \in Head(s)
    PROVE  /\ Sequence(Rest(s, x))
           /\ x \in Planned(s)
           /\ Planned(Rest(s, x)) \subseteq Planned(s)
           /\ Planned(s) \subseteq Planned(Rest(s, x)) \cup {x}
           /\ Distinct(s) => /\ Distinct(Rest(s, x))
                             /\ \A y \in Planned(Rest(s, x)) : y.key # x.key
                             /\ x \notin Planned(Rest(s, x))
<1> DEFINE R == {s[i] : i \in DOMAIN s}
           H == Head(s) \ {x}
           T == Tail(s)
           t == Rest(s, x)
           n == Len(s)
<1>1. s \in Seq(R) BY DEF Sequence
<1> HIDE DEF R
<1>2. n \in Nat \ {0} /\ DOMAIN s = 1..n /\ Head(s) = s[1] BY <1>1
<1>3. T \in Seq(R) /\ Len(T) = n - 1 /\ \A i \in 1..(n - 1) : T[i] = s[i + 1]
  BY <1>1, <1>2
<1>4. x \in Planned(s) BY <1>2 DEF Planned
<1>5. ASSUME H = {}
      PROVE  /\ t \in Seq(R) /\ DOMAIN t = 1..(n - 1)
             /\ \A i \in DOMAIN t : t[i] = s[i + 1] \ {}
  BY <1>2, <1>3, <1>5 DEF Rest
<1>6. ASSUME H # {}
      PROVE  /\ t \in Seq(R \cup {H}) /\ DOMAIN t = 1..n
             /\ \A i \in DOMAIN t : t[i] = IF i = 1 THEN H ELSE s[i]
  <2> HIDE DEF H
  <2>1. <<H>> \in Seq(R \cup {H}) /\ T \in Seq(R \cup {H}) BY <1>3
  <2>2. t = <<H>> \o T BY <1>6 DEF Rest, H
  <2> QED BY <1>2, <1>3, <2>1, <2>2
<1> HIDE DEF H, T, n, t
<1>7. Sequence(t) BY <1>5, <1>6, SequenceOf
<1>8. Planned(t) \subseteq Planned(s)
  BY <1>2, <1>5, <1>6 DEF Planned, H
<1>9. Planned(s) \subseteq Planned(t) \cup {x}
  <2> SUFFICES ASSUME NEW i \in 1..n, NEW y \in s[i], y # x
               PROVE  \E j \in DOMAIN t : y \in t[j]
    BY <1>2 DEF Planned
  <2>1. CASE H = {}
    <3>1. i # 1 BY <1>2, <2>1 DEF H
    <3>2. i - 1 \in DOMAIN t /\ t[i - 1] = s[i]
      BY <1>2, <1>5, <2>1, <3>1
    <3> QED BY <3>2
  <2>2. CASE H # {}
    BY <1>2, <1>6, <2>2 DEF H
  <2> QED BY <2>1, <2>2
<1>10. ASSUME Distinct(s)
       PROVE  /\ Distinct(t)
              /\ \A y \in Planned(t) : y.key # x.key
  <2>1. ASSUME NEW y, y.key = x.key, NEW i \in DOMAIN s, y \in s[i]
        PROVE  i = 1 /\ y = x
    BY <1>2, <1>10, <2>1 DEF Distinct
  <2>2. \A y \in Planned(t) : y.key # x.key
    BY SMTT(30), <1>2, <1>5, <1>6, <2>1 DEF Planned, H
  <2>3. ASSUME H = {} PROVE Distinct(t)
    <3>1. \A i \in DOMAIN t : i + 1 \in DOMAIN s /\ i \in Nat /\ t[i] = s[i + 1]
      BY <1>2, <1>5, <2>3
    <3> QED BY <1>10, <3>1 DEF Distinct
  <2>4. ASSUME H # {} PROVE Distinct(t)
    <3>1. \A i \in DOMAIN t : i \in DOMAIN s /\ t[i] \subseteq s[i]
      BY <1>2, <1>6, <2>4 DEF H
    <3> QED BY <1>10, <3>1 DEF Distinct
  <2> QED BY <2>2, <2>3, <2>4
<1> QED BY <1>4, <1>7, <1>8, <1>9, <1>10 DEF t

LEMMA TwoSets ==
    ASSUME NEW a, NEW b
    PROVE  LET todo == <<{a}, {b}>>
           IN  Sequence(todo) /\ todo # <<>> /\ Planned(todo) = {a, b}
<1> DEFINE todo == <<{a}, {b}>>
<1>1. DOMAIN todo = {1, 2} /\ todo[1] = {a} /\ todo[2] = {b} /\ todo # <<>> OBVIOUS
<1>2. todo \in Seq({{a}, {b}}) OBVIOUS
<1> HIDE DEF todo
<1>3. Sequence(todo) BY <1>2, SequenceOf
<1>4. Planned(todo) = UNION {{a}, {b}}
  <2>1. {todo[i] : i \in DOMAIN todo} = {{a}, {b}} BY <1>1
  <2> QED BY <2>1 DEF Planned
<1> QED BY <1>1, <1>3, <1>4 DEF todo

LEMMA RestOfOne ==
    ASSUME NEW S, NEW z, S \ {z} = {}
    PROVE  Rest(<<S>>, z) = <<>>
<1> DEFINE R == {S}
           s == <<S>>
<1>2. s \in Seq(R) /\ Len(s) = 1 /\ s[1] = S /\ s # <<>> OBVIOUS
<1> HIDE DEF R, s
<1>3. Head(s) \ {z} = {} BY <1>2
<1>4. Tail(s) \in Seq(R) /\ Len(Tail(s)) = 0 BY <1>2, HeadTailProperties
<1>5. Tail(s) = <<>> BY <1>4, EmptySeq
<1> QED BY <1>3, <1>5 DEF Rest, s

-----------------------------------------------------------------------------
(* The steps.                                                              *)

\* Only one worker's call changes.
Only(w, k) == call' = [v \in Worker |-> IF v = w THEN k ELSE call[v]]

LEMMA OnlyCalls ==
    ASSUME CallsOK, NEW w \in Worker, NEW k, call' = [call EXCEPT ![w] = k]
    PROVE  Only(w, k)
BY DEF CallsOK, Only

LEMMA CallsKept ==
    ASSUME CallsOK, NEW w \in Worker, NEW k, Only(w, k), Shaped(k), Sequence(k.todo),
           k.op = "idle" => k = Idle
    PROVE  CallsOK' /\ call'[w] = k /\ \A v \in Worker \ {w} : call'[v] = call[v]
<1>1. call'[w] = k /\ \A v \in Worker \ {w} : call'[v] = call[v] BY DEF Only
<1>2. call' = [v \in Worker |-> call'[v]] BY DEF Only
<1> QED BY <1>1, <1>2 DEF CallsOK, Shaped

LEMMA IdleCall ==
    /\ Shaped(Idle) /\ Sequence(Idle.todo) /\ Idle.op = "idle" /\ Idle.on = {}
    /\ Idle.todo = <<>> /\ Idle.at = "done" /\ Idle.id = 0
BY NoPlan DEF Idle, Shaped

LEMMA BeginFacts ==
    ASSUME CallsOK, NEW w \in Worker, NEW op, NEW on, NEW arg, NEW at,
           op # "idle", Begin(w, op, on, arg, at)
    PROVE  /\ CallsOK'
           /\ call[w] = Idle /\ requests < MaxRequests /\ requests' = requests + 1
           /\ call'[w] = [op |-> op, at |-> at, id |-> requests + 1, on |-> on,
                          arg |-> arg, todo |-> <<>>]
           /\ \A v \in Worker \ {w} : call'[v] = call[v]
           /\ shared \subseteq shared'
           /\ \A v \in Worker \ {w} : on \cap call[v].on \subseteq shared'
           /\ items' = items /\ crashes' = crashes /\ torn' = torn
<1> DEFINE k == [op |-> op, at |-> at, id |-> requests + 1, on |-> on, arg |-> arg,
                 todo |-> <<>>]
<1>1. Only(w, k) BY OnlyCalls DEF Begin
<1>2. Shaped(k) /\ Sequence(k.todo) /\ k.op # "idle" BY NoPlan DEF Shaped
<1>3. CallsOK' /\ call'[w] = k /\ \A v \in Worker \ {w} : call'[v] = call[v]
  BY <1>1, <1>2, CallsKept
<1>4. call[w] = Idle BY DEF Begin, Busy, CallsOK
<1>5. \A v \in Worker \ {w} : on \cap call[v].on \subseteq shared' BY DEF Begin
<1> QED BY <1>3, <1>4, <1>5 DEF Begin

\* The call with something else to do.
Onward(k, todo, at) ==
    IF todo = <<>> /\ at = "done" THEN Idle ELSE [k EXCEPT !.todo = todo, !.at = at]

LEMMA OnwardCall ==
    ASSUME NEW k, Shaped(k), NEW todo, NEW at, Sequence(todo),
           k.op = "idle" => todo = <<>> /\ at = "done"
    PROVE  LET n == Onward(k, todo, at)
           IN  /\ Shaped(n) /\ Sequence(n.todo) /\ (n.op = "idle" => n = Idle)
               /\ n.todo = todo /\ n.at = at
               /\ \/ n = Idle
                  \/ n.op = k.op /\ n.id = k.id /\ n.on = k.on /\ n.arg = k.arg
<1> DEFINE m == [op |-> k.op, at |-> at, id |-> k.id, on |-> k.on, arg |-> k.arg,
                 todo |-> todo]
<1>1. CASE todo = <<>> /\ at = "done"
  BY <1>1, IdleCall DEF Onward
<1>2. CASE ~(todo = <<>> /\ at = "done")
  <2>1. Onward(k, todo, at) = m BY <1>2 DEF Onward, Shaped
  <2>2. Shaped(m) BY DEF Shaped
  <2> QED BY <1>2, <2>1, <2>2
<1> QED BY <1>1, <1>2

LEMMA ProceedFacts ==
    ASSUME CallsOK, NEW w \in Worker, NEW todo, NEW at, Sequence(todo),
           call[w].op # "idle", Proceed(w, todo, at)
    PROVE  /\ CallsOK'
           /\ call'[w] = Onward(call[w], todo, at)
           /\ \A v \in Worker \ {w} : call'[v] = call[v]
           /\ items' = items /\ requests' = requests /\ crashes' = crashes
           /\ shared' = shared /\ torn' = torn
<1> DEFINE k == call[w]
           n == Onward(k, todo, at)
<1>1. Shaped(k) BY DEF CallsOK
<1>2. Shaped(n) /\ Sequence(n.todo) /\ (n.op = "idle" => n = Idle)
  BY <1>1, OnwardCall
<1>3. call' = [call EXCEPT ![w] = n] BY DEF Proceed, Onward, CallsOK
<1>4. Only(w, n) BY <1>3, OnlyCalls
<1>5. CallsOK' /\ call'[w] = n /\ \A v \in Worker \ {w} : call'[v] = call[v]
  BY <1>2, <1>4, CallsKept
<1> QED BY <1>5 DEF Proceed

\* The call with a plan, or further on.
With(k, todo, at) ==
    [op |-> k.op, at |-> at, id |-> k.id, on |-> k.on, arg |-> k.arg, todo |-> todo]

LEMMA OnwardWith ==
    ASSUME NEW k, Shaped(k), NEW todo, NEW at, todo # <<>> \/ at # "done"
    PROVE  Onward(k, todo, at) = With(k, todo, at)
BY DEF Onward, With, Shaped

LEMMA GotoFacts ==
    ASSUME CallsOK, NEW w \in Worker, NEW at, at # "done", call[w].op # "idle", Goto(w, at)
    PROVE  /\ CallsOK'
           /\ call'[w] = With(call[w], <<>>, at)
           /\ \A v \in Worker \ {w} : call'[v] = call[v]
           /\ items' = items /\ requests' = requests /\ crashes' = crashes
           /\ shared' = shared /\ torn' = torn
<1>1. Shaped(call[w]) BY DEF CallsOK
<1> QED BY <1>1, ProceedFacts, OnwardWith, NoPlan DEF Goto

LEMMA AnswerFacts ==
    ASSUME CallsOK, NEW w \in Worker, call[w].op # "idle", Answer(w)
    PROVE  /\ CallsOK'
           /\ call'[w] = Idle
           /\ \A v \in Worker \ {w} : call'[v] = call[v]
           /\ items' = items /\ requests' = requests /\ crashes' = crashes
           /\ shared' = shared /\ torn' = torn
<1>1. Onward(call[w], <<>>, "done") = Idle BY DEF Onward
<1> QED BY <1>1, ProceedFacts, NoPlan DEF Answer

LEMMA PlanFacts ==
    ASSUME CallsOK, NEW w \in Worker, NEW todo, Sequence(todo), todo # <<>>,
           call[w].op # "idle", Plan(w, todo)
    PROVE  /\ CallsOK'
           /\ call'[w] = With(call[w], todo, "done")
           /\ \A v \in Worker \ {w} : call'[v] = call[v]
           /\ items' = items /\ requests' = requests /\ crashes' = crashes
           /\ shared' = shared /\ torn' = torn
<1>1. Shaped(call[w]) BY DEF CallsOK
<1> QED BY <1>1, ProceedFacts, OnwardWith DEF Plan

LEMMA ShapedArg ==
    ASSUME NEW k, Shaped(k), NEW y, NEW at, NEW n, n = [k EXCEPT !.arg = y, !.at = at]
    PROVE  n = [op |-> k.op, at |-> at, id |-> k.id, on |-> k.on, arg |-> y,
                todo |-> k.todo]
BY DEF Shaped

LEMMA AppendOne ==
    ASSUME NEW s, NEW a, s = <<a>>, NEW x
    PROVE  Append(s, x)[1] = a /\ Append(s, x)[2] = x
<1>1. s \in Seq({a, x}) /\ Len(s) = 1 OBVIOUS
<1> QED BY <1>1

LEMMA AppendTwo ==
    ASSUME NEW s, NEW a, NEW b, s = <<a, b>>, NEW x
    PROVE  Append(s, x)[1] = a /\ Append(s, x)[2] = b /\ Append(s, x)[3] = x
<1>1. s \in Seq({a, b, x}) /\ Len(s) = 2 OBVIOUS
<1> QED BY <1>1

LEMMA KeepFacts ==
    ASSUME CallsOK, NEW w \in Worker, NEW x, NEW at, call[w].op # "idle",
           Keep(w, x, at)
    PROVE  /\ CallsOK'
           /\ LET k == call[w]
              IN  call'[w] = [op |-> k.op, at |-> at, id |-> k.id, on |-> k.on,
                              arg |-> Append(k.arg, x), todo |-> k.todo]
           /\ \A v \in Worker \ {w} : call'[v] = call[v]
           /\ items' = items /\ requests' = requests /\ crashes' = crashes
           /\ shared' = shared /\ torn' = torn
<1> DEFINE k == call[w]
           n == [k EXCEPT !.arg = Append(@, x), !.at = at]
<1>1. Shaped(k) /\ Sequence(k.todo) BY DEF CallsOK
<1> DEFINE m == [op |-> k.op, at |-> at, id |-> k.id, on |-> k.on,
                 arg |-> Append(k.arg, x), todo |-> k.todo]
<1>2. n = m BY <1>1, ShapedArg
<1>6. Shaped(m) /\ m.todo = k.todo /\ m.op = k.op BY DEF Shaped
<1>3. call' = [call EXCEPT ![w] = n] BY DEF Keep, CallsOK
<1>4. Only(w, n) BY <1>3, OnlyCalls
<1>5. CallsOK' /\ call'[w] = n /\ \A v \in Worker \ {w} : call'[v] = call[v]
  BY <1>1, <1>2, <1>6, <1>4, CallsKept
<1> QED BY <1>2, <1>5 DEF Keep

\* What a planned write leaves to do.
LEMMA WriteFacts ==
    ASSUME CallsOK, NEW w \in Worker, Write(w)
    PROVE  /\ CallsOK'
           /\ \A v \in Worker \ {w} : call'[v] = call[v]
           /\ call[w].op # "idle" /\ call[w].todo # <<>>
           /\ \E x \in Head(call[w].todo) :
                 LET todo == Rest(call[w].todo, x)
                 IN  /\ items' = After(x)
                     /\ call'[w] = Onward(call[w], todo, call[w].at)
                     /\ Sequence(todo)
           /\ requests' = requests /\ crashes' = crashes
           /\ shared' = shared /\ torn' = torn
<1> DEFINE k == call[w]
<1>1. PICK x \in Head(k.todo) :
         /\ items' = After(x)
         /\ call' = [call EXCEPT ![w] =
               IF Rest(k.todo, x) = <<>> /\ @.at = "done" THEN Idle
               ELSE [@ EXCEPT !.todo = Rest(k.todo, x)]]
  BY DEF Write, Rest
<1> DEFINE n == Onward(k, Rest(k.todo, x), k.at)
<1>2. k.todo # <<>> BY DEF Write
<1>3. Shaped(k) /\ Sequence(k.todo) BY DEF CallsOK
<1>4. k.op # "idle" BY <1>2, IdleCall DEF CallsOK
<1>5. Sequence(Rest(k.todo, x)) BY <1>2, <1>3, RestOf
<1>6. Shaped(n) /\ Sequence(n.todo) /\ (n.op = "idle" => n = Idle)
  BY <1>3, <1>4, <1>5, OnwardCall
<1>7. n = IF Rest(k.todo, x) = <<>> /\ k.at = "done" THEN Idle
          ELSE [k EXCEPT !.todo = Rest(k.todo, x)]
  BY <1>3 DEF Onward, Shaped
<1>8. call' = [call EXCEPT ![w] = n] BY <1>1, <1>7 DEF CallsOK
<1>9. Only(w, n) BY <1>8, OnlyCalls
<1>10. CallsOK' /\ call'[w] = n /\ \A v \in Worker \ {w} : call'[v] = call[v]
  BY <1>6, <1>9, CallsKept
<1> QED BY <1>1, <1>2, <1>4, <1>5, <1>10 DEF Write

LEMMA CrashFacts ==
    ASSUME CallsOK, NEW w \in Worker, Crash(w)
    PROVE  /\ CallsOK'
           /\ call'[w] = Idle
           /\ \A v \in Worker \ {w} : call'[v] = call[v]
           /\ call[w].op # "idle"
           /\ items' = items /\ requests' = requests /\ shared' = shared
           /\ torn' = torn \cup call[w].on
<1>1. Only(w, Idle) BY OnlyCalls DEF Crash
<1> QED BY <1>1, CallsKept, IdleCall DEF Crash, Busy

-----------------------------------------------------------------------------
(* The items after a write.                                                *)

LEMMA PutFacts ==
    ASSUME NEW x, x.do = "put", items' = After(x)
    PROVE  /\ DOMAIN items' = DOMAIN items \cup {x.key}
           /\ items'[x.key] = x.val
           /\ \A key \in DOMAIN items \ {x.key} : items'[key] = items[key]
BY DEF After, AfterIn

LEMMA PutNewFacts ==
    ASSUME NEW x, x.do = "putNew", items' = After(x)
    PROVE  /\ x.key \in DOMAIN items => items' = items
           /\ x.key \notin DOMAIN items =>
                 /\ DOMAIN items' = DOMAIN items \cup {x.key}
                 /\ items'[x.key] = x.val
                 /\ \A key \in DOMAIN items : items'[key] = items[key]
BY DEF After, AfterIn

LEMMA DeleteFacts ==
    ASSUME NEW x, x.do = "delete", items' = After(x)
    PROVE  /\ DOMAIN items' = DOMAIN items \ {x.key}
           /\ \A key \in DOMAIN items' : items'[key] = items[key]
BY DEF After, AfterIn

-----------------------------------------------------------------------------
(* Items that are written attribute by attribute.                          *)

\* An item after an update that does not set an attribute it adds to.
SetsApart(change) == DOMAIN change.set \cap DOMAIN change.add = {}

ChangedTo(u, old, change) ==
    /\ u = [a \in DOMAIN u |-> u[a]]
    /\ DOMAIN u = DOMAIN old \cup DOMAIN change.set \cup DOMAIN change.add
    /\ \A a \in DOMAIN change.set : u[a] = change.set[a]
    /\ \A a \in DOMAIN old \ (DOMAIN change.set \cup DOMAIN change.add) : u[a] = old[a]
    /\ \A a \in DOMAIN change.add \ DOMAIN old : change.add[a] \in Int => u[a] = change.add[a]
    /\ \A a \in DOMAIN change.add \cap DOMAIN old :
          change.add[a] \in Int /\ old[a] \in Int => u[a] = old[a] + change.add[a]

LEMMA UpdatedAt ==
    ASSUME NEW old, NEW change, SetsApart(change)
    PROVE  ChangedTo(Updated(old, change), old, change)
<1> DEFINE u == Updated(old, change)
<1>1. DOMAIN change.set \cap DOMAIN change.add = {} BY DEF SetsApart
<1>2. /\ DOMAIN u = DOMAIN old \cup DOMAIN change.set \cup DOMAIN change.add
      /\ u = [a \in DOMAIN u |-> u[a]]
  BY DEF Updated
<1>3. \A a \in DOMAIN change.set : u[a] = change.set[a] BY <1>1 DEF Updated
<1>4. \A a \in DOMAIN old \ (DOMAIN change.set \cup DOMAIN change.add) : u[a] = old[a]
  BY DEF Updated
<1>5. ASSUME NEW a \in DOMAIN change.add, change.add[a] \in Int
      PROVE  /\ a \notin DOMAIN old => u[a] = change.add[a]
             /\ a \in DOMAIN old /\ old[a] \in Int => u[a] = old[a] + change.add[a]
  <2>1. a \notin DOMAIN old => u[a] = change.add[a] + 0 BY <1>1 DEF Updated
  <2>2. a \in DOMAIN old => u[a] = change.add[a] + old[a] BY <1>1 DEF Updated
  <2> HIDE DEF u
  <2> QED BY <1>5, <2>1, <2>2
<1> HIDE DEF u
<1>6. ChangedTo(u, old, change) BY <1>2, <1>3, <1>4, <1>5 DEF ChangedTo
<1> QED BY <1>6 DEF u

LEMMA NoAttributes == DOMAIN <<>> = {}
OBVIOUS

Overlaid(u, old, attributes) ==
    /\ u = [a \in DOMAIN u |-> u[a]]
    /\ DOMAIN u = DOMAIN old \cup DOMAIN attributes
    /\ \A a \in DOMAIN u : u[a] = IF a \in DOMAIN attributes THEN attributes[a] ELSE old[a]

LEMMA OverlaidAt ==
    ASSUME NEW old, NEW attributes
    PROVE  Overlaid(Updated(old, [set |-> attributes, add |-> <<>>]), old, attributes)
<1> DEFINE change == [set |-> attributes, add |-> <<>>]
           u == Updated(old, change)
<1>1. change.set = attributes /\ DOMAIN change.add = {} BY NoAttributes
<1> HIDE DEF change
<1>2. SetsApart(change) BY <1>1 DEF SetsApart
<1>3. ChangedTo(u, old, change) BY <1>2, UpdatedAt
<1> HIDE DEF u
<1>4. Overlaid(u, old, attributes) BY <1>1, <1>3 DEF ChangedTo, Overlaid
<1> QED BY <1>4 DEF u, change

UpdatesItem(x) ==
    /\ DOMAIN items' = DOMAIN items \cup {x.key}
    /\ \A k \in DOMAIN items \ {x.key} : items'[k] = items[k]
    /\ x.key \in DOMAIN items => items'[x.key] = Updated(items[x.key], x.val)
    /\ x.key \notin DOMAIN items => items'[x.key] = Updated(<<>>, x.val)

LEMMA UpdateFacts ==
    ASSUME NEW x, x.do = "update", items' = After(x)
    PROVE  UpdatesItem(x)
BY DEF After, AfterIn, UpdatesItem

-----------------------------------------------------------------------------
(* What a request appends to its arg.                                      *)

LEMMA AppendFour ==
    ASSUME NEW s, NEW a, NEW b, NEW c, NEW d, s = <<a, b, c, d>>, NEW x
    PROVE  LET t == Append(s, x)
           IN  t[1] = a /\ t[2] = b /\ t[3] = c /\ t[4] = d /\ t[5] = x
<1>1. s \in Seq({a, b, c, d, x}) /\ Len(s) = 4 OBVIOUS
<1> QED BY <1>1

LEMMA AppendLast ==
    ASSUME NEW s, Sequence(s), NEW x
    PROVE  LET t == Append(s, x)
           IN  /\ Sequence(t) /\ t # <<>> /\ t[Len(t)] = x
               /\ \A i \in DOMAIN s : t[i] = s[i]
<1> DEFINE R == {s[i] : i \in DOMAIN s} \cup {x}
           t == Append(s, x)
<1>1. s \in Seq(R) BY DEF Sequence
<1> HIDE DEF R
<1>2. x \in R BY DEF R
<1>3. /\ t \in Seq(R) /\ Len(t) = Len(s) + 1 /\ t[Len(s) + 1] = x
      /\ \A i \in 1..Len(s) : t[i] = s[i]
      /\ Len(s) \in Nat /\ DOMAIN s = 1..Len(s)
  BY <1>1, <1>2
<1> HIDE DEF t
<1>4. Sequence(t) BY <1>3, SequenceOf
<1>5. t # <<>> BY <1>3
<1> QED BY <1>3, <1>4, <1>5 DEF t

-----------------------------------------------------------------------------
(* A table after a plan, key by key.                                       *)

Is(table, key, val) == key \in DOMAIN table /\ table[key] = val

Same(table, old, key) ==
    /\ key \in DOMAIN table <=> key \in DOMAIN old
    /\ table[key] = old[key] \/ key \notin DOMAIN old

LEMMA PutAfter ==
    ASSUME NEW table, NEW x, x.do = "put"
    PROVE  Is(AfterIn(table, x), x.key, x.val)
BY DEF AfterIn, Is

LEMMA PutNewAfter ==
    ASSUME NEW table, NEW x, x.do = "putNew"
    PROVE  /\ x.key \in DOMAIN table => Same(AfterIn(table, x), table, x.key)
           /\ x.key \notin DOMAIN table => Is(AfterIn(table, x), x.key, x.val)
BY DEF AfterIn, Is, Same

LEMMA DeleteAfter ==
    ASSUME NEW table, NEW x, x.do = "delete"
    PROVE  x.key \notin DOMAIN AfterIn(table, x)
BY DEF AfterIn

LEMMA UpdateAfter ==
    ASSUME NEW table, NEW x, x.key \in DOMAIN table, x.do \in {"update", "updateOld"}
    PROVE  Is(AfterIn(table, x), x.key, Updated(table[x.key], x.val))
<1>1. AfterIn(table, x)
        = [k \in DOMAIN table \cup {x.key} |->
             IF k = x.key THEN Updated(table[x.key], x.val) ELSE table[k]]
  BY DEF AfterIn
<1> QED BY <1>1 DEF Is

LEMMA UpdateOldAfter ==
    ASSUME NEW table, NEW x, x.key \notin DOMAIN table, x.do = "updateOld"
    PROVE  x.key \notin DOMAIN AfterIn(table, x)
BY DEF AfterIn

\* Writes of different items, each of which does to its item what it does alone.
LEMMA AfterWrites ==
    ASSUME NEW table, NEW W, \A x, y \in W : x.key = y.key => x = y
    PROVE  LET next == AfterSet(table, W)
           IN  /\ \A key : key \notin {x.key : x \in W} => Same(next, table, key)
               /\ \A x \in W : Same(next, AfterIn(table, x), x.key)
<1> DEFINE keys == {x.key : x \in W}
           after(k) == AfterIn(table, CHOOSE x \in W : x.key = k)
           next == AfterSet(table, W)
<1>1. next = [k \in (DOMAIN table \ keys) \cup {k \in keys : k \in DOMAIN after(k)} |->
                IF k \in keys THEN after(k)[k] ELSE table[k]]
  BY DEF AfterSet
<1> HIDE DEF next
<1>2. ASSUME NEW key, key \notin keys PROVE Same(next, table, key)
  <2> HIDE DEF keys, after
  <2> QED BY <1>1, <1>2 DEF Same
<1>3. ASSUME NEW x \in W PROVE Same(next, AfterIn(table, x), x.key)
  <2>1. (CHOOSE y \in W : y.key = x.key) = x OBVIOUS
  <2>2. after(x.key) = AfterIn(table, x) BY <2>1
  <2>3. x.key \in keys OBVIOUS
  <2> HIDE DEF keys, after
  <2> QED BY <1>1, <2>2, <2>3 DEF Same
<1> QED BY <1>2, <1>3 DEF next

LEMMA AfterOneWrite ==
    ASSUME NEW table, NEW x
    PROVE  /\ \A key : key # x.key => Same(AfterSet(table, {x}), table, key)
           /\ Same(AfterSet(table, {x}), AfterIn(table, x), x.key)
<1>1. \A y, z \in {x} : y.key = z.key => y = z OBVIOUS
<1>2. {y.key : y \in {x}} = {x.key} OBVIOUS
<1> QED BY <1>1, <1>2, AfterWrites

LEMMA AfterPut ==
    ASSUME NEW table, NEW key, NEW val
    PROVE  LET next == AfterSet(table, {Put(key, val)})
           IN  /\ Is(next, key, val)
               /\ \A other : other # key => Same(next, table, other)
<1> DEFINE x == Put(key, val)
<1>1. x.do = "put" /\ x.key = key /\ x.val = val BY DEF Put
<1> HIDE DEF x
<1>2. Is(AfterIn(table, x), key, val) BY <1>1, PutAfter
<1>3. /\ Same(AfterSet(table, {x}), AfterIn(table, x), key)
      /\ \A other : other # key => Same(AfterSet(table, {x}), table, other)
  BY <1>1, AfterOneWrite
<1> QED BY <1>2, <1>3 DEF Is, Same, x

LEMMA AfterDelete ==
    ASSUME NEW table, NEW key
    PROVE  LET next == AfterSet(table, {Delete(key)})
           IN  /\ key \notin DOMAIN next
               /\ \A other : other # key => Same(next, table, other)
<1> DEFINE x == Delete(key)
<1>1. x.do = "delete" /\ x.key = key BY DEF Delete
<1> HIDE DEF x
<1>2. key \notin DOMAIN AfterIn(table, x) BY <1>1, DeleteAfter
<1>3. /\ Same(AfterSet(table, {x}), AfterIn(table, x), key)
      /\ \A other : other # key => Same(AfterSet(table, {x}), table, other)
  BY <1>1, AfterOneWrite
<1> QED BY <1>2, <1>3 DEF Same, x

LEMMA AfterPuts ==
    ASSUME NEW table, NEW key, NEW val, NEW also, NEW too, key # also
    PROVE  LET next == AfterSet(table, {Put(key, val), Put(also, too)})
           IN  /\ Is(next, key, val) /\ Is(next, also, too)
               /\ \A other : other # key /\ other # also => Same(next, table, other)
<1> DEFINE x == Put(key, val)
           y == Put(also, too)
           W == {x, y}
<1>1. /\ x.do = "put" /\ x.key = key /\ x.val = val
      /\ y.do = "put" /\ y.key = also /\ y.val = too
  BY DEF Put
<1> HIDE DEF x, y
<1>2. Is(AfterIn(table, x), key, val) /\ Is(AfterIn(table, y), also, too)
  BY <1>1, PutAfter
<1>3. \A u, v \in W : u.key = v.key => u = v BY <1>1
<1>4. {u.key : u \in W} = {key, also} BY <1>1
<1>5. x \in W /\ y \in W OBVIOUS
<1> HIDE DEF W
<1>6. /\ \A other : other \notin {u.key : u \in W} => Same(AfterSet(table, W), table, other)
      /\ \A u \in W : Same(AfterSet(table, W), AfterIn(table, u), u.key)
  BY <1>3, AfterWrites
<1>7. /\ Same(AfterSet(table, W), AfterIn(table, x), key)
      /\ Same(AfterSet(table, W), AfterIn(table, y), also)
  BY <1>1, <1>5, <1>6
<1>8. \A other : other # key /\ other # also => Same(AfterSet(table, W), table, other)
  BY <1>4, <1>6
<1>9. Is(AfterSet(table, W), key, val) /\ Is(AfterSet(table, W), also, too)
  BY <1>2, <1>7 DEF Is, Same
<1> QED BY <1>8, <1>9 DEF W, x, y

\* A plan of no, one, two, three sets: an order of its sets.
LEMMA AfterNone ==
    ASSUME NEW table
    PROVE  AfterPlan(table, <<>>) = table
<1> DEFINE F(f) == [n \in 0..0 |-> IF n = 0 THEN table ELSE AfterSet(f[n - 1], <<>>[n])]
           after == CHOOSE f : f = F(f)
           g == [n \in 0..0 |-> table]
<1>1. g = F(g) OBVIOUS
<1> HIDE DEF g
<1>2. after = F(after) BY <1>1
<1>3. after[0] = table BY <1>2
<1>4. Len(<<>>) = 0 OBVIOUS
<1> QED BY <1>3, <1>4 DEF AfterPlan

LEMMA AfterOne ==
    ASSUME NEW table, NEW S
    PROVE  AfterPlan(table, <<S>>) = AfterSet(table, S)
<1> DEFINE todo == <<S>>
           F(f) == [n \in 0..1 |-> IF n = 0 THEN table ELSE AfterSet(f[n - 1], todo[n])]
           after == CHOOSE f : f = F(f)
           g == [n \in 0..1 |-> IF n = 0 THEN table ELSE AfterSet(table, S)]
<1>1. Len(todo) = 1 /\ todo[1] = S OBVIOUS
<1> HIDE DEF todo
<1>2. g[0] = table /\ g[1] = AfterSet(table, S) OBVIOUS
<1>3. g = F(g) BY <1>1, <1>2
<1> HIDE DEF g
<1>4. after = F(after) BY <1>3
<1> HIDE DEF after
<1>5. after[0] = table BY <1>4
<1>6. after[1] = AfterSet(table, S) BY <1>1, <1>4, <1>5
<1>7. AfterPlan(table, todo) = after[1] BY <1>1 DEF AfterPlan, after
<1> QED BY <1>6, <1>7 DEF todo

LEMMA AfterTwo ==
    ASSUME NEW table, NEW S, NEW T
    PROVE  AfterPlan(table, <<S, T>>) = AfterSet(AfterSet(table, S), T)
<1> DEFINE todo == <<S, T>>
           F(f) == [n \in 0..2 |-> IF n = 0 THEN table ELSE AfterSet(f[n - 1], todo[n])]
           after == CHOOSE f : f = F(f)
           one == AfterSet(table, S)
           two == AfterSet(one, T)
           g == [n \in 0..2 |-> IF n = 0 THEN table ELSE IF n = 1 THEN one ELSE two]
<1>1. Len(todo) = 2 /\ todo[1] = S /\ todo[2] = T OBVIOUS
<1> HIDE DEF todo
<1>2. g[0] = table /\ g[1] = one /\ g[2] = two OBVIOUS
<1>3. g = F(g)
  <2>1. \A n \in 0..2 : n = 0 \/ n = 1 \/ n = 2 OBVIOUS
  <2> HIDE DEF g
  <2>2. \A n \in 0..2 : g[n] = IF n = 0 THEN table ELSE AfterSet(g[n - 1], todo[n])
    BY <1>1, <1>2, <2>1
  <2> QED BY <2>2 DEF g
<1> HIDE DEF g
<1>4. after = F(after) BY <1>3
<1> HIDE DEF after
<1>5. after[0] = table BY <1>4
<1>6. after[1] = one BY <1>1, <1>4, <1>5
<1>7. after[2] = two BY <1>1, <1>4, <1>6
<1>8. AfterPlan(table, todo) = after[2] BY <1>1 DEF AfterPlan, after
<1> QED BY <1>7, <1>8 DEF todo

LEMMA AfterThree ==
    ASSUME NEW table, NEW S, NEW T, NEW U
    PROVE  AfterPlan(table, <<S, T, U>>) = AfterSet(AfterSet(AfterSet(table, S), T), U)
<1> DEFINE todo == <<S, T, U>>
           F(f) == [n \in 0..3 |-> IF n = 0 THEN table ELSE AfterSet(f[n - 1], todo[n])]
           after == CHOOSE f : f = F(f)
           one == AfterSet(table, S)
           two == AfterSet(one, T)
           three == AfterSet(two, U)
           g == [n \in 0..3 |-> IF n = 0 THEN table ELSE IF n = 1 THEN one
                                 ELSE IF n = 2 THEN two ELSE three]
<1>1. Len(todo) = 3 /\ todo[1] = S /\ todo[2] = T /\ todo[3] = U OBVIOUS
<1> HIDE DEF todo
<1>2. g[0] = table /\ g[1] = one /\ g[2] = two /\ g[3] = three OBVIOUS
<1>3. g = F(g)
  <2>1. \A n \in 0..3 : n = 0 \/ n = 1 \/ n = 2 \/ n = 3 OBVIOUS
  <2> HIDE DEF g
  <2>2. \A n \in 0..3 : g[n] = IF n = 0 THEN table ELSE AfterSet(g[n - 1], todo[n])
    BY <1>1, <1>2, <2>1
  <2> QED BY <2>2 DEF g
<1> HIDE DEF g
<1>4. after = F(after) BY <1>3
<1> HIDE DEF after
<1>5. after[0] = table BY <1>4
<1>6. after[1] = one BY <1>1, <1>4, <1>5
<1>7. after[2] = two BY <1>1, <1>4, <1>6
<1>8. after[3] = three BY <1>1, <1>4, <1>7
<1>9. AfterPlan(table, todo) = after[3] BY <1>1 DEF AfterPlan, after
<1> QED BY <1>8, <1>9 DEF todo

=============================================================================
