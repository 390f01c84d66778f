--------------------------- MODULE SessionProofs ---------------------------
(* Theorems about DebugSession: breakpoints and prompts on the one hand,   *)
(* the lines and times of nested calls on the other, for any number of     *)
(* breakpoints, hits, calls and failures.                                  *)
EXTENDS DebugSession, SeqLemmas

Log == [id : Nat, count : Nat]

(* What may differ between two breakpoint lists when a hook has looked for *)
(* hits of the types T: counts, by one, of breakpoints that are on.        *)
SameButHits(a, b, T) ==
    /\ Len(b) = Len(a)
    /\ \A i \in 1 .. Len(a) :
          /\ b[i].id = a[i].id /\ b[i].on = a[i].on /\ b[i].type = a[i].type
          /\ b[i].hit_count # a[i].hit_count =>
                a[i].on /\ a[i].type \in T /\ b[i].hit_count = a[i].hit_count + 1

(* Some breakpoint counted a hit.                                          *)
SomeHit(a, b) == \E i \in 1 .. Len(a) : b[i].hit_count # a[i].hit_count

(* A state of a check: the list, the debugger's state and the log line.    *)
Looked(d) ==
    /\ d.list \in Seq(Breakpoint)
    /\ d.state \in States
    /\ d.log \in Log

LEMMA CheckCounts ==
    ASSUME NEW d, NEW type \in Types, NEW position, Looked(d)
    PROVE  LET r == Check(d, type, position) IN
           /\ Looked(r) /\ SameButHits(d.list, r.list, {type})
           /\ r.state \in {d.state, "BREAK"}
           /\ d.state = "FINISHED" => r = d
           /\ IF SomeHit(d.list, r.list) THEN r.state = "BREAK" ELSE r.state = d.state
  <1> DEFINE hits == {i \in Candidates(d.list, type, position) :
                        IsFirst(i, Candidates(d.list, type, position))}
             r == Check(d, type, position)
  <1>1. CASE d.state = "FINISHED" \/ hits = {}
    <2>1. r = d
      BY <1>1 DEF Check
    <2> QED
      BY <2>1 DEF SameButHits, SomeHit
  <1>2. CASE ~ (d.state = "FINISHED" \/ hits = {})
    <2> DEFINE k == CHOOSE i \in hits : TRUE
               list == [d.list EXCEPT ![k].hit_count = @ + 1]
    <2>1. r = [list |-> list, state |-> "BREAK",
               log |-> [id |-> list[k].id, count |-> list[1].hit_count]]
      BY <1>2 DEF Check
    <2>2. k \in hits
      BY <1>2
    <2> HIDE DEF k, r
    <2>3. /\ d.list \in Seq(Breakpoint) /\ k \in 1 .. Len(d.list)
          /\ d.list[k].on /\ d.list[k].type = type /\ position = Position(type)
          /\ IsFirst(k, Candidates(d.list, type, position))
      BY <2>2 DEF Looked, Candidates
    <2>5. d.list[k] \in Breakpoint /\ d.list[1] \in Breakpoint /\ Len(d.list) \in Nat
      BY <2>3
    <2>6. [d.list[k] EXCEPT !.hit_count = @ + 1] \in Breakpoint
      BY <2>5 DEF Breakpoint
    <2>7. /\ list = [d.list EXCEPT ![k] = [d.list[k] EXCEPT !.hit_count = @ + 1]]
          /\ list \in Seq(Breakpoint) /\ Len(list) = Len(d.list)
          /\ \A i \in 1 .. Len(d.list) :
                list[i] = IF i = k THEN [d.list[k] EXCEPT !.hit_count = @ + 1]
                          ELSE d.list[i]
      BY <2>3, <2>6
    <2> HIDE DEF list
    <2>8. SameButHits(d.list, list, {type}) /\ SomeHit(d.list, list)
      <3>1. ASSUME NEW i \in 1 .. Len(d.list)
            PROVE  /\ list[i].id = d.list[i].id /\ list[i].on = d.list[i].on
                   /\ list[i].type = d.list[i].type
                   /\ list[i].hit_count = IF i = k THEN d.list[i].hit_count + 1
                                         ELSE d.list[i].hit_count
        <4>1. CASE i = k
          <5> DEFINE b == d.list[k]
          <5>1. b \in Breakpoint /\ list[i] = [b EXCEPT !.hit_count = @ + 1]
            BY <2>5, <2>7, <4>1
          <5> HIDE DEF b
          <5>2. /\ list[i].id = b.id /\ list[i].on = b.on /\ list[i].type = b.type
                /\ list[i].hit_count = b.hit_count + 1
            BY <5>1 DEF Breakpoint
          <5> QED
            BY <4>1, <5>2 DEF b
        <4>2. CASE i # k
          BY <2>7, <4>2
        <4> QED
          BY <4>1, <4>2
      <3>2. d.list[k].hit_count \in Nat
        BY <2>5 DEF Breakpoint
      <3>3. SomeHit(d.list, list)
        BY <2>3, <3>1, <3>2 DEF SomeHit
      <3>4. SameButHits(d.list, list, {type})
        BY <2>3, <2>7, <3>1 DEF SameButHits
      <3> QED
        BY <3>3, <3>4
    <2>9. list[k] \in Breakpoint /\ list[1] \in Breakpoint
      BY <2>3, <2>7
    <2>10. [id |-> list[k].id, count |-> list[1].hit_count] \in Log
      BY <2>9 DEF Breakpoint, Log
    <2>11. Looked(r)
      BY <2>1, <2>7, <2>10 DEF Looked, States
    <2> QED
      BY <1>2, <2>1, <2>8, <2>11 DEF r
  <1> QED
    BY <1>1, <1>2

(* Two checks, one after the other.                                        *)
LEMMA ChecksCount ==
    ASSUME NEW d, NEW line, NEW function, Looked(d)
    PROVE  LET r == Check(Check(d, "line", line), "function", function) IN
           /\ Looked(r)
           /\ SameButHits(d.list, r.list, Types)
           /\ r.state \in {d.state, "BREAK"}
           /\ d.state = "FINISHED" => r = d
           /\ IF SomeHit(d.list, r.list) THEN r.state = "BREAK" ELSE r.state = d.state
  <1> DEFINE m == Check(d, "line", line)
             r == Check(m, "function", function)
  <1>1. /\ Looked(m) /\ SameButHits(d.list, m.list, {"line"})
        /\ m.state \in {d.state, "BREAK"} /\ (d.state = "FINISHED" => m = d)
        /\ IF SomeHit(d.list, m.list) THEN m.state = "BREAK" ELSE m.state = d.state
    BY CheckCounts DEF Types
  <1> HIDE DEF m
  <1>2. /\ Looked(r) /\ SameButHits(m.list, r.list, {"function"})
        /\ r.state \in {m.state, "BREAK"} /\ (m.state = "FINISHED" => r = m)
        /\ IF SomeHit(m.list, r.list) THEN r.state = "BREAK" ELSE r.state = m.state
    BY <1>1, CheckCounts DEF Types
  <1> HIDE DEF r
  <1>3. Len(d.list) \in Nat
    BY DEF Looked
  <1>4. ASSUME NEW i \in 1 .. Len(d.list)
        PROVE  /\ r.list[i].id = d.list[i].id /\ r.list[i].on = d.list[i].on
               /\ r.list[i].type = d.list[i].type
               /\ r.list[i].hit_count # d.list[i].hit_count =>
                     /\ d.list[i].on /\ d.list[i].type \in Types
                     /\ r.list[i].hit_count = d.list[i].hit_count + 1
               /\ r.list[i].hit_count # d.list[i].hit_count <=>
                     \/ m.list[i].hit_count # d.list[i].hit_count
                     \/ r.list[i].hit_count # m.list[i].hit_count
    <2>1. /\ m.list[i].id = d.list[i].id /\ m.list[i].on = d.list[i].on
          /\ m.list[i].type = d.list[i].type
          /\ m.list[i].hit_count # d.list[i].hit_count =>
                /\ d.list[i].on /\ d.list[i].type = "line"
                /\ m.list[i].hit_count = d.list[i].hit_count + 1
      BY <1>1 DEF SameButHits
    <2>2. /\ r.list[i].id = m.list[i].id /\ r.list[i].on = m.list[i].on
          /\ r.list[i].type = m.list[i].type
          /\ r.list[i].hit_count # m.list[i].hit_count =>
                /\ m.list[i].on /\ m.list[i].type = "function"
                /\ r.list[i].hit_count = m.list[i].hit_count + 1
      BY <1>1, <1>2 DEF SameButHits
    <2>3. m.list[i].hit_count # d.list[i].hit_count
            => r.list[i].hit_count = m.list[i].hit_count
      BY <2>1, <2>2
    <2> QED
      BY <2>1, <2>2, <2>3 DEF Types
  <1>5. SameButHits(d.list, r.list, Types)
    BY <1>1, <1>2, <1>4 DEF SameButHits
  <1>6. Len(m.list) = Len(d.list)
    BY <1>1 DEF SameButHits
  <1>7. SomeHit(d.list, r.list) <=> SomeHit(d.list, m.list) \/ SomeHit(m.list, r.list)
    BY <1>4, <1>6 DEF SomeHit
  <1>8. IF SomeHit(d.list, r.list) THEN r.state = "BREAK" ELSE r.state = d.state
    BY <1>1, <1>2, <1>7
  <1> QED
    BY <1>1, <1>2, <1>5, <1>8 DEF r, m

-----------------------------------------------------------------------------
(* The breakpoint half.  While the prompt is open the debugger is stopped: *)
(* that is why a session which was quit cannot be resumed from there.      *)
DInv ==
    /\ TypeOK /\ IdsIdentify
    /\ prompting => StopsIn(debugger_state)

LEMMA DInvInit == Init => DInv
  <1> SUFFICES ASSUME Init PROVE DInv
    OBVIOUS
  <1>1. breakpoints \in Seq(Breakpoint) /\ DOMAIN breakpoints = {}
    BY DEF Init
  <1>2. TypeOK
    <2>1. next_breakpoint_id \in Nat \ {0} /\ logged \in [id : Nat, count : Nat]
      BY DEF Init, None
    <2>2. debugger_state \in States /\ current_line \in Line \union {"0"}
          /\ current_function \in Function \union {"none"}
      BY DEF Init, States
    <2>3. enabled \in BOOLEAN /\ prompting \in BOOLEAN
      BY DEF Init
    <2> QED
      BY <1>1, <2>1, <2>2, <2>3 DEF TypeOK
  <1>3. IdsIdentify
    BY <1>1 DEF IdsIdentify
  <1> QED
    BY <1>2, <1>3 DEF DInv, Init

(* What the list looks like after a hook, and what the hook does.          *)
LEMMA HookCounts ==
    ASSUME DInv, NEW line \in Line, NEW function \in Function, Hook(line, function)
    PROVE  /\ DInv' /\ SameButHits(breakpoints, breakpoints', Types)
           /\ debugger_state' \in {debugger_state, "BREAK"}
           /\ IF SomeHit(breakpoints, breakpoints') THEN debugger_state' = "BREAK"
              ELSE debugger_state' = debugger_state
           /\ prompting' = StopsIn(debugger_state')
           /\ debugger_state = "FINISHED" =>
                 debugger_state' = debugger_state /\ logged' = logged
  <1> DEFINE d == [list |-> breakpoints, state |-> debugger_state, log |-> logged]
             r == Check(Check(d, "line", line), "function", function)
  <1>1. /\ breakpoints' = r.list /\ debugger_state' = r.state /\ logged' = r.log
        /\ prompting' = StopsIn(debugger_state')
        /\ current_line' = line /\ current_function' = function
        /\ UNCHANGED <<enabled, next_breakpoint_id>>
    BY DEF Hook
  <1>2. Looked(d)
    BY DEF Looked, DInv, TypeOK, Log
  <1>3. /\ Looked(r) /\ SameButHits(d.list, r.list, Types)
        /\ r.state \in {d.state, "BREAK"}
        /\ IF SomeHit(d.list, r.list) THEN r.state = "BREAK" ELSE r.state = d.state
        /\ d.state = "FINISHED" => r = d
    BY <1>2, ChecksCount
  <1>4. d.list = breakpoints /\ d.state = debugger_state /\ d.log = logged
    OBVIOUS
  <1> HIDE DEF d, r
  <1>5. TypeOK'
    BY <1>1, <1>3 DEF DInv, TypeOK, Looked, Log, StopsIn
  <1>6. IdsIdentify'
    <2>1. DOMAIN breakpoints = 1 .. Len(breakpoints)
          /\ DOMAIN breakpoints' = 1 .. Len(breakpoints)
          /\ \A i \in 1 .. Len(breakpoints) : breakpoints'[i].id = breakpoints[i].id
      BY <1>1, <1>3, <1>4, <1>5 DEF DInv, TypeOK, SameButHits
    <2> QED
      BY <1>1, <2>1 DEF DInv, IdsIdentify
  <1> QED
    BY <1>1, <1>3, <1>4, <1>5, <1>6 DEF DInv

LEMMA DInvNext == DInv /\ [Next]_vars => DInv'
  <1> SUFFICES ASSUME DInv, [Next]_vars PROVE DInv'
    OBVIOUS
  <1>0. /\ breakpoints \in Seq(Breakpoint) /\ Len(breakpoints) \in Nat
        /\ DOMAIN breakpoints = 1 .. Len(breakpoints)
        /\ next_breakpoint_id \in Nat \ {0}
        /\ \A i \in 1 .. Len(breakpoints) : breakpoints[i] \in Breakpoint
        /\ \A i, j \in 1 .. Len(breakpoints) :
              i < j => breakpoints[i].id > breakpoints[j].id
        /\ \A i \in 1 .. Len(breakpoints) : breakpoints[i].id < next_breakpoint_id
    BY DEF DInv, TypeOK, IdsIdentify
  <1>1. ASSUME NEW type \in Types, NEW location \in Locations(type),
               SetBreakpoint(type, location)
        PROVE  DInv'
    <2> DEFINE new == [id |-> next_breakpoint_id, type |-> type,
                       location |-> location, on |-> TRUE, hit_count |-> 0]
    <2>1. new \in Breakpoint /\ new.id = next_breakpoint_id
      BY <1>0 DEF Breakpoint, Types, Locations
    <2>2. breakpoints' = <<new>> \o breakpoints
          /\ next_breakpoint_id' = next_breakpoint_id + 1
      BY <1>1 DEF SetBreakpoint
    <2> HIDE DEF new
    <2>3. /\ breakpoints' \in Seq(Breakpoint)
          /\ Len(breakpoints') = Len(breakpoints) + 1
          /\ breakpoints'[1] = new
          /\ \A i \in 1 .. Len(breakpoints) : breakpoints'[i + 1] = breakpoints[i]
      BY <1>0, <2>1, <2>2, PushElements
    <2>4. \A i \in 1 .. Len(breakpoints') :
             \/ i = 1 /\ breakpoints'[i].id = next_breakpoint_id
             \/ /\ i > 1 /\ i - 1 \in 1 .. Len(breakpoints)
                /\ breakpoints'[i] = breakpoints[i - 1]
      BY <1>0, <2>1, <2>3
    <2>5. DOMAIN breakpoints' = 1 .. Len(breakpoints')
      BY <2>3
    <2>6. \A i \in 1 .. Len(breakpoints) : breakpoints[i].id \in Nat
      BY <1>0 DEF Breakpoint
    <2>7. ASSUME NEW i \in 1 .. Len(breakpoints')
          PROVE  breakpoints'[i].id < next_breakpoint_id'
      <3>1. CASE breakpoints'[i].id = next_breakpoint_id
        BY <1>0, <2>2, <3>1
      <3>2. CASE i - 1 \in 1 .. Len(breakpoints) /\ breakpoints'[i] = breakpoints[i - 1]
        <4>1. breakpoints[i - 1].id \in Nat
              /\ breakpoints[i - 1].id < next_breakpoint_id
          BY <1>0, <2>6, <3>2
        <4> QED
          BY <1>0, <2>2, <3>2, <4>1
      <3> QED
        BY <2>4, <3>1, <3>2
    <2>8. ASSUME NEW i \in 1 .. Len(breakpoints'), NEW j \in 1 .. Len(breakpoints'),
                 i < j
          PROVE  breakpoints'[i].id > breakpoints'[j].id
      <3>1. j > 1 /\ j - 1 \in 1 .. Len(breakpoints)
            /\ breakpoints'[j] = breakpoints[j - 1]
        BY <2>4, <2>8
      <3>2. CASE i = 1
        BY <1>0, <2>1, <2>3, <2>6, <3>1, <3>2
      <3>3. CASE i # 1
        <4>1. i - 1 \in 1 .. Len(breakpoints) /\ breakpoints'[i] = breakpoints[i - 1]
              /\ i - 1 < j - 1
          BY <2>4, <2>8, <3>1, <3>3
        <4> QED
          BY <1>0, <3>1, <4>1
      <3> QED
        BY <3>2, <3>3
    <2>9. IdsIdentify'
      BY <2>5, <2>7, <2>8 DEF IdsIdentify
    <2> QED
      BY <1>0, <1>1, <2>2, <2>3, <2>9 DEF SetBreakpoint, DInv, TypeOK
  <1>2. ASSUME NEW id, RemoveBreakpoint(id) PROVE DInv'
    <2>1. PICK k \in 1 .. Len(breakpoints) : breakpoints' = RemoveAt(breakpoints, k)
      BY <1>0, <1>2 DEF RemoveBreakpoint
    <2>0. breakpoints \in Seq(Breakpoint)
      BY <1>0
    <2>2. /\ breakpoints' \in Seq(Breakpoint)
          /\ Len(breakpoints') = Len(breakpoints) - 1
          /\ \A i \in 1 .. Len(breakpoints) - 1 :
                breakpoints'[i] = IF i < k THEN breakpoints[i] ELSE breakpoints[i + 1]
      <3> HIDE <1>0
      <3> QED
        BY <2>0, <2>1, RemoveAtElements, Zenon
    <2> DEFINE was(i) == IF i < k THEN i ELSE i + 1
    <2>3. /\ DOMAIN breakpoints' = 1 .. Len(breakpoints) - 1
          /\ \A i \in 1 .. Len(breakpoints) - 1 :
                was(i) \in 1 .. Len(breakpoints) /\ breakpoints'[i] = breakpoints[was(i)]
          /\ \A i, j \in 1 .. Len(breakpoints) - 1 : i < j => was(i) < was(j)
      <3>1. Len(breakpoints) \in Nat /\ k \in 1 .. Len(breakpoints)
        BY <1>0
      <3>2. DOMAIN breakpoints' = 1 .. Len(breakpoints) - 1
        BY <2>2, <3>1
      <3>3. \A i \in 1 .. Len(breakpoints) - 1 : was(i) \in 1 .. Len(breakpoints)
        BY <3>1
      <3>4. \A i, j \in 1 .. Len(breakpoints) - 1 : i < j => was(i) < was(j)
        BY <3>1
      <3>5. \A i \in 1 .. Len(breakpoints) - 1 : breakpoints'[i] = breakpoints[was(i)]
        BY <2>2
      <3> QED
        BY <3>2, <3>3, <3>4, <3>5
    <2> HIDE DEF was
    <2>4. next_breakpoint_id' = next_breakpoint_id
      BY <1>2 DEF RemoveBreakpoint
    <2>5. IdsIdentify'
      BY <1>0, <2>3, <2>4 DEF IdsIdentify
    <2> QED
      BY <1>2, <2>2, <2>5 DEF RemoveBreakpoint, DInv, TypeOK
  <1>3. ASSUME NEW id, NEW on \in BOOLEAN, EnableBreakpoint(id, on) PROVE DInv'
    <2>1. PICK k \in 1 .. Len(breakpoints) :
             breakpoints' = [breakpoints EXCEPT ![k].on = on]
      BY <1>0, <1>3 DEF EnableBreakpoint
    <2> DEFINE b == breakpoints[k]
               b2 == [b EXCEPT !.on = on]
    <2>2. b \in Breakpoint
      BY <1>0
    <2>3. b2 \in Breakpoint /\ b2.id = b.id
      BY <2>2 DEF Breakpoint
    <2>4. breakpoints' = [breakpoints EXCEPT ![k] = b2]
      BY <2>1
    <2> HIDE DEF b2
    <2>5. /\ breakpoints' \in Seq(Breakpoint)
          /\ DOMAIN breakpoints' = 1 .. Len(breakpoints)
          /\ \A i \in 1 .. Len(breakpoints) : breakpoints'[i].id = breakpoints[i].id
      BY <1>0, <2>3, <2>4
    <2>6. IdsIdentify'
      BY <1>0, <1>3, <2>5 DEF EnableBreakpoint, IdsIdentify
    <2> QED
      BY <1>3, <2>5, <2>6 DEF EnableBreakpoint, DInv, TypeOK
  <1>4. ASSUME NEW on \in BOOLEAN, Enable(on) PROVE DInv'
    BY <1>4 DEF Enable, DInv, TypeOK, IdsIdentify
  <1>5. ASSUME NEW line \in Line, NEW function \in Function, Hook(line, function)
        PROVE  DInv'
    BY <1>5, HookCounts
  <1>6. ASSUME NEW command, NEW state \in States, Resume(command, state) PROVE DInv'
    BY <1>6 DEF Resume, DInv, TypeOK, IdsIdentify
  <1>7. CASE Inspect \/ UNCHANGED vars
    BY <1>7 DEF Inspect, vars, DInv, TypeOK, IdsIdentify
  <1>8. CASE InputEnds
    BY <1>8 DEF InputEnds, DInv, TypeOK, IdsIdentify
  <1> QED
    BY <1>1, <1>2, <1>3, <1>4, <1>5, <1>6, <1>7, <1>8 DEF Next

(* Every step of a session is one of the debugger's, or leaves it alone.   *)
LEMMA SessionIsDebugging == [SessionNext]_sessionVars => [Next]_vars
  BY DEF SessionNext, sessionVars, vars, Options, BeginGeneration, Generate,
         BeginExecution, Execute, Next

LEMMA AlwaysDInv == SessionSpec => []DInv
  <1>1. SessionInit => DInv
    BY DInvInit DEF SessionInit
  <1>2. DInv /\ [SessionNext]_sessionVars => DInv'
    BY SessionIsDebugging, DInvNext
  <1> QED
    BY <1>1, <1>2, PTL DEF SessionSpec

(* debug_set_breakpoint gives every breakpoint an id that no other has,    *)
(* ever had: however many are set and removed, an id names one breakpoint. *)
THEOREM IdsAreUnique == SessionSpec => []IdsIdentify
  BY AlwaysDInv, PTL DEF DInv

(* After "quit" no hook counts a hit, logs or stops, to the end.           *)
THEOREM QuitEnds == SessionSpec => QuitIsFinal
  <1> DEFINE A == debugger_state = "FINISHED"
                    => /\ debugger_state' = "FINISHED" /\ ~ prompting'
                       /\ logged' = logged
  <1>1. ASSUME DInv, [SessionNext]_sessionVars PROVE [A]_vars
    <2> SUFFICES ASSUME Next, debugger_state = "FINISHED"
                 PROVE  /\ debugger_state' = "FINISHED" /\ ~ prompting'
                        /\ logged' = logged
      BY <1>1, SessionIsDebugging
    <2>1. ~ prompting
      BY <1>1 DEF DInv, StopsIn
    <2>2. ASSUME NEW line \in Line, NEW function \in Function, Hook(line, function)
          PROVE  A
      BY <1>1, <2>2, HookCounts DEF StopsIn
    <2>3. CASE \E line \in Line, function \in Function : Hook(line, function)
      BY <2>2, <2>3
    <2>4. ASSUME NEW type, NEW location, SetBreakpoint(type, location) PROVE A
      BY <2>1, <2>4 DEF SetBreakpoint
    <2>5. ASSUME NEW id, RemoveBreakpoint(id) PROVE A
      BY <2>1, <2>5 DEF RemoveBreakpoint
    <2>6. ASSUME NEW id, NEW on, EnableBreakpoint(id, on) PROVE A
      BY <2>1, <2>6 DEF EnableBreakpoint
    <2>7. ASSUME NEW on, Enable(on) PROVE A
      BY <2>1, <2>7 DEF Enable
    <2> QED
      BY <2>1, <2>3, <2>4, <2>5, <2>6, <2>7 DEF Next, Resume, Inspect, InputEnds
  <1> QED
    BY <1>1, AlwaysDInv, PTL DEF SessionSpec, QuitIsFinal

(* "step" stops at the very next call of the hook, hit or no hit.          *)
THEOREM StepStops == SessionSpec => StepStopsNext
  <1> DEFINE A == (debugger_state = "STEP"
                     /\ \E l \in Line, f \in Function : Hook(l, f)) => prompting'
  <1>1. ASSUME DInv, [SessionNext]_sessionVars PROVE [A]_vars
    BY <1>1, HookCounts DEF StopsIn
  <1> QED
    BY <1>1, AlwaysDInv, PTL DEF SessionSpec, StepStopsNext

(* For any list, however it came about: debug_check_breakpoint counts and  *)
(* stops together, and counts for breakpoints that are on only.            *)
THEOREM HitsAndStops == SessionSpec => HitsExplainStops
  <1> DEFINE A == (\E l \in Line, f \in Function : Hook(l, f))
         => /\ \A i \in DOMAIN breakpoints : Rises(i) =>
                  /\ breakpoints[i].on
                  /\ breakpoints'[i].hit_count = breakpoints[i].hit_count + 1
            /\ debugger_state = "RUNNING" =>
                  (prompting' <=> \E i \in DOMAIN breakpoints : Rises(i))
  <1>1. ASSUME DInv, [SessionNext]_sessionVars PROVE [A]_vars
    <2>1. DOMAIN breakpoints = 1 .. Len(breakpoints)
      BY <1>1 DEF DInv, TypeOK
    <2>2. ASSUME NEW l \in Line, NEW f \in Function, Hook(l, f)
          PROVE  /\ SameButHits(breakpoints, breakpoints', Types)
                 /\ prompting' = StopsIn(debugger_state')
                 /\ IF SomeHit(breakpoints, breakpoints') THEN debugger_state' = "BREAK"
                    ELSE debugger_state' = debugger_state
      BY <1>1, <2>2, HookCounts
    <2>3. SomeHit(breakpoints, breakpoints') <=> \E i \in DOMAIN breakpoints : Rises(i)
      BY <2>1 DEF SomeHit, Rises
    <2>4. SameButHits(breakpoints, breakpoints', Types) =>
              \A i \in DOMAIN breakpoints : Rises(i) =>
                  /\ breakpoints[i].on
                  /\ breakpoints'[i].hit_count = breakpoints[i].hit_count + 1
      BY <2>1 DEF SameButHits, Rises
    <2>5. A
      BY <2>2, <2>3, <2>4 DEF StopsIn
    <2> QED
      BY <2>5
  <1> QED
    BY <1>1, AlwaysDInv, PTL DEF SessionSpec, HitsExplainStops

-----------------------------------------------------------------------------
(* The tracing half.  Of the calls still open only the innermost ones, up  *)
(* to the first that a failure has doomed, can end: their CALL lines are   *)
(* one step apart, and a timing under way is that of the innermost.        *)
Live == Len(open) - doomed

CInv ==
    /\ Trace!TypeOK
    /\ lines \in [call : Nat, ret : Nat, open : Seq(Nat)]
    /\ timed \in [logged : Nat, true : Nat]
    /\ Len(lines.open) = Len(open)
    /\ \A i \in 1 .. Live : lines.open[i] = Len(open) - i + leaked
    /\ \A i \in 1 .. Len(open) : open[i] <= now
    /\ perf_start_time <= now
    /\ (perf_start_time # 0 /\ PerfEnabled /\ Live > 0) => perf_start_time = open[1]
    /\ ReturnsUnderItsCall
    /\ LoggedDurationIsItsOwn

(* What is left of a list of open calls when the innermost n are given up. *)
LEMMA Drops ==
    ASSUME NEW S, NEW s \in Seq(S), NEW n \in 1 .. Len(s)
    PROVE  /\ SubSeq(s, n + 1, Len(s)) \in Seq(S)
           /\ Len(SubSeq(s, n + 1, Len(s))) = Len(s) - n
           /\ \A i \in 1 .. Len(s) - n : SubSeq(s, n + 1, Len(s))[i] = s[n + i]
  <1> DEFINE t == SubSeq(s, n + 1, Len(s))
  <1>1. Len(s) \in Nat /\ n + 1 \in Int /\ \A i \in n + 1 .. Len(s) : s[i] \in S
    OBVIOUS
  <1>2. /\ t \in Seq(S)
        /\ Len(t) = IF n + 1 <= Len(s) THEN Len(s) - (n + 1) + 1 ELSE 0
        /\ \A i \in 1 .. Len(s) - (n + 1) + 1 : t[i] = s[(n + 1) + i - 1]
    BY <1>1, SubSeqProperties
  <1> HIDE DEF t
  <1>3. \A i \in 1 .. Len(s) - n : i \in 1 .. Len(s) - (n + 1) + 1
                                  /\ (n + 1) + i - 1 = n + i
    BY <1>1
  <1>4. /\ t \in Seq(S) /\ Len(t) = Len(s) - n
        /\ \A i \in 1 .. Len(s) - n : t[i] = s[n + i]
    BY <1>1, <1>2, <1>3
  <1> QED
    BY <1>4 DEF t

LEMMA CInvInit == Trace!Init => CInv
  <1> SUFFICES ASSUME Trace!Init PROVE CInv
    OBVIOUS
  <1>1. /\ open = <<>> /\ doomed = 0 /\ leaked = 0 /\ now = 1
        /\ indent_level = 0 /\ perf_start_time = 0
        /\ lines = [call |-> 0, ret |-> 0, open |-> <<>>]
        /\ timed = [logged |-> 0, true |-> 0]
    BY DEF Trace!Init, Trace!Nothing
  <1>2. Trace!TypeOK
    BY <1>1, TraceAssumption DEF Trace!TypeOK
  <1> QED
    BY <1>1, <1>2 DEF CInv, Live, ReturnsUnderItsCall, LoggedDurationIsItsOwn,
                      Trace!ReturnsUnderItsCall, Trace!LoggedDurationIsItsOwn

LEMMA CInvNext ==
    ASSUME CInv, Trace!Next \/ BeginExecution \/ UNCHANGED traceVars PROVE CInv'
  <1>0. /\ indent_level \in Nat /\ leaked \in Nat /\ indent_level = Len(open) + leaked
        /\ now \in 1 .. MaxTime /\ perf_start_time \in 0 .. MaxTime
        /\ perf_start_time <= now
        /\ open \in Seq(1 .. MaxTime) /\ Len(open) \in Nat /\ doomed \in 0 .. Len(open)
        /\ lines \in [call : Nat, ret : Nat, open : Seq(Nat)]
        /\ lines.open \in Seq(Nat) /\ Len(lines.open) = Len(open)
        /\ lines.ret = lines.call
        /\ timed \in [logged : Nat, true : Nat] /\ timed.logged = timed.true
        /\ \A i \in 1 .. Len(open) - doomed : lines.open[i] = Len(open) - i + leaked
        /\ \A i \in 1 .. Len(open) : open[i] <= now
        /\ (perf_start_time # 0 /\ PerfEnabled /\ Len(open) > doomed)
             => perf_start_time = open[1]
        /\ MaxTime \in Nat
    BY TraceAssumption DEF CInv, Trace!TypeOK, Live, ReturnsUnderItsCall,
       LoggedDurationIsItsOwn, Trace!ReturnsUnderItsCall, Trace!LoggedDurationIsItsOwn
  <1> DEFINE
        Levels == /\ indent_level' \in Nat /\ leaked' \in Nat
                  /\ indent_level' = Len(open') + leaked'
        Calls == /\ open' \in Seq(1 .. MaxTime) /\ doomed' \in 0 .. Len(open')
                 /\ now' \in 1 .. MaxTime
                 /\ \A i \in 1 .. Len(open') : open'[i] <= now'
        Written == /\ lines' \in [call : Nat, ret : Nat, open : Seq(Nat)]
                   /\ lines'.ret = lines'.call
                   /\ Len(lines'.open) = Len(open')
                   /\ \A i \in 1 .. Len(open') - doomed' :
                         lines'.open[i] = Len(open') - i + leaked'
        Times == /\ timed' \in [logged : Nat, true : Nat] /\ timed'.logged = timed'.true
        Start == /\ perf_start_time' \in 0 .. MaxTime /\ perf_start_time' <= now'
                 /\ (perf_start_time' # 0 /\ PerfEnabled /\ Len(open') > doomed')
                      => perf_start_time' = open'[1]
  <1>0a. ASSUME NEW l \in Nat, NEW d \in Nat
        PROVE  l - d > 0 <=> l > d
    OBVIOUS
  <1>1. SUFFICES Levels /\ Calls /\ Written /\ Times /\ Start
    <2>1. Live' = Len(open') - doomed'
      BY DEF Live
    <2>2. Len(open') \in Nat /\ doomed' \in Nat
      BY <1>1
    <2>3. Live' > 0 <=> Len(open') > doomed'
      BY <1>0a, <2>1, <2>2, Zenon
    <2>4. lines'.call \in Nat /\ lines'.ret \in Nat /\ lines'.open \in Seq(Nat)
      BY <1>1
    <2>5. Trace!TypeOK'
      BY <2>4 DEF Trace!TypeOK
    <2>6. ReturnsUnderItsCall' /\ LoggedDurationIsItsOwn'
      BY DEF ReturnsUnderItsCall, LoggedDurationIsItsOwn,
             Trace!ReturnsUnderItsCall, Trace!LoggedDurationIsItsOwn
    <2> QED
      BY <1>1, <2>1, <2>3, <2>5, <2>6 DEF CInv
  <1>2. ASSUME Trace!Tick
        PROVE  now' \in 1 .. MaxTime /\ now <= now'
    BY <1>0, <1>2 DEF Trace!Tick
  <1>3. CASE Trace!StartCall
    <2>1. /\ now' \in 1 .. MaxTime /\ now <= now'
          /\ lines' = [lines EXCEPT !.open = <<indent_level>> \o @]
          /\ open' = <<now'>> \o open /\ indent_level' = indent_level + 1
          /\ UNCHANGED <<doomed, timed, leaked>>
      BY <1>2, <1>3 DEF Trace!StartCall
    <2> DEFINE lo == <<indent_level>> \o lines.open
               op == <<now'>> \o open
    <2>0. indent_level \in Nat /\ lines.open \in Seq(Nat) /\ open \in Seq(1 .. MaxTime)
          /\ Len(open) \in Nat /\ Len(lines.open) = Len(open) /\ doomed \in 0 .. Len(open)
      BY <1>0
    <2>2. /\ lo \in Seq(Nat) /\ Len(lo) = Len(open) + 1 /\ lo[1] = indent_level
          /\ \A i \in 1 .. Len(open) : lo[i + 1] = lines.open[i]
      BY <2>0, PushElements
    <2>3. /\ op \in Seq(1 .. MaxTime) /\ Len(op) = Len(open) + 1 /\ op[1] = now'
          /\ \A i \in 1 .. Len(open) : op[i + 1] = open[i]
      <3>1. now' \in 1 .. MaxTime /\ open \in Seq(1 .. MaxTime)
        BY <2>0, <2>1
      <3> QED
        BY <3>1, PushElements
    <2>4. /\ open' = op /\ lines'.open = lo /\ lines'.ret = lines.ret
          /\ lines'.call = lines.call
          /\ lines' \in [call : Nat, ret : Nat, open : Seq(Nat)]
      BY <1>0, <2>1, <2>2
    <2> HIDE DEF lo, op
    <2>5. ASSUME NEW i \in 1 .. Len(open) + 1 - doomed
          PROVE  lo[i] = Len(open) + 1 - i + leaked
      <3>1. CASE i = 1
        BY <1>0, <2>2, <3>1
      <3>2. CASE i # 1
        <4>1. i - 1 \in 1 .. Len(open) - doomed /\ i - 1 \in 1 .. Len(open)
          BY <1>0, <3>2
        <4>2. lo[(i - 1) + 1] = lines.open[i - 1]
          BY <2>2, <4>1
        <4> QED
          BY <1>0, <4>1, <4>2
      <3> QED
        BY <3>1, <3>2
    <2>6. ASSUME NEW i \in 1 .. Len(open) + 1 PROVE op[i] <= now'
      <3>1. CASE i = 1
        BY <1>0, <2>1, <2>3, <3>1
      <3>2. CASE i # 1
        <4> DEFINE j == i - 1
        <4>1. j \in 1 .. Len(open) /\ i = j + 1
          BY <2>0, <3>2
        <4> HIDE DEF j
        <4>2. op[i] = open[j]
          BY <2>3, <4>1
        <4>3. open[j] <= now /\ open[j] \in 1 .. MaxTime /\ now \in 1 .. MaxTime
          BY <1>0, <4>1
        <4> QED
          BY <2>1, <4>2, <4>3
      <3> QED
        BY <3>1, <3>2
    <2>7. \/ perf_start_time' = now' /\ PerfEnabled
          \/ perf_start_time' = perf_start_time /\ ~ PerfEnabled
      BY <1>3 DEF Trace!StartCall, Trace!PerfStarted
    <2>8. Levels
      <3>1. indent_level' = indent_level + 1 /\ leaked' = leaked
            /\ Len(open') = Len(open) + 1
        BY <2>1, <2>3, <2>4
      <3>2. indent_level = Len(open) + leaked /\ indent_level \in Nat
            /\ leaked \in Nat /\ Len(open) \in Nat
        BY <1>0
      <3> QED
        BY <3>1, <3>2
    <2>9. Calls
      <3>1. open' \in Seq(1 .. MaxTime) /\ Len(open') = Len(open) + 1
            /\ \A i \in 1 .. Len(open') : open'[i] <= now'
        BY <2>3, <2>4, <2>6
      <3>2. doomed' \in 0 .. Len(open')
        BY <2>0, <2>1, <3>1
      <3> QED
        BY <2>1, <3>1, <3>2
    <2>10. Written
      <3>1. lines'.ret = lines'.call
        BY <1>0, <2>4
      <3>2. Len(open') = Len(open) + 1 /\ doomed' = doomed /\ leaked' = leaked
        BY <2>1, <2>3, <2>4
      <3>3. ASSUME NEW i \in 1 .. Len(open') - doomed'
            PROVE  lines'.open[i] = Len(open') - i + leaked'
        <4>1. i \in 1 .. Len(open) + 1 - doomed
          BY <2>0, <3>2
        <4> QED
          BY <2>4, <2>5, <3>2, <4>1
      <3>4. Len(lines'.open) = Len(open')
        BY <2>2, <2>4, <3>2
      <3> QED
        BY <2>4, <3>1, <3>3, <3>4
    <2>11. Times
      BY <1>0, <2>1
    <2>12. Start
      <3>1. perf_start_time \in 0 .. MaxTime /\ perf_start_time <= now
            /\ now \in 1 .. MaxTime /\ MaxTime \in Nat
        BY <1>0
      <3> QED
        BY <2>1, <2>3, <2>4, <2>7, <3>1
    <2> QED
      BY <2>8, <2>9, <2>10, <2>11, <2>12
  <1>4. CASE Trace!EndCall
    <2>1. /\ now' \in 1 .. MaxTime /\ now <= now' /\ Len(open) > doomed
          /\ open' = Tail(open) /\ indent_level' = Trace!Decreased
          /\ lines' = [call |-> Head(lines.open), ret |-> indent_level',
                       open |-> Tail(lines.open)]
          /\ UNCHANGED <<doomed, leaked>>
      BY <1>2, <1>4 DEF Trace!EndCall
    <2>2. open # <<>> /\ lines.open # <<>> /\ Len(open) >= 1
      BY <1>0, <2>1
    <2>3. /\ open' \in Seq(1 .. MaxTime) /\ Len(open') = Len(open) - 1
          /\ Head(open) = open[1] /\ open[1] \in 1 .. MaxTime
          /\ \A i \in 1 .. Len(open) - 1 : open'[i] = open[i + 1]
      <3>1. open \in Seq(1 .. MaxTime)
        BY <1>0
      <3>2. open' = Tail(open)
        BY <2>1
      <3> QED
        BY <2>2, <3>1, <3>2, TailElements
    <2> DEFINE lo == Tail(lines.open)
    <2>4. /\ lo \in Seq(Nat) /\ Len(lo) = Len(open) - 1
          /\ Head(lines.open) = lines.open[1]
          /\ \A i \in 1 .. Len(open) - 1 : lo[i] = lines.open[i + 1]
      <3>1. lines.open \in Seq(Nat) /\ Len(lines.open) = Len(open)
        BY <1>0
      <3> QED
        BY <2>2, <3>1, TailElements
    <2> HIDE DEF lo
    <2>5. indent_level' = Len(open) - 1 + leaked /\ indent_level' \in Nat
      <3>1. /\ indent_level = Len(open) + leaked /\ leaked \in Nat
            /\ Len(open) \in Nat /\ Len(open) >= 1
        BY <1>0, <2>2
      <3>2. indent_level' = IF indent_level > 0 THEN indent_level - 1 ELSE 0
        BY <2>1 DEF Trace!Decreased
      <3> QED
        BY <3>1, <3>2
    <2>6. lines.open[1] = Len(open) - 1 + leaked
      BY <1>0, <2>1, <2>2
    <2>7. /\ lines'.open = lo /\ lines'.ret = lines'.call
          /\ lines' \in [call : Nat, ret : Nat, open : Seq(Nat)]
      BY <2>1, <2>4, <2>5, <2>6 DEF lo
    <2>8. \A i \in 1 .. Len(open) - 1 - doomed : lo[i] = Len(open) - 1 - i + leaked
      <3>1. \A i \in 1 .. Len(open) - 1 - doomed :
              i + 1 \in 1 .. Len(open) - doomed /\ i \in 1 .. Len(open) - 1
        BY <1>0
      <3> QED
        BY <1>0, <2>4, <3>1
    <2>9. \A i \in 1 .. Len(open) - 1 : open'[i] <= now'
      <3>1. \A i \in 1 .. Len(open) - 1 :
              /\ i + 1 \in 1 .. Len(open) /\ open[i + 1] <= now
              /\ open[i + 1] \in 1 .. MaxTime
        BY <1>0
      <3> QED
        BY <1>0, <2>1, <2>3, <3>1
    <2>10. /\ timed' \in [logged : Nat, true : Nat] /\ timed'.logged = timed'.true
           /\ perf_start_time' = 0 \/ (perf_start_time' = perf_start_time /\ ~ PerfEnabled)
      <3>1. CASE PerfEnabled /\ perf_start_time # 0
        <4>1. /\ timed' = [logged |-> now' - perf_start_time, true |-> now' - Head(open)]
              /\ perf_start_time' = 0
          BY <1>4, <3>1 DEF Trace!EndCall
        <4>2. perf_start_time = open[1]
          BY <1>0, <2>1, <3>1
        <4>3. perf_start_time \in Int /\ now \in Int /\ now' \in Int
              /\ perf_start_time <= now /\ now <= now'
          BY <1>0, <2>1
        <4>4. perf_start_time = Head(open) /\ now' - perf_start_time \in Nat
          BY <2>3, <4>2, <4>3
        <4> QED
          BY <4>1, <4>4
      <3>2. CASE ~ (PerfEnabled /\ perf_start_time # 0)
        <4>1. /\ timed' = [logged |-> 0, true |-> 0]
              /\ perf_start_time' = perf_start_time
          BY <1>4, <3>2 DEF Trace!EndCall, Trace!Nothing
        <4> QED
          BY <3>2, <4>1
      <3> QED
        BY <3>1, <3>2
    <2>11. Levels
      BY <1>0, <2>1, <2>3, <2>5
    <2>12. Calls
      BY <1>0, <2>1, <2>3, <2>9
    <2>13. Written
      <3>1. Len(open') = Len(open) - 1 /\ doomed' = doomed /\ leaked' = leaked
        BY <2>1, <2>3
      <3> QED
        BY <2>4, <2>7, <2>8, <3>1
    <2>14. Start
      <3>1. perf_start_time \in 0 .. MaxTime /\ perf_start_time <= now
            /\ now \in 1 .. MaxTime /\ MaxTime \in Nat
        BY <1>0
      <3> QED
        BY <2>1, <2>10, <3>1
    <2> QED
      BY <2>10, <2>11, <2>12, <2>13, <2>14
  <1>5. CASE \E n \in 1 .. Len(open) : Trace!Fail(n)
    <2>1. PICK n \in 1 .. Len(open) : Trace!Fail(n)
      BY <1>5
    <2> DEFINE op == SubSeq(open, n + 1, Len(open))
               lo == SubSeq(lines.open, n + 1, Len(open))
    <2>2. /\ leaked' = leaked + n /\ doomed' = Len(open) - n /\ open' = op
          /\ lines' = [lines EXCEPT !.open = lo]
          /\ UNCHANGED <<indent_level, perf_start_time, now, timed>>
      BY <1>0, <2>1 DEF Trace!Fail
    <2>3. /\ op \in Seq(1 .. MaxTime) /\ Len(op) = Len(open) - n
          /\ \A i \in 1 .. Len(open) - n : op[i] = open[n + i]
      <3>1. open \in Seq(1 .. MaxTime)
        BY <1>0
      <3> QED
        BY <3>1, Drops
    <2>4. lo \in Seq(Nat) /\ Len(lo) = Len(open) - n
      <3>1. lines.open \in Seq(Nat) /\ Len(lines.open) = Len(open)
        BY <1>0
      <3> QED
        BY <3>1, Drops
    <2> HIDE DEF op, lo
    <2>5. /\ lines'.open = lo /\ lines'.ret = lines.ret /\ lines'.call = lines.call
          /\ lines' \in [call : Nat, ret : Nat, open : Seq(Nat)]
      BY <1>0, <2>2, <2>4
    <2>6. \A i \in 1 .. Len(open) - n : op[i] <= now
      <3>1. \A i \in 1 .. Len(open) - n : n + i \in 1 .. Len(open)
        BY <1>0
      <3> QED
        BY <1>0, <2>3, <3>1
    <2>0. Len(open) \in Nat /\ doomed' = Len(open') /\ Len(open') = Len(open) - n
      BY <1>0, <2>2, <2>3
    <2>7. Levels
      <3>1. /\ indent_level = Len(open) + leaked /\ leaked \in Nat
            /\ indent_level \in Nat
        BY <1>0
      <3>2. indent_level' = indent_level /\ leaked' = leaked + n
        BY <2>2
      <3> QED
        BY <2>0, <3>1, <3>2
    <2>8. Calls
      BY <1>0, <2>0, <2>2, <2>3, <2>6
    <2>9. Written
      <3>1. 1 .. Len(open') - doomed' = {} /\ Len(lines'.open) = Len(open')
        BY <2>0, <2>2, <2>4, <2>5
      <3>2. lines.ret = lines.call
        BY <1>0
      <3> QED
        BY <2>5, <3>1, <3>2
    <2>10. Times
      BY <1>0, <2>2
    <2>11. Start
      BY <1>0, <2>0, <2>2
    <2> QED
      BY <2>7, <2>8, <2>9, <2>10, <2>11
  <1>6. CASE BeginExecution
    <2>1. /\ open = <<>> /\ open' = <<>> /\ doomed' = 0 /\ perf_start_time' = 0
          /\ now' = 1 /\ lines' = [call |-> 0, ret |-> 0, open |-> <<>>]
          /\ timed' = [logged |-> 0, true |-> 0]
          /\ indent_level' = indent_level /\ leaked' = leaked
      BY <1>6 DEF BeginExecution, Trace!Nothing
    <2>2. 1 \in 1 .. MaxTime /\ MaxTime \in Nat
      BY TraceAssumption
    <2> QED
      BY <1>0, <2>1, <2>2
  <1>7. CASE UNCHANGED traceVars
    BY <1>0, <1>7 DEF traceVars
  <1> QED
    BY <1>3, <1>4, <1>5, <1>6, <1>7 DEF Trace!Next

LEMMA AlwaysCInv == SessionSpec => []CInv
  <1>1. SessionInit => CInv
    BY CInvInit DEF SessionInit
  <1>2. ASSUME CInv, [SessionNext]_sessionVars PROVE CInv'
    <2>1. Trace!Next \/ BeginExecution \/ UNCHANGED traceVars
      BY <1>2 DEF SessionNext, sessionVars, traceVars, Options, BeginGeneration,
                  Generate, Execute
    <2> QED
      BY <1>2, <2>1, CInvNext
  <1> QED
    BY <1>1, <1>2, PTL DEF SessionSpec

(* A RET line stands under its own CALL line, whatever arguments in        *)
(* between could not be generated, and debug_indent_decrease never has to  *)
(* stop at 0.                                                              *)
THEOREM ReturnsMatchCalls == SessionSpec => []ReturnsUnderItsCall
  BY AlwaysCInv, PTL DEF CInv

(* debug_perf_end logs the duration of the call it is called for, or none. *)
THEOREM DurationsAreTrue == SessionSpec => []LoggedDurationIsItsOwn
  BY AlwaysCInv, PTL DEF CInv

(* Both halves of the debug context are well-formed in every phase.        *)
THEOREM SessionWellFormed == SessionSpec => []SessionTypeOK
  <1> DEFINE Phase == phase \in {"options", "generate", "execute"}
  <1>1. SessionInit => Phase
    BY DEF SessionInit
  <1>2. Phase /\ [SessionNext]_sessionVars => Phase'
    BY DEF SessionNext, sessionVars, Options, BeginGeneration, Generate,
           BeginExecution, Execute
  <1>3. DInv /\ CInv /\ Phase => SessionTypeOK
    BY DEF DInv, CInv, SessionTypeOK
  <1> QED
    BY <1>1, <1>2, <1>3, AlwaysDInv, AlwaysCInv, PTL DEF SessionSpec
=============================================================================
