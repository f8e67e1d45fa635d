---------------------------- MODULE ServerProofs ----------------------------
(***************************************************************************)
(* What TLAPS proves about Server, for any number of connections and of    *)
(* threads.                                                                *)
(***************************************************************************)
EXTENDS Server, FiniteSetTheorems, TLAPS

Serving == {c \in Conns : status[c] = "serving"}

(* Where the accept loop is, and what it and the single thread serve. *)
Place ==
    /\ loop \in {"configure", "dispatch"} => cur \in Conns /\ status[cur] = "accepted"
    /\ \A c \in Conns : status[c] = "accepted" => c = cur /\ loop \in {"configure", "dispatch"}
    /\ loop = "serving" => cur \in Conns /\ status[cur] = "serving" /\ settings.mode = "single"
    /\ settings.mode = "single" =>
        queue = << >> /\ \A c \in Conns : status[c] = "serving" => c = cur /\ loop = "serving"
    /\ exited =>
        loop = "ended" /\ queue = << >> /\ \A c \in Conns : status[c] \notin Waiting \cup {"serving"}

(* Connections reach each stage in their order. *)
Stages ==
    \A c, d \in Conns : c < d =>
        /\ status[c] = "new" => status[d] = "new"
        /\ status[c] \in {"backlog", "accepted"} => status[d] \in {"new", "backlog"}
        /\ status[c] = "queued" => status[d] \notin Begun

(* Those that wait for a thread are the queue of the pool. *)
Queued ==
    /\ \A i \in 1..Len(queue) : queue[i] \in Conns /\ status[queue[i]] = "queued"
    /\ \A c \in Conns : status[c] = "queued" => \E i \in 1..Len(queue) : queue[i] = c
    /\ \A i, j \in 1..Len(queue) : i < j => queue[i] < queue[j]

Order == Stages /\ Queued

(* Every thread is free or serves. *)
Threads ==
    /\ settings.mode = "single" => free = settings.max_threads
    /\ settings.mode # "single" /\ ~exited => Cardinality(Serving) + free = settings.max_threads

ServerInv == TypeOK /\ Place /\ Order /\ Threads

-----------------------------------------------------------------------------
(* The number of threads is a positive number, whatever the server. *)
LEMMA SettingsType == TypeOK => settings.max_threads \in Nat \ {0} /\ settings \in SettingRecords
  BY ServerAssumption DEF TypeOK, SettingRecords

LEMMA ConnsFinite ==
    ASSUME NEW S \in SUBSET Conns
    PROVE  IsFiniteSet(S) /\ Cardinality(S) \in Nat
  <1>1. S \subseteq 1..MaxConns
    BY DEF Conns
  <1>2. IsFiniteSet(1..MaxConns)
    BY ServerAssumption, FS_Interval
  <1> QED
    BY <1>1, <1>2, FS_Subset, FS_CardinalityType

LEMMA ServingFinite == IsFiniteSet(Serving)
  BY ConnsFinite DEF Serving

LEMMA InitInv == Init => ServerInv
  <1> SUFFICES ASSUME Init PROVE ServerInv
    OBVIOUS
  <1> USE DEF Init
  <1>1. TypeOK
    <2>1. settings \in SettingRecords /\ MaxConns \in Nat
      BY ServerAssumption
    <2>2. free \in 0..settings.max_threads /\ queue \in Seq(Conns)
      BY <2>1 DEF SettingRecords
    <2>3. status \in [Conns -> Statuses] /\ limit \in [Conns -> {"none", "set"}]
      BY DEF Statuses
    <2>4. gone \subseteq Conns /\ idle \subseteq Conns /\ cur \in 0..MaxConns
      BY <2>1
    <2>5. settings \in Settings /\ cause = "none" /\ exited \in BOOLEAN /\ loop = "accept"
      OBVIOUS
    <2> HIDE DEF Init
    <2> QED
      BY <2>2, <2>3, <2>4, <2>5 DEF TypeOK
  <1>2. Place /\ Order
    BY DEF Place, Order, Stages, Queued, Conns
  <1>3. Serving = {}
    BY DEF Serving
  <1>4. Threads
    BY <1>1, <1>3, FS_EmptySet, SettingsType DEF Threads
  <1> QED
    BY <1>1, <1>2, <1>4 DEF ServerInv

-----------------------------------------------------------------------------
(* The loop and the stages of the connections. *)
LEMMA PlaceStep == ServerInv /\ [Next]_vars => Place'
  <1> SUFFICES ASSUME TypeOK, Place, Order, [Next]_vars PROVE Place'
    BY DEF ServerInv
  <1> USE DEF TypeOK, Place, loopVars, poolVars, connVars, Statuses, Waiting, Begun, Conns
  <1>1. ASSUME NEW c \in Conns, Connect(c) PROVE Place'
    BY <1>1 DEF Connect
  <1>2. ASSUME NEW c \in Conns, HangUp(c) PROVE Place'
    BY <1>2 DEF HangUp
  <1>3. ASSUME NEW c \in Conns, FallSilent(c) PROVE Place'
    BY <1>3 DEF FallSilent
  <1>4. ASSUME NEW c \in Conns, Return(c) PROVE Place'
    BY <1>4 DEF Return, NextConn
  <1>5. ASSUME NEW c \in Conns, Panic(c) PROVE Place'
    BY <1>5 DEF Panic, EndLoop
  <1>6. ASSUME NEW c \in Conns, Accept(c) PROVE Place'
    BY <1>6 DEF Accept
  <1>7. CASE Configure
    BY <1>7 DEF Configure, DropConn, NextConn
  <1>8. CASE DispatchServe
    BY <1>8 DEF DispatchServe, Execute, NextConn
  <1>9. CASE DispatchMake
    BY <1>9 DEF DispatchMake, Execute, DropConn, NextConn
  <1>10. CASE DispatchSingle
    BY <1>10 DEF DispatchSingle
  <1>11. CASE AcceptFails
    BY <1>11 DEF AcceptFails, EndLoop
  <1>12. CASE MakePanics
    BY <1>12 DEF MakePanics, EndLoop
  <1>13. CASE TakeJob
    <2>1. queue # << >> => Head(queue) \in Conns /\ status[Head(queue)] = "queued"
      BY DEF Order, Queued
    <2> QED
      BY <1>13, <2>1 DEF TakeJob
  <1>14. CASE Exit
    BY <1>14 DEF Exit
  <1>15. CASE Exited
    BY <1>15 DEF Exited, vars
  <1>16. CASE UNCHANGED vars
    BY <1>16 DEF vars
  <1> QED
    BY <1>1, <1>2, <1>3, <1>4, <1>5, <1>6, <1>7, <1>8, <1>9, <1>10, <1>11, <1>12, <1>13, <1>14,
       <1>15, <1>16 DEF Next, LoopStep

LEMMA StagesStep == ServerInv /\ [Next]_vars => Stages'
  <1> SUFFICES ASSUME TypeOK, Place, Stages, Queued, [Next]_vars PROVE Stages'
    BY DEF ServerInv, Order
  <1> USE DEF Stages, loopVars, poolVars, connVars, Statuses, Waiting, Begun, Conns
  <1>0. status \in [Conns -> Statuses]
    BY DEF TypeOK
  <1>1. ASSUME NEW c \in Conns, NEW s \in {"dropped", "closed"},
               status[c] \in {"accepted", "serving"}, s = "closed" => status[c] = "serving",
               status' = [status EXCEPT ![c] = s]
        PROVE  Stages'
    BY <1>0, <1>1
  <1>2. ASSUME NEW c \in Conns, NEW s \in {"dropped", "closed"},
               status[c] \in {"accepted", "serving"}, s = "closed" => status[c] = "serving",
               \A d \in Conns : status[d] = "accepted" => d = c,
               EndLoop([status EXCEPT ![c] = s])
        PROVE  Stages'
    <2>1. \A d \in Conns : status'[d] = IF d = c THEN s ELSE IF status[d] = "backlog" THEN "cut" ELSE status[d]
      BY <1>0, <1>2 DEF EndLoop
    <2> QED
      BY <1>0, <1>2, <2>1
  <1>3. ASSUME NEW c \in Conns, Connect(c) PROVE Stages'
    BY <1>0, <1>3 DEF Connect
  <1>4. ASSUME NEW c \in Conns, HangUp(c) \/ FallSilent(c) PROVE Stages'
    BY <1>4 DEF HangUp, FallSilent
  <1>5. ASSUME NEW c \in Conns, Return(c) PROVE Stages'
    BY <1>1, <1>5 DEF Return
  <1>6. ASSUME NEW c \in Conns, Panic(c) PROVE Stages'
    BY <1>1, <1>2, <1>6 DEF Panic, Place
  <1>7. ASSUME NEW c \in Conns, Accept(c) PROVE Stages'
    BY <1>0, <1>7 DEF Accept, Place
  <1>8. CASE Configure
    BY <1>1, <1>8 DEF Configure, DropConn, Place
  <1>9. ASSUME Execute, loop = "dispatch" PROVE Stages'
    BY <1>0, <1>9 DEF Execute, Place
  <1>10. CASE DispatchServe \/ DispatchMake
    BY <1>1, <1>9, <1>10 DEF DispatchServe, DispatchMake, DropConn, Place
  <1>11. CASE DispatchSingle
    <2>1. \A c \in Conns : status[c] # "queued"
      BY <1>11 DEF DispatchSingle, Place, Queued
    <2>2. cur \in Conns /\ status[cur] = "accepted"
      BY <1>11 DEF DispatchSingle, Place
    <2> QED
      BY <1>0, <1>11, <2>1, <2>2 DEF DispatchSingle
  <1>12. CASE AcceptFails
    BY <1>0, <1>12 DEF AcceptFails, EndLoop, Place
  <1>13. CASE MakePanics
    BY <1>2, <1>13 DEF MakePanics, Place
  <1>14. CASE TakeJob
    <2>1. queue \in Seq(Conns) /\ Len(queue) > 0 /\ Head(queue) = queue[1] /\ 1 \in 1..Len(queue)
      BY <1>14 DEF TakeJob, TypeOK
    <2>2. Head(queue) \in Conns /\ status[Head(queue)] = "queued"
      BY <2>1 DEF Queued
    <2>3. \A c \in Conns : c < Head(queue) => status[c] # "queued"
      <3> SUFFICES ASSUME NEW c \in Conns, c < Head(queue), status[c] = "queued" PROVE FALSE
        OBVIOUS
      <3>1. PICK i \in 1..Len(queue) : queue[i] = c
        BY DEF Queued
      <3>2. i = 1 \/ queue[1] < queue[i]
        BY <2>1, <3>1 DEF Queued
      <3> QED
        BY <2>1, <2>2, <3>1, <3>2
    <2> QED
      BY <1>0, <1>14, <2>2, <2>3 DEF TakeJob
  <1>15. CASE Exit
    BY <1>0, <1>15 DEF Exit
  <1>16. CASE Exited \/ UNCHANGED vars
    BY <1>16 DEF Exited, vars
  <1> QED
    BY <1>3, <1>4, <1>5, <1>6, <1>7, <1>8, <1>10, <1>11, <1>12, <1>13, <1>14, <1>15, <1>16
       DEF Next, LoopStep

LEMMA QueuedStep == ServerInv /\ [Next]_vars => Queued'
  <1> SUFFICES ASSUME TypeOK, Place, Stages, Queued, [Next]_vars PROVE Queued'
    BY DEF ServerInv, Order
  <1> USE DEF loopVars, poolVars, connVars, Statuses, Waiting, Begun
  <1>0. status \in [Conns -> Statuses]
    BY DEF TypeOK
  <1>1. ASSUME queue' = queue, \A c \in Conns : status'[c] = "queued" <=> status[c] = "queued"
        PROVE  Queued'
    BY <1>1 DEF Queued
  <1>2. ASSUME NEW c \in Conns, Connect(c) \/ HangUp(c) \/ FallSilent(c) \/ Return(c) \/ Accept(c)
        PROVE  Queued'
    BY <1>0, <1>1, <1>2 DEF Connect, HangUp, FallSilent, Return, Accept
  <1>3. ASSUME NEW c \in Conns, Panic(c) PROVE Queued'
    BY <1>0, <1>1, <1>3 DEF Panic, EndLoop
  <1>4. CASE Configure
    BY <1>0, <1>1, <1>4 DEF Configure, DropConn, Place
  <1>5. ASSUME Execute, loop = "dispatch" PROVE Queued'
    <2>1. cur \in Conns /\ status[cur] = "accepted" /\ queue \in Seq(Conns)
      BY <1>5 DEF Place, TypeOK
    <2>2. \A i \in 1..Len(queue) : queue[i] < cur
      BY <2>1 DEF Queued, Stages, Conns
    <2>3. /\ Len(queue') = Len(queue) + 1
          /\ \A i \in 1..Len(queue) : queue'[i] = queue[i]
          /\ queue'[Len(queue) + 1] = cur
      BY <1>5, <2>1 DEF Execute
    <2>4. \A c \in Conns : status'[c] = IF c = cur THEN "queued" ELSE status[c]
      BY <1>0, <1>5, <2>1 DEF Execute
    <2> QED
      BY <2>1, <2>2, <2>3, <2>4 DEF Queued
  <1>6. CASE DispatchServe
    BY <1>5, <1>6 DEF DispatchServe
  <1>7. CASE DispatchMake
    <2>1. CASE DropConn /\ queue' = queue
      BY <1>0, <1>1, <1>7, <2>1 DEF DispatchMake, DropConn, Place
    <2> QED
      BY <1>5, <1>7, <2>1 DEF DispatchMake
  <1>8. CASE DispatchSingle
    BY <1>0, <1>1, <1>8 DEF DispatchSingle, Place
  <1>9. CASE AcceptFails
    BY <1>0, <1>1, <1>9 DEF AcceptFails, EndLoop
  <1>10. CASE MakePanics
    BY <1>0, <1>1, <1>10 DEF MakePanics, EndLoop, Place
  <1>11. CASE TakeJob
    <2>1. /\ queue \in Seq(Conns) /\ Len(queue) \in Nat /\ Len(queue) > 0
          /\ Head(queue) = queue[1]
          /\ Len(queue') = Len(queue) - 1
          /\ \A i \in 1..Len(queue') : queue'[i] = queue[i + 1]
      BY <1>11 DEF TakeJob, TypeOK
    <2>2. Head(queue) \in Conns /\ status[Head(queue)] = "queued"
      BY <2>1 DEF Queued
    <2>3. \A c \in Conns : status'[c] = IF c = Head(queue) THEN "serving" ELSE status[c]
      BY <1>0, <1>11, <2>2 DEF TakeJob
    <2>4. \A i \in 1..Len(queue') : i + 1 \in 1..Len(queue) /\ queue[1] < queue[i + 1]
      BY <2>1 DEF Queued
    <2>5. \A i \in 1..Len(queue') : queue'[i] \in Conns /\ status'[queue'[i]] = "queued"
      <3> TAKE i \in 1..Len(queue')
      <3>1. i + 1 \in 1..Len(queue) /\ queue[1] < queue[i + 1] /\ queue'[i] = queue[i + 1]
        BY <2>1, <2>4
      <3>2. queue[i + 1] \in Conns /\ status[queue[i + 1]] = "queued" /\ queue[1] \in Conns
        BY <2>1, <3>1 DEF Queued
      <3>3. queue[i + 1] # Head(queue)
        BY <2>1, <3>1, <3>2 DEF Conns
      <3> QED
        BY <2>3, <3>1, <3>2, <3>3
    <2>6. ASSUME NEW c \in Conns, status'[c] = "queued"
          PROVE  \E i \in 1..Len(queue') : queue'[i] = c
      <3>1. PICK i \in 1..Len(queue) : queue[i] = c
        BY <2>3, <2>6 DEF Queued
      <3>2. i # 1
        BY <2>1, <2>3, <2>6, <3>1
      <3>3. i - 1 \in 1..Len(queue') /\ queue'[i - 1] = c
        BY <2>1, <3>1, <3>2
      <3> QED
        BY <3>3
    <2>7. \A i, j \in 1..Len(queue') : i < j => queue'[i] < queue'[j]
      <3> TAKE i, j \in 1..Len(queue')
      <3> HAVE i < j
      <3>1. i + 1 \in 1..Len(queue) /\ j + 1 \in 1..Len(queue) /\ i + 1 < j + 1
        BY <2>1
      <3> QED
        BY <2>1, <3>1 DEF Queued
    <2> QED
      BY <2>5, <2>6, <2>7 DEF Queued
  <1>12. CASE Exit
    BY <1>0, <1>12 DEF Exit, Queued
  <1>13. CASE Exited \/ UNCHANGED vars
    BY <1>1, <1>13 DEF Exited, vars
  <1> QED
    BY <1>2, <1>3, <1>4, <1>6, <1>7, <1>8, <1>9, <1>10, <1>11, <1>12, <1>13 DEF Next, LoopStep

-----------------------------------------------------------------------------
(* One connection more, or one less, is served. *)
LEMMA OneMore ==
    ASSUME NEW c \in Conns, status[c] # "serving", TypeOK, Serving' = Serving \cup {c}
    PROVE  Cardinality(Serving') = Cardinality(Serving) + 1
  <1>1. c \notin Serving
    BY DEF Serving
  <1> QED
    BY <1>1, ServingFinite, FS_AddElement, FS_CardinalityType

LEMMA OneLess ==
    ASSUME NEW c \in Conns, status[c] = "serving", TypeOK, Serving' = Serving \ {c}
    PROVE  Cardinality(Serving') = Cardinality(Serving) - 1
  <1>1. c \in Serving
    BY DEF Serving
  <1> QED
    BY <1>1, ServingFinite, FS_RemoveElement, FS_CardinalityType

LEMMA ThreadsStep == ServerInv /\ [Next]_vars => Threads'
  <1> SUFFICES ASSUME TypeOK, Place, Order, Threads, [Next]_vars PROVE Threads'
    BY DEF ServerInv
  <1> USE DEF loopVars, poolVars, connVars
  <1>0. settings.max_threads \in Nat /\ free \in Nat /\ Cardinality(Serving) \in Nat
    BY SettingsType, ServingFinite, FS_CardinalityType DEF TypeOK
  <1>1. ASSUME Serving' = Serving, UNCHANGED <<settings, free>>, ~exited' => ~exited PROVE Threads'
    BY <1>1 DEF Threads
  <1>2. ASSUME NEW c \in Conns, Connect(c) PROVE Threads'
    BY <1>1, <1>2 DEF Connect, Serving, TypeOK
  <1>3. ASSUME NEW c \in Conns, HangUp(c) \/ FallSilent(c) PROVE Threads'
    BY <1>1, <1>3 DEF HangUp, FallSilent, Serving
  <1>4. ASSUME NEW c \in Conns, status[c] = "serving", settings.mode # "single", free' = free + 1,
               status' = [status EXCEPT ![c] = "closed"], UNCHANGED <<settings, exited>>
        PROVE  Threads'
    <2>1. Serving' = Serving \ {c}
      BY <1>4 DEF Serving, TypeOK
    <2>2. Cardinality(Serving') = Cardinality(Serving) - 1
      BY <1>4, <2>1, OneLess
    <2> QED
      BY <1>0, <1>4, <2>2 DEF Threads
  <1>5. ASSUME NEW c \in Conns, Return(c) PROVE Threads'
    BY <1>4, <1>5 DEF Return, Threads
  <1>6. ASSUME NEW c \in Conns, Panic(c) PROVE Threads'
    BY <1>4, <1>6 DEF Panic, Threads
  <1>7. ASSUME NEW c \in Conns, Accept(c) PROVE Threads'
    BY <1>1, <1>7 DEF Accept, Serving, TypeOK
  <1>8. CASE Configure
    BY <1>1, <1>8 DEF Configure, DropConn, Serving, TypeOK, Place
  <1>9. CASE DispatchServe
    BY <1>1, <1>9 DEF DispatchServe, Execute, Serving, TypeOK, Place
  <1>10. CASE DispatchMake
    BY <1>1, <1>10 DEF DispatchMake, Execute, DropConn, Serving, TypeOK, Place
  <1>11. CASE DispatchSingle
    BY <1>11 DEF DispatchSingle, Threads
  <1>12. CASE AcceptFails
    BY <1>1, <1>12 DEF AcceptFails, EndLoop, Serving, TypeOK
  <1>13. CASE MakePanics
    BY <1>1, <1>13 DEF MakePanics, EndLoop, Serving, TypeOK, Place
  <1>14. CASE TakeJob
    <2>1. Head(queue) \in Conns /\ status[Head(queue)] = "queued"
      BY <1>14 DEF TakeJob, Order, Queued, TypeOK
    <2>2. Serving' = Serving \cup {Head(queue)}
      BY <1>14, <2>1 DEF TakeJob, Serving, TypeOK
    <2>3. Cardinality(Serving') = Cardinality(Serving) + 1
      BY <2>1, <2>2, OneMore
    <2>4. settings.mode # "single"
      BY <1>14 DEF TakeJob, Place
    <2> QED
      BY <1>0, <1>14, <2>3, <2>4 DEF TakeJob, Threads
  <1>15. CASE Exit
    BY <1>15 DEF Exit, Threads
  <1>16. CASE Exited \/ UNCHANGED vars
    BY <1>1, <1>16 DEF Exited, vars, Serving
  <1> QED
    BY <1>2, <1>3, <1>5, <1>6, <1>7, <1>8, <1>9, <1>10, <1>11, <1>12, <1>13, <1>14,
       <1>15, <1>16 DEF Next, LoopStep

-----------------------------------------------------------------------------
LEMMA TypeStep == ServerInv /\ [Next]_vars => TypeOK'
  <1> SUFFICES ASSUME ServerInv, [Next]_vars PROVE TypeOK'
    OBVIOUS
  <1> USE DEF loopVars, poolVars, connVars, Statuses, Waiting, Begun
  <1>0. /\ TypeOK /\ Place /\ Threads'
        /\ settings.max_threads \in Nat /\ MaxConns \in Nat
        /\ settings.read_timeout \in {"none", "set"}
    BY ThreadsStep, SettingsType, ServerAssumption DEF ServerInv, SettingRecords
  <1>1. ASSUME NEW c \in Conns, Connect(c) PROVE TypeOK'
    BY <1>0, <1>1 DEF Connect, TypeOK
  <1>2. ASSUME NEW c \in Conns, HangUp(c) PROVE TypeOK'
    BY <1>0, <1>2 DEF HangUp, TypeOK
  <1>3. ASSUME NEW c \in Conns, Accept(c) PROVE TypeOK'
    <2>1. cur' \in 0..MaxConns
      BY <1>0, <1>3 DEF Accept, Conns
    <2>2. status' \in [Conns -> Statuses]
      BY <1>0, <1>3 DEF Accept, TypeOK
    <2> QED
      BY <1>0, <1>3, <2>1, <2>2 DEF Accept, TypeOK
  <1>4. ASSUME NEW c \in Conns, FallSilent(c) PROVE TypeOK'
    BY <1>0, <1>4 DEF FallSilent, TypeOK
  <1>5. ASSUME NEW c \in Conns, status[c] = "serving", settings.mode # "single", free' = free + 1,
               UNCHANGED <<settings, exited>>
        PROVE  free' \in 0..settings.max_threads
    <2>1. Cardinality(Serving') \in Nat
      BY ConnsFinite DEF Serving
    <2>2. ~exited
      BY <1>0, <1>5 DEF Place
    <2> QED
      BY <1>0, <1>5, <2>1, <2>2 DEF Threads, TypeOK
  <1>6. ASSUME NEW c \in Conns, Return(c) PROVE TypeOK'
    <2>1. free' \in 0..settings.max_threads
      BY <1>0, <1>5, <1>6 DEF Return, TypeOK
    <2>2. status' \in [Conns -> Statuses]
      BY <1>0, <1>6 DEF Return, TypeOK
    <2>3. loop' \in {"accept", "configure", "dispatch", "serving", "ended"} /\ cur' \in 0..MaxConns
      BY <1>0, <1>6, SMTT(30) DEF Return, NextConn, TypeOK
    <2> QED
      BY <1>0, <1>6, <2>1, <2>2, <2>3 DEF Return, TypeOK
  <1>7. ASSUME NEW c \in Conns, Panic(c) PROVE TypeOK'
    <2>1. free' \in 0..settings.max_threads
      BY <1>0, <1>5, <1>7 DEF Panic, TypeOK
    <2>2. status' \in [Conns -> Statuses]
      BY <1>0, <1>7 DEF Panic, EndLoop, TypeOK
    <2>3. loop' \in {"accept", "configure", "dispatch", "serving", "ended"} /\ cur' \in 0..MaxConns
      BY <1>0, <1>7 DEF Panic, EndLoop, TypeOK
    <2> QED
      BY <1>0, <1>7, <2>1, <2>2, <2>3 DEF Panic, TypeOK
  <1>8. CASE Configure
    <2>1. CASE loop' = "dispatch" /\ UNCHANGED <<cur, status>>
      BY <1>0, <1>8, <2>1 DEF Configure, TypeOK
    <2>2. CASE DropConn /\ UNCHANGED limit
      <3>1. status' \in [Conns -> Statuses] /\ loop' = "accept" /\ cur' = 0
        BY <1>0, <1>8, <2>2 DEF Configure, DropConn, NextConn, TypeOK, Place
      <3> QED
        BY <1>0, <1>8, <2>2, <3>1 DEF Configure, TypeOK
    <2> QED
      BY <1>8, <2>1, <2>2 DEF Configure
  <1>9. ASSUME Execute, loop = "dispatch" PROVE
            /\ queue' \in Seq(Conns) /\ loop' = "accept" /\ cur' = 0
            /\ status' \in [Conns -> Statuses]
    BY <1>0, <1>9 DEF Execute, NextConn, TypeOK, Place
  <1>10. ASSUME DropConn, loop = "dispatch" PROVE
            /\ loop' = "accept" /\ cur' = 0
            /\ status' \in [Conns -> Statuses]
    BY <1>0, <1>10 DEF DropConn, NextConn, TypeOK, Place
  <1>11. CASE DispatchServe
    BY <1>0, <1>9, <1>11 DEF DispatchServe, TypeOK
  <1>12. CASE DispatchMake
    <2>1. CASE Execute
      BY <1>0, <1>9, <1>12, <2>1 DEF DispatchMake, TypeOK
    <2>2. CASE DropConn /\ UNCHANGED queue
      BY <1>0, <1>10, <1>12, <2>2 DEF DispatchMake, TypeOK
    <2> QED
      BY <1>12, <2>1, <2>2 DEF DispatchMake
  <1>13. CASE DispatchSingle
    BY <1>0, <1>13 DEF DispatchSingle, TypeOK
  <1>14. CASE AcceptFails
    BY <1>0, <1>14 DEF AcceptFails, EndLoop, TypeOK
  <1>15. CASE MakePanics
    <2>1. status' \in [Conns -> Statuses]
      BY <1>0, <1>15 DEF MakePanics, EndLoop, TypeOK
    <2> QED
      BY <1>0, <1>15, <2>1 DEF MakePanics, EndLoop, TypeOK
  <1>16. CASE TakeJob
    <2>1. free' \in 0..settings.max_threads
      BY <1>0, <1>16, SMTT(30) DEF TakeJob, TypeOK
    <2>2. queue' \in Seq(Conns)
      BY <1>0, <1>16 DEF TakeJob, TypeOK
    <2> QED
      BY <1>0, <1>16, <2>1, <2>2 DEF TakeJob, TypeOK
  <1>17. CASE Exit
    BY <1>0, <1>17 DEF Exit, TypeOK
  <1>18. CASE Exited \/ UNCHANGED vars
    BY <1>0, <1>18 DEF Exited, vars, TypeOK
  <1> QED
    BY <1>1, <1>2, <1>3, <1>4, <1>6, <1>7, <1>8, <1>11, <1>12, <1>13, <1>14, <1>15, <1>16, <1>17,
       <1>18 DEF Next, LoopStep

(* The inductive invariant of the accept loop and the pool. *)
THEOREM ServerInvHolds == Spec => []ServerInv
  <1>1. ServerInv /\ [Next]_vars => ServerInv'
    BY TypeStep, PlaceStep, StagesStep, QueuedStep, ThreadsStep DEF ServerInv, Order
  <1> QED
    BY <1>1, InitInv, PTL DEF Spec

(* Every variable of the server keeps its type: in particular no thread is  *)
(* ever counted twice, however its job ends (src/src/server.rs, serve).     *)
THEOREM TypeCorrect == Spec => []TypeOK
  BY ServerInvHolds, PTL DEF ServerInv

(* No connection is overtaken between the listener and a thread.            *)
THEOREM ServedInOrder == Spec => []FirstComeFirstServed
  <1>1. ServerInv => FirstComeFirstServed
    BY DEF ServerInv, Order, Stages, FirstComeFirstServed, Waiting, Begun
  <1> QED
    BY <1>1, ServerInvHolds, PTL

(* No connection ends the accept loop, in any of the three modes: only a    *)
(* failed accept() and a panic on the loop's own thread do.                 *)
THEOREM LoopSurvives == Spec => []SurvivesConnections
  <1>1. Init => SurvivesConnections
    BY DEF Init, SurvivesConnections
  <1>2. SurvivesConnections /\ [Next]_vars => SurvivesConnections'
    <2> SUFFICES ASSUME SurvivesConnections, [Next]_vars PROVE SurvivesConnections'
      OBVIOUS
    <2> USE DEF SurvivesConnections, loopVars
    <2>1. ASSUME NEW c \in Conns,
                 Connect(c) \/ HangUp(c) \/ FallSilent(c) \/ Return(c) \/ Panic(c) \/ Accept(c)
          PROVE  SurvivesConnections'
      BY <2>1 DEF Connect, HangUp, FallSilent, Return, Panic, Accept, NextConn
    <2>2. CASE Configure \/ DispatchServe \/ DispatchMake \/ DispatchSingle
      BY <2>2 DEF Configure, DispatchServe, DispatchMake, DispatchSingle, DropConn, Execute, NextConn
    <2>3. CASE AcceptFails \/ MakePanics
      BY <2>3 DEF AcceptFails, MakePanics
    <2>4. CASE TakeJob \/ Exit \/ Exited \/ UNCHANGED vars
      BY <2>4 DEF TakeJob, Exit, Exited, vars
    <2> QED
      BY <2>1, <2>2, <2>3, <2>4 DEF Next, LoopStep
  <1> QED
    BY <1>1, <1>2, PTL DEF Spec
=============================================================================
