--------------------------- MODULE SignalsProofs ---------------------------
(***************************************************************************)
(* Proofs about SignalControl for any number of signals, whose handlers    *)
(* overlap in any way: a signal before the handoff prevents processing,    *)
(* one signal at most drains the run, and its result tells the signal.     *)
(***************************************************************************)
EXTENDS Signals, FiniteSetTheorems, TLAPS

\* A signal that was delivered is a termination signal.
SignalsKnown == \A h \in Deliveries : handler[h] # "idle" => sig[h] \in TermSignals

\* The gate holds a signal exactly if some handler has recorded one, and then
\* one that was recorded.
GateTells ==
    IF Recorded = {} THEN received \in {Startup, None}
    ELSE \E h \in Recorded : received = sig[h]

\* Before the handoff the gate is not open, and nothing has begun.
GateGuards ==
    /\ received = Startup => ~Begun
    /\ phase = "starting" => received # None /\ ~Begun

\* A handler that found the mark of the startup has shut the gate for good.
MarkFound == \A h \in Deliveries : found[h] = Startup => h \in Recorded /\ ~Begun

\* Two handlers never both let the run drain.
DrainsAlone == \A g, h \in Draining : g = h

\* The shutdown flag, and a handler's reading of it, tell of a failure or of a
\* handler that has published it.
FlagMeans ==
    /\ shutdown => failed \/ \E g \in Deliveries : handler[g] = "returned"
    /\ \A h \in Deliveries :
        stopping[h] => failed \/ \E g \in Deliveries : handler[g] = "returned"

\* A forced exit of a run that has not failed is due to another signal.
ForcedByOther ==
    \A h \in Deliveries :
        handler[h] \in {"forcing", "forced"} /\ found[h] # Startup
            => failed \/ \E g \in Recorded : g # h

IInv ==
    /\ TypeOK
    /\ SignalsKnown
    /\ GateTells
    /\ GateGuards
    /\ MarkFound
    /\ DrainsAlone
    /\ FlagMeans
    /\ ForcedByOther

-----------------------------------------------------------------------------
LEMMA InitIInv == Init => IInv
<1> SUFFICES ASSUME Init PROVE IInv
  OBVIOUS
<1> USE DEF Init, None, Startup, TermSignals
<1>1. Recorded = {} /\ Draining = {}
  BY DEF Recorded, Draining
<1>2. TypeOK /\ SignalsKnown /\ ~Begun
  BY DEF TypeOK, SignalsKnown, Begun
<1>3. GateTells /\ DrainsAlone
  BY <1>1 DEF GateTells, DrainsAlone
<1> QED
  BY <1>2, <1>3 DEF IInv, GateGuards, MarkFound, FlagMeans, ForcedByOther

\* The steps of a handler that record nothing: what it has recorded, and
\* whether it drains, stay.
LEMMA DeliverIInv ==
    ASSUME IInv, NEW h \in Deliveries, NEW s \in TermSignals, Deliver(h, s)
    PROVE  IInv'
<1> USE DEF IInv, Deliver, TypeOK
<1>1. Recorded' = Recorded /\ Draining' = Draining
  BY DEF Recorded, Draining
<1>2. TypeOK' /\ SignalsKnown'
  BY DEF SignalsKnown
<1>3. GateTells'
  BY <1>1 DEF GateTells, Recorded
<1>4. GateGuards' /\ MarkFound' /\ DrainsAlone'
  BY <1>1 DEF GateGuards, MarkFound, DrainsAlone, Begun
<1>5. FlagMeans' /\ ForcedByOther'
  BY <1>1 DEF FlagMeans, ForcedByOther
<1> QED
  BY <1>2, <1>3, <1>4, <1>5

LEMMA LoadShutdownIInv ==
    ASSUME IInv, NEW h \in Deliveries, LoadShutdown(h)
    PROVE  IInv'
<1> USE DEF IInv, LoadShutdown, TypeOK
<1>1. Recorded' = Recorded /\ Draining' = Draining
  BY DEF Recorded, Draining
<1>2. TypeOK' /\ SignalsKnown'
  BY DEF SignalsKnown
<1>3. GateTells'
  BY <1>1 DEF GateTells, Recorded
<1>4. GateGuards' /\ MarkFound' /\ DrainsAlone'
  BY <1>1 DEF GateGuards, MarkFound, DrainsAlone, Begun
<1>5. FlagMeans'
  BY DEF FlagMeans
<1>6. ForcedByOther'
  BY <1>1 DEF ForcedByOther
<1> QED
  BY <1>2, <1>3, <1>4, <1>5, <1>6

\* The swap. What it found tells whether another handler was first.
LEMMA RecordSignalIInv ==
    ASSUME IInv, NEW h \in Deliveries, RecordSignal(h)
    PROVE  IInv'
<1> USE DEF IInv, RecordSignal, TypeOK
<1>1. h \notin Recorded /\ Recorded' = Recorded \union {h}
  BY DEF Recorded
<1>2. sig[h] \in TermSignals
  BY DEF SignalsKnown
<1>3. TypeOK' /\ SignalsKnown'
  BY <1>2 DEF SignalsKnown
<1>4. GateTells'
  BY <1>1 DEF GateTells
<1>5. GateGuards'
  BY <1>2 DEF GateGuards, Begun, TermSignals, Startup, None
<1>6. MarkFound'
  <2>1. found[h]' = received /\ \A g \in Deliveries \ {h} : found[g]' = found[g]
    OBVIOUS
  <2>2. Begun' = Begun
    BY DEF Begun
  <2>3. received = Startup => ~Begun
    BY DEF GateGuards
  <2> QED
    BY <1>1, <2>1, <2>2, <2>3 DEF MarkFound
<1>7. DrainsAlone'
  <2>1. received = None => Recorded = {}
    <3>1. \A g \in Recorded : sig[g] # None
      BY DEF SignalsKnown, Recorded, TermSignals, None
    <3> QED
      BY <3>1 DEF GateTells
  <2>2. Draining \subseteq Recorded
    BY DEF Draining, Recorded
  <2>3. CASE received = None
    BY <2>1, <2>2, <2>3 DEF Draining, DrainsAlone
  <2>4. CASE received # None
    BY <2>4 DEF Draining, DrainsAlone
  <2> QED
    BY <2>3, <2>4
<1>8. FlagMeans'
  BY DEF FlagMeans
<1>9. ForcedByOther'
  <2> SUFFICES ASSUME NEW g \in Deliveries, handler'[g] \in {"forcing", "forced"},
                      found'[g] # Startup, ~failed
               PROVE  \E f \in Recorded' : f # g
    BY DEF ForcedByOther
  <2>1. CASE g # h
    BY <1>1, <2>1 DEF ForcedByOther
  <2>2. CASE g = h
    <3>1. received # Startup /\ (received # None \/ stopping[h])
      BY <2>2
    <3>2. CASE received # None
      <4>1. Recorded # {}
        BY <3>1, <3>2 DEF GateTells
      <4> QED
        BY <1>1, <2>2, <4>1
    <3>3. CASE stopping[h]
      <4>1. PICK f \in Deliveries : handler[f] = "returned"
        BY <3>3 DEF FlagMeans
      <4> QED
        BY <1>1, <2>2, <4>1 DEF Recorded
    <3> QED
      BY <3>1, <3>2, <3>3
  <2> QED
    BY <2>1, <2>2
<1> QED
  BY <1>3, <1>4, <1>5, <1>6, <1>7, <1>8, <1>9

LEMMA ForceExitIInv ==
    ASSUME IInv, NEW h \in Deliveries, ForceExit(h)
    PROVE  IInv'
<1> USE DEF IInv, ForceExit, ExitWith, TypeOK
<1>1. Recorded' = Recorded /\ Draining' = Draining
  BY DEF Recorded, Draining
<1>2. TypeOK' /\ SignalsKnown'
  BY DEF SignalsKnown, Alive
<1>3. GateTells'
  BY <1>1 DEF GateTells
<1>4. Begun' => Begun
  BY DEF Begun
<1>5. GateGuards' /\ MarkFound' /\ DrainsAlone'
  BY <1>1, <1>4 DEF GateGuards, MarkFound, DrainsAlone
<1>6. FlagMeans'
  BY DEF FlagMeans
<1>7. ForcedByOther'
  BY <1>1 DEF ForcedByOther
<1> QED
  BY <1>2, <1>3, <1>5, <1>6, <1>7

LEMMA PublishShutdownIInv ==
    ASSUME IInv, NEW h \in Deliveries, PublishShutdown(h)
    PROVE  IInv'
<1> USE DEF IInv, PublishShutdown, TypeOK
<1>1. Recorded' = Recorded /\ Draining' = Draining
  BY DEF Recorded, Draining
<1>2. TypeOK' /\ SignalsKnown'
  BY DEF SignalsKnown
<1>3. GateTells'
  BY <1>1 DEF GateTells
<1>4. GateGuards' /\ MarkFound' /\ DrainsAlone'
  BY <1>1 DEF GateGuards, MarkFound, DrainsAlone, Begun
<1>5. FlagMeans'
  BY DEF FlagMeans
<1>6. ForcedByOther'
  BY <1>1 DEF ForcedByOther
<1> QED
  BY <1>2, <1>3, <1>4, <1>5, <1>6

\* The steps of the main thread leave the handlers alone.
LEMMA HandlersStay ==
    ASSUME IInv, UNCHANGED handlerVars
    PROVE  /\ Recorded' = Recorded /\ DrainsAlone' /\ SignalsKnown'
           /\ (received' = received) => GateTells'
           /\ (shutdown' = shutdown \/ failed') /\ (failed => failed')
                => FlagMeans' /\ ForcedByOther'
           /\ (Begun' => Begun) => MarkFound'
<1> USE DEF IInv, handlerVars
<1>1. Recorded' = Recorded /\ Draining' = Draining
  BY DEF Recorded, Draining
<1>2. DrainsAlone' /\ SignalsKnown'
  BY <1>1 DEF DrainsAlone, SignalsKnown
<1>3. (received' = received) => GateTells'
  BY <1>1 DEF GateTells
<1>4. (shutdown' = shutdown \/ failed') /\ (failed => failed')
        => FlagMeans' /\ ForcedByOther'
  BY <1>1 DEF FlagMeans, ForcedByOther
<1>5. (Begun' => Begun) => MarkFound'
  BY <1>1 DEF MarkFound
<1> QED
  BY <1>1, <1>2, <1>3, <1>4, <1>5

\* The handoff: it opens the gate only if no handler has recorded anything.
LEMMA BeginProcessingIInv ==
    ASSUME IInv, BeginProcessing
    PROVE  IInv'
<1> USE DEF IInv, BeginProcessing
<1>1. TypeOK'
  BY DEF TypeOK, GateGuards, handlerVars, ExitWith, TermSignals, Startup, None
<1>2. Recorded' = Recorded /\ DrainsAlone' /\ SignalsKnown' /\ FlagMeans' /\ ForcedByOther'
  BY HandlersStay
<1>3. CASE received = Startup
  <2>1. Recorded = {}
    <3>1. \A g \in Recorded : sig[g] # Startup
      BY DEF SignalsKnown, Recorded, TermSignals, Startup
    <3> QED
      BY <1>3, <3>1 DEF GateTells
  <2>2. GateTells'
    BY <1>2, <1>3, <2>1 DEF GateTells
  <2>3. MarkFound'
    BY <2>1 DEF MarkFound, handlerVars
  <2>4. GateGuards'
    BY <1>3 DEF GateGuards, Startup, None
  <2> QED
    BY <1>1, <1>2, <2>2, <2>3, <2>4
<1>4. CASE received # Startup
  <2>1. Begun' => Begun
    BY <1>4 DEF Begun, ExitWith
  <2>2. GateTells' /\ MarkFound'
    BY <1>4, <2>1, HandlersStay
  <2>3. GateGuards'
    BY <1>4, <2>1 DEF GateGuards, ExitWith
  <2> QED
    BY <1>1, <1>2, <2>2, <2>3
<1> QED
  BY <1>3, <1>4

\* The other steps of the main thread never begin a run that had not begun.
LEMMA MainIInv ==
    ASSUME IInv, PrepareFails \/ PipelineFails \/ PipelineReturns \/ Unregister \/ Exit
    PROVE  IInv'
<1> USE DEF PrepareFails, PipelineFails, PipelineReturns, Unregister, Exit, ExitWith
<1>1. /\ UNCHANGED <<handlerVars, received>>
      /\ shutdown' = shutdown \/ failed'
      /\ failed => failed'
  BY DEF IInv
<1>2. Begun' => Begun
  BY DEF IInv, TypeOK, Begun, TermSignals, None
<1>3. TypeOK'
  <2>1. phase = "processing" => received \in TermSignals \union {None}
    BY DEF IInv, TypeOK, GateGuards, Begun
  <2> QED
    BY <2>1, ZenonT(30) DEF IInv, TypeOK, handlerVars, TermSignals, None
<1>4. /\ DrainsAlone' /\ SignalsKnown' /\ GateTells'
      /\ FlagMeans' /\ ForcedByOther' /\ MarkFound'
  BY <1>1, <1>2, HandlersStay
<1>5. GateGuards'
  BY <1>1, <1>2 DEF IInv, GateGuards
<1> QED
  BY <1>3, <1>4, <1>5 DEF IInv

LEMMA NextIInv == IInv /\ [Next]_vars => IInv'
<1> SUFFICES ASSUME IInv, [Next]_vars PROVE IInv'
  OBVIOUS
<1>1. ASSUME NEW h \in Deliveries, Handle(h) PROVE IInv'
  BY <1>1, LoadShutdownIInv, RecordSignalIInv, ForceExitIInv, PublishShutdownIInv
     DEF Handle
<1>2. CASE UNCHANGED vars
  BY <1>2 DEF vars, IInv, TypeOK, SignalsKnown, GateTells, GateGuards, MarkFound,
              DrainsAlone, FlagMeans, ForcedByOther, Recorded, Draining, Begun
<1> QED
  BY <1>1, <1>2, DeliverIInv, BeginProcessingIInv, MainIInv DEF Next

\* The invariant the theorems below rest on.
THEOREM InductiveInvariant == Spec => []IInv
  BY InitIInv, NextIInv, PTL DEF Spec

-----------------------------------------------------------------------------
\* Every variable of the run and its handlers has its type.
THEOREM TypeCorrect == Spec => []TypeOK
<1>1. IInv => TypeOK
  BY DEF IInv
<1> QED
  BY <1>1, InductiveInvariant, PTL

\* Processing never begins once a handler has found the mark of the startup.
THEOREM StartupSignalPreventsProcessing == Spec => []StartupSignalWins
<1>1. IInv => StartupSignalWins
  BY DEF IInv, MarkFound, StartupSignalWins
<1> QED
  BY <1>1, InductiveInvariant, PTL

LEMMA RecordedFinite == IsFiniteSet(Recorded) /\ IsFiniteSet(Draining)
  BY DeliveriesAssumption, FS_Subset DEF Recorded, Draining

\* Of all handlers, however they overlap, one at most lets the run drain.
THEOREM OnlyOneDrains == Spec => []OneSignalDrains
<1>1. IInv => OneSignalDrains
  <2> SUFFICES ASSUME IInv PROVE Cardinality(Draining) <= 1
    BY DEF OneSignalDrains
  <2>1. CASE Draining = {}
    BY <2>1, FS_EmptySet
  <2>2. CASE Draining # {}
    <3>1. PICK h \in Draining : TRUE
      BY <2>2
    <3>2. Draining = {h}
      BY <3>1 DEF IInv, DrainsAlone
    <3>3. Cardinality({h}) = 1
      BY FS_Singleton
    <3> QED
      BY <3>2, <3>3
  <2> QED
    BY <2>1, <2>2
<1> QED
  BY <1>1, InductiveInvariant, PTL

\* The first signal after the handoff never forces the exit of a run that has
\* not failed.
THEOREM LoneSignalNeverForces == Spec => []LoneSignalDrains
<1>1. IInv => LoneSignalDrains
  <2> SUFFICES ASSUME IInv, ~failed,
                      NEW h \in Deliveries, handler[h] = "forced", found[h] # Startup
               PROVE  Cardinality(Recorded) >= 2
    BY DEF LoneSignalDrains
  <2>1. PICK g \in Recorded : g # h
    BY DEF IInv, ForcedByOther
  <2>2. h \in Recorded
    BY DEF Recorded
  <2>3. {g, h} \subseteq Recorded
    BY <2>1, <2>2
  <2>4. Cardinality({g, h}) = 2
    <3>1. IsFiniteSet({h}) /\ Cardinality({h}) = 1
      BY FS_Singleton
    <3>2. Cardinality({h} \union {g}) = Cardinality({h}) + 1
      BY <2>1, <3>1, FS_AddElement
    <3>3. {h} \union {g} = {g, h}
      OBVIOUS
    <3> QED
      BY <3>1, <3>2, <3>3
  <2>5. Cardinality({g, h}) <= Cardinality(Recorded)
    BY <2>3, RecordedFinite, FS_Subset
  <2>6. Cardinality(Recorded) \in Nat
    BY RecordedFinite, FS_CardinalityType
  <2> QED
    BY <2>4, <2>5, <2>6
<1> QED
  BY <1>1, InductiveInvariant, PTL

\* A run that returns without a failure reports completion exactly if no signal
\* was recorded, and otherwise a signal that was.
THEOREM ResultTellsSignal == Spec => SignalIsReported
<1>1. IInv /\ [Next]_vars =>
        [phase = "processing" /\ phase' = "stopped" /\ ~failed =>
            IF Recorded = {} THEN outcome' = "complete"
            ELSE outcome' \in {sig[h] : h \in Recorded}]_vars
  <2> SUFFICES ASSUME IInv, Next, phase = "processing", phase' = "stopped", ~failed
               PROVE  IF Recorded = {} THEN outcome' = "complete"
                      ELSE outcome' \in {sig[h] : h \in Recorded}
    OBVIOUS
  <2>1. PipelineReturns
    BY DEF Next, Handle, Deliver, LoadShutdown, RecordSignal, ForceExit, PublishShutdown,
           PrepareFails, BeginProcessing, PipelineFails, Unregister, Exit, ExitWith, Alive
  <2>2. received # Startup
    BY DEF IInv, GateGuards, Begun
  <2>3. CASE Recorded = {}
    BY <2>1, <2>2, <2>3 DEF IInv, GateTells, PipelineReturns
  <2>4. CASE Recorded # {}
    <3>1. PICK h \in Recorded : received = sig[h]
      BY <2>4 DEF IInv, GateTells
    <3>2. received # None
      BY <3>1 DEF IInv, SignalsKnown, Recorded, TermSignals, None
    <3> QED
      BY <2>1, <2>4, <3>1, <3>2 DEF PipelineReturns
  <2> QED
    BY <2>3, <2>4
<1> QED
  BY <1>1, InductiveInvariant, PTL DEF Spec, SignalIsReported
=============================================================================
