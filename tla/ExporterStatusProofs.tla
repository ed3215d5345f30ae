------------------------ MODULE ExporterStatusProofs ------------------------
(***************************************************************************)
(* Proofs about ExporterStatus, for any statuses and bounds.               *)
(***************************************************************************)
EXTENDS ExporterStatus, TLAPS

Statuses == Values \cup {"", "Offline"}

LEMMA MinuteIs == Minute \in Nat /\ Minute > 0
<1>1. Minute \in Nat \ {0}
  BY StatusAssumption, Zenon
<1> QED BY <1>1

LEMMA KeepIs == Keep \notin Statuses /\ Keep # 0
BY StatusAssumption, Zenon DEF Statuses

-----------------------------------------------------------------------------
(* What the patches hold                                                   *)

LEMMA MergedStatus ==
    ASSUME st \in Status, NEW p \in Patches
    PROVE  /\ Apply(p) \in Status
           /\ Apply(p).value = IF p.value = Keep THEN st.value ELSE p.value
           /\ Apply(p).seen = IF p.seen = 0 THEN 0 ELSE st.seen
<1>1. /\ Apply(p).value = IF p.value = Keep THEN st.value ELSE p.value
      /\ Apply(p).seen = IF p.seen = Keep THEN st.seen ELSE p.seen
      /\ Apply(p).online = IF p.online = Keep THEN st.online ELSE p.online
  BY Zenon DEF Apply, Merged
<1>2. p.value \in Statuses \cup {Keep} /\ p.seen \in {0, Keep} /\ p.online \in BOOLEAN \cup {Keep}
  BY Zenon DEF Patches, Statuses
<1>3. st.value \in Statuses /\ st.seen \in Ages /\ st.online \in BOOLEAN
  BY Zenon DEF Status, Statuses
<1>4. Apply(p).value \in Statuses
  BY <1>1, <1>2, <1>3, Zenon
<1>5. Apply(p).seen \in Ages /\ Apply(p).seen = IF p.seen = 0 THEN 0 ELSE st.seen
  BY <1>1, <1>2, <1>3, KeepIs, MinuteIs DEF Ages, Never
<1>6. Apply(p).online \in BOOLEAN
  BY <1>1, <1>2, <1>3, Zenon
<1>7. Apply(p) = [value |-> Apply(p).value, seen |-> Apply(p).seen, online |-> Apply(p).online]
  BY Zenon DEF Apply
<1> QED BY <1>1, <1>4, <1>5, <1>6, <1>7, Zenon DEF Status, Statuses

LEMMA ReportedIs ==
    ASSUME NEW s \in Status, NEW v \in Statuses
    PROVE  Reported(s, v) = [value |-> IF v = s.value THEN Keep ELSE v, seen |-> Keep,
                             online |-> Online(v)]
<1> DEFINE new == [s EXCEPT !.value = v, !.online = Online(v)]
<1>1. syncOnlineConditionWithStatus([s EXCEPT !.value = v]) = new
  BY Zenon DEF syncOnlineConditionWithStatus, Status
<1>2. new.value = v /\ new.seen = s.seen /\ new.online = Online(v)
  BY Zenon DEF Status
<1> HIDE DEF new
<1>3. Reported(s, v) = [Diff(s, new) EXCEPT !.online = new.online]
  BY <1>1, Zenon DEF Reported
<1> QED BY <1>2, <1>3, Zenon DEF Diff, Changed

LEMMA CallPatches ==
    ASSUME st \in Status, NEW v \in Statuses
    PROVE  /\ PatchOf("Register", v) \in Patches
           /\ PatchOf("Unregister", v) \in Patches
           /\ PatchOf("Report", v) \in Patches
           /\ PatchOf("Report", v).value = IF v = st.value THEN Keep ELSE v
<1>1. /\ PatchOf("Register", v) = Register(st)
      /\ PatchOf("Unregister", v) = Unregister(st)
      /\ PatchOf("Report", v) = ReportStatus(st, v)
  BY Zenon DEF PatchOf
<1>2. Online(v) \in BOOLEAN /\ Online("Offline") \in BOOLEAN
  BY Zenon DEF Online
<1>3. Register(st) \in Patches
  BY Zenon DEF Register, Diff, Changed, Patches
<1>4. Unregister(st) \in Patches
  <2>1. "Offline" \in Statuses
    BY Zenon DEF Statuses
  <2>2. Unregister(st) = [value |-> IF "Offline" = st.value THEN Keep ELSE "Offline", seen |-> Keep,
                          online |-> Online("Offline")]
    BY <2>1, ReportedIs, Zenon DEF Unregister
  <2> QED BY <1>2, <2>2 DEF Patches
<1>5. /\ ReportStatus(st, v) \in Patches
      /\ ReportStatus(st, v).value = IF v = st.value THEN Keep ELSE v
  <2>1. Reported(st, v) = [value |-> IF v = st.value THEN Keep ELSE v, seen |-> Keep,
                           online |-> Online(v)]
    BY ReportedIs, Zenon
  <2> DEFINE w == IF v = st.value THEN Keep ELSE v
  <2>2. ReportStatus(st, v) = [value |-> w, seen |-> 0, online |-> Online(v)]
    BY <2>1 DEF ReportStatus
  <2>3. w \in Values \cup {"", "Offline", Keep}
    BY Zenon DEF Statuses
  <2> DEFINE b == Online(v)
  <2> HIDE DEF w
  <2>a. b \in BOOLEAN
    BY <1>2, Zenon
  <2> HIDE DEF b
  <2>4. ReportStatus(st, v) \in Patches /\ ReportStatus(st, v).value = w
    <3>1. ReportStatus(st, v) = [value |-> w, seen |-> 0, online |-> b]
      BY <2>2, Zenon DEF b
    <3>2. [value |-> w, seen |-> 0, online |-> b] \in Patches
      BY <2>3, <2>a, Zenon DEF Patches
    <3> QED BY <3>1, <3>2
  <2> QED BY <2>4, Zenon DEF w
<1> QED BY <1>1, <1>3, <1>4, <1>5, Zenon

LEMMA StreamPatches ==
    ASSUME st \in Status
    PROVE  /\ FirstPatch(st) \in Patches
           /\ [Diff(st, st) EXCEPT !.seen = 0] \in Patches
           /\ [Diff(st, st) EXCEPT !.seen = 0].value = Keep
           /\ [Diff(st, st) EXCEPT !.seen = 0].seen = 0
<1>1. /\ [Diff(st, st) EXCEPT !.seen = 0] \in Patches
      /\ [Diff(st, st) EXCEPT !.seen = 0].value = Keep
      /\ [Diff(st, st) EXCEPT !.seen = 0].seen = 0
  BY Zenon DEF Diff, Changed, Patches
<1> DEFINE new == [st EXCEPT !.value = IF @ = "Offline" THEN "" ELSE @]
<1>2. new.value \in Statuses /\ new.online = st.online
  BY Zenon DEF Status, Statuses
<1> HIDE DEF new
<1>3. FirstPatch(st) = [Diff(st, new) EXCEPT !.seen = 0]
  BY Zenon DEF FirstPatch, new
<1>4. FirstPatch(st) \in Patches
  BY <1>2, <1>3, Zenon DEF Diff, Changed, Patches, Statuses
<1> QED BY <1>1, <1>4, Zenon

LEMMA PassPatches ==
    ASSUME cache \in Status
    PROVE  LET new == reconcileStatusConditionsOnline(cache)
               diff == Diff(cache, new)
           IN  /\ new.online \in BOOLEAN
               /\ diff \in Patches /\ [diff EXCEPT !.online = new.online] \in Patches
               /\ cache.seen \in 0..Minute =>
                    diff.value = Keep /\ [diff EXCEPT !.online = new.online].value = Keep
<1> DEFINE new == reconcileStatusConditionsOnline(cache)
           diff == Diff(cache, new)
<1>1. /\ new \in Status /\ new.seen = cache.seen
      /\ cache.seen \in 0..Minute => new.value = cache.value
  <2> DEFINE n == cache.seen
  <2>0. n \in Ages
    BY Zenon DEF Status
  <2> HIDE DEF n
  <2>1. n = Never \/ n > Minute \/ n \in 0..Minute
    BY <2>0, MinuteIs DEF Ages, Never
  <2>a. ~(n > Minute /\ n \in 0..Minute) /\ ~(n = Never /\ n \in 0..Minute) /\ ~(n = Never /\ n > Minute)
    BY <2>0, MinuteIs DEF Ages, Never
  <2> USE DEF n
  <2>2. CASE cache.seen = Never
    <3>1. ~(cache.seen \in 0..Minute)
      BY <2>2, <2>a, Zenon
    <3>2. ~(cache.seen > Minute)
      BY <2>2, <2>a, Zenon
    <3>3. new = [cache EXCEPT !.online = FALSE]
      BY <2>2, <3>1, <3>2, Zenon DEF reconcileStatusConditionsOnline
    <3> QED BY <3>1, <3>3, Zenon DEF Status
  <2>3. CASE cache.seen > Minute
    <3>1. ~(cache.seen \in 0..Minute) /\ cache.seen # Never
      BY <2>3, <2>a, Zenon
    <3>2. new = [cache EXCEPT !.online = FALSE, !.value = "Offline"]
      BY <2>3, <3>1, Zenon DEF reconcileStatusConditionsOnline
    <3> QED BY <3>1, <3>2, Zenon DEF Status
  <2>4. CASE cache.seen \in 0..Minute
    <3>1. ~(cache.seen > Minute) /\ cache.seen # Never
      BY <2>4, <2>a, Zenon
    <3>2. new = [cache EXCEPT !.online = cache.value # "Offline"]
      BY <2>4, <3>1, Zenon DEF reconcileStatusConditionsOnline
    <3> QED BY <3>2, Zenon DEF Status
  <2> QED BY <2>1, <2>2, <2>3, <2>4, Zenon
<1> HIDE DEF new
<1>2. new.online \in BOOLEAN /\ new.value \in Statuses
  BY <1>1, Zenon DEF Status, Statuses
<1>3. /\ diff.value = IF new.value = cache.value THEN Keep ELSE new.value
      /\ diff.seen = Keep
      /\ diff.online \in {new.online, Keep}
      /\ diff = [value |-> diff.value, seen |-> diff.seen, online |-> diff.online]
  BY <1>1, Zenon DEF Diff, Changed
<1> HIDE DEF diff
<1>4. diff.value \in Statuses \cup {Keep} /\ diff.online \in BOOLEAN \cup {Keep}
  BY <1>2, <1>3, Zenon
<1>5. diff \in Patches
  BY <1>3, <1>4, Zenon DEF Patches, Statuses
<1>6. /\ [diff EXCEPT !.online = new.online] \in Patches
      /\ [diff EXCEPT !.online = new.online].value = diff.value
  BY <1>2, <1>5, Zenon DEF Patches
<1> QED BY <1>1, <1>2, <1>3, <1>5, <1>6, Zenon DEF new, diff

LEMMA OlderStatus ==
    ASSUME NEW s \in Status
    PROVE  /\ Older(s) \in Status
           /\ Older(s).value = s.value
           /\ s.seen = 0 => Older(s).seen = 1
<1> DEFINE older == IF s.seen = Never \/ s.seen > Minute THEN s.seen ELSE s.seen + 1
<1>1. s.seen \in Ages
  BY Zenon DEF Status
<1>2. older \in Ages /\ (s.seen = 0 => older = 1)
  BY <1>1, MinuteIs DEF Ages, Never
<1>3. Older(s) = [s EXCEPT !.seen = older]
  BY Zenon DEF Older
<1> HIDE DEF older
<1> QED BY <1>2, <1>3, Zenon DEF Status

-----------------------------------------------------------------------------
(* Types                                                                   *)

LEMMA PatchStep ==
    ASSUME TypeOK, NEW p \in Patches, NEW touch \in BOOLEAN, Patch(p, touch)
    PROVE  /\ st' \in Status /\ stale' \in BOOLEAN
           /\ st'.value = IF p.value = Keep THEN st.value ELSE p.value
           /\ st'.seen = IF p.seen = 0 THEN 0 ELSE st.seen
           /\ touch => stale'
           /\ ~stale' => ~stale /\ st' = st
<1>1. st' = Apply(p) /\ stale' = (stale \/ touch \/ Apply(p) # st)
  BY Zenon DEF Patch
<1>2. st' \in Status
  BY <1>1, MergedStatus, Zenon DEF TypeOK
<1>3. /\ st'.value = IF p.value = Keep THEN st.value ELSE p.value
      /\ st'.seen = IF p.seen = 0 THEN 0 ELSE st.seen
  BY <1>1, MergedStatus, Zenon DEF TypeOK
<1>4. stale' \in BOOLEAN /\ (touch => stale') /\ (~stale' => ~stale /\ st' = st)
  BY <1>1, Zenon
<1> QED BY <1>2, <1>3, <1>4, Zenon

LEMMA BeginStep ==
    ASSUME TypeOK, NEW op \in {"Register", "Report", "Unregister"}, NEW v \in Statuses, Begin(op, v)
    PROVE  /\ TypeOK' \/ proc' # proc
           /\ call' \in [Calls -> CallOf \cup {None}]
           /\ call["awaited"] = None
           /\ call'["awaited"].op = op /\ call'["awaited"].value = v
           /\ call'["awaited"].patch = PatchOf(op, v)
           /\ call'["awaited"].alone <=> call["late"] = None
           /\ call'["late"] = call["late"]
<1> DEFINE new == [op |-> op, value |-> v, patch |-> PatchOf(op, v), alone |-> call["late"] = None]
<1>1. PatchOf(op, v) \in Patches
  BY CallPatches, Zenon DEF TypeOK
<1>2. new \in CallOf
  BY <1>1, Zenon DEF CallOf, Statuses
<1>3. /\ new.op = op /\ new.value = v /\ new.patch = PatchOf(op, v)
      /\ new.alone <=> call["late"] = None
  BY Zenon
<1>4. call["awaited"] = None /\ call' = [call EXCEPT !["awaited"] = new]
  BY Zenon DEF Begin
<1> HIDE DEF new
<1>5. /\ call' \in [Calls -> CallOf \cup {None}]
      /\ call'["awaited"] = new /\ call'["late"] = call["late"]
  BY <1>2, <1>4, Zenon DEF TypeOK, Calls
<1>6. proc' = proc => TypeOK'
  BY <1>5, Zenon DEF TypeOK, Begin, ctl
<1> QED BY <1>3, <1>4, <1>5, <1>6, Zenon

LEMMA AbandonedStep ==
    ASSUME TypeOK, Abandoned
    PROVE  /\ call' \in [Calls -> CallOf \cup {None}]
           /\ call'["awaited"] = None
           /\ call'["late"] \in {call["late"], call["awaited"]}
BY Zenon DEF TypeOK, Abandoned, Calls

LEMMA AfterCallProc ==
    ASSUME TypeOK, NEW op \in {"Register", "Report", "Unregister"}
    PROVE  /\ AfterCall(op) \in {"off", "registering", "up", "leaving", "unregistering"}
           /\ proc = "up" => AfterCall(op) = "up"
           /\ AfterCall(op) = "up" => proc \in {"up", "registering"}
<1>1. proc \in {"off", "registering", "up", "leaving", "unregistering"}
  BY Zenon DEF TypeOK
<1>2. CASE op = "Register" /\ proc = "registering"
  <2>1. AfterCall(op) = "up"
    BY <1>2, Zenon DEF AfterCall
  <2> QED BY <1>2, <2>1, Zenon
<1>3. CASE op = "Report" /\ proc = "leaving"
  <2>1. AfterCall(op) = "unregistering"
    BY <1>3, Zenon DEF AfterCall
  <2> QED BY <1>3, <2>1, Zenon
<1>4. CASE op = "Unregister" /\ proc = "unregistering"
  <2>1. AfterCall(op) = "off"
    BY <1>4, Zenon DEF AfterCall
  <2> QED BY <1>4, <2>1, Zenon
<1>5. CASE /\ ~(op = "Register" /\ proc = "registering")
           /\ ~(op = "Report" /\ proc = "leaving")
           /\ ~(op = "Unregister" /\ proc = "unregistering")
  <2>1. AfterCall(op) = proc
    BY <1>5, Zenon DEF AfterCall
  <2> QED BY <1>1, <2>1, Zenon
<1> QED BY <1>2, <1>3, <1>4, <1>5, Zenon

LEMMA HangUpStep ==
    ASSUME TypeOK, HangUp
    PROVE  /\ stream' \in [Streams -> StreamOf \cup {None}]
           /\ stream'["own"] = None
           /\ reported' = None
BY Zenon DEF TypeOK, HangUp, Streams

(* A Status call that has not written yet has its patch.                   *)
StatusTypes ==
    /\ TypeOK
    /\ \A s \in Streams : stream[s] # None /\ stream[s].pc = "start" => stream[s].patch \in Patches

(* Only a process that runs is connected, and it calls nothing but         *)
(* ReportStatus.                                                           *)
UpConnects ==
    /\ stream["own"] # None => proc = "up"
    /\ proc = "up" /\ call["awaited"] # None =>
         call["awaited"].op = "Report" /\ call["awaited"].value \in Values

LEMMA OpenStep ==
    ASSUME TypeOK, NEW s \in Streams, stream[s] # None,
           stream' = [stream EXCEPT ![s].pc = "open", ![s].patch = None]
    PROVE  /\ stream' \in [Streams -> StreamOf \cup {None}]
           /\ \A t \in Streams \ {s} : stream'[t] = stream[t]
           /\ stream'[s].pc = "open"
           /\ stream'[s].ticked = stream[s].ticked /\ stream'[s].steady = stream[s].steady
BY DEF TypeOK, StreamOf, Streams

LEMMA TickedStep ==
    ASSUME TypeOK, NEW s \in Streams, stream[s] # None,
           stream' = [stream EXCEPT ![s].ticked = TRUE]
    PROVE  /\ stream' \in [Streams -> StreamOf \cup {None}]
           /\ \A t \in Streams \ {s} : stream'[t] = stream[t]
           /\ stream'[s].pc = stream[s].pc /\ stream'[s].steady = stream[s].steady
           /\ stream'[s].ticked
BY Zenon DEF TypeOK, StreamOf, Streams

LEMMA UnitStep ==
    ASSUME TypeOK, stream["own"] # None,
           stream' = [stream EXCEPT !["own"].ticked = FALSE, !["own"].steady = TRUE]
    PROVE  /\ stream' \in [Streams -> StreamOf \cup {None}]
           /\ stream'["old"] = stream["old"]
           /\ stream'["own"].pc = stream["own"].pc
           /\ ~stream'["own"].ticked /\ stream'["own"].steady
BY Zenon DEF TypeOK, StreamOf, Streams

LEMMA NewStream ==
    ASSUME TypeOK, Connect
    PROVE  /\ stream' \in [Streams -> StreamOf \cup {None}]
           /\ stream'["old"] = stream["old"]
           /\ stream'["own"].pc = "start" /\ stream'["own"].patch \in Patches
           /\ ~stream'["own"].ticked /\ ~stream'["own"].steady
<1>1. FirstPatch(st) \in Patches
  BY StreamPatches, Zenon DEF TypeOK
<1> DEFINE new == [pc |-> "start", patch |-> FirstPatch(st), ticked |-> FALSE, steady |-> FALSE]
<1>2. /\ new \in StreamOf /\ new.pc = "start" /\ new.patch \in Patches
      /\ ~new.ticked /\ ~new.steady
  BY <1>1, Zenon DEF StreamOf
<1>3. stream' = [stream EXCEPT !["own"] = new]
  BY Zenon DEF Connect
<1> HIDE DEF new
<1>4. /\ stream'["own"] = new /\ stream'["old"] = stream["old"]
      /\ stream' \in [Streams -> StreamOf \cup {None}]
  BY <1>2, <1>3, Zenon DEF TypeOK, Streams
<1> QED BY <1>2, <1>4, Zenon

LEMMA TypesHold ==
    ASSUME StatusTypes, UpConnects, [Next]_vars
    PROVE  StatusTypes'
<1> DEFINE HasPatch(f, s) == f[s] # None /\ f[s].pc = "start" => f[s].patch \in Patches
<1>0. TypeOK /\ \A s \in Streams : HasPatch(stream, s)
  BY Zenon DEF StatusTypes
<1> SUFFICES TypeOK' /\ \A s \in Streams : HasPatch(stream', s)
  BY Zenon DEF StatusTypes
<1>1. CASE UNCHANGED vars
  BY <1>0, <1>1, Zenon DEF TypeOK, vars
<1>2. ASSUME stream' = stream PROVE \A s \in Streams : HasPatch(stream', s)
  BY <1>0, <1>2, Zenon
<1>3. CASE Start
  <2>1. "" \in Statuses
    BY Zenon DEF Statuses
  <2>2. call' \in [Calls -> CallOf \cup {None}]
    BY <1>0, <1>3, <2>1, BeginStep, Zenon DEF Start
  <2>3. TypeOK'
    BY <1>0, <1>3, <2>2, Zenon DEF TypeOK, Start, Begin, ctl
  <2> QED BY <1>2, <1>3, <2>3, Zenon DEF Start, Begin
<1>4. CASE SendUnregister
  <2>1. "Offline" \in Statuses
    BY Zenon DEF Statuses
  <2>2. TypeOK'
    BY <1>0, <1>4, <2>1, BeginStep, Zenon DEF SendUnregister
  <2> QED BY <1>2, <1>4, <2>2, Zenon DEF SendUnregister, Begin
<1>5. ASSUME NEW v \in Values \cup {"Offline"}, Report(v)
      PROVE  TypeOK' /\ \A s \in Streams : HasPatch(stream', s)
  <2>1. v \in Statuses
    BY Zenon DEF Statuses
  <2>2. TypeOK'
    BY <1>0, <1>5, <2>1, BeginStep, Zenon DEF Report
  <2> QED BY <1>2, <1>5, <2>2, Zenon DEF Report, Begin
<1>6. CASE GiveUp
  <2>1. call["awaited"].op \in {"Register", "Report", "Unregister"}
    BY <1>0, <1>6, Zenon DEF TypeOK, CallOf, Calls, GiveUp
  <2>2. proc' \in {"off", "registering", "up", "leaving", "unregistering"}
    BY <1>0, <1>6, <2>1, AfterCallProc, Zenon DEF GiveUp
  <2>3. TypeOK'
    BY <1>0, <1>6, <2>2, AbandonedStep, Zenon DEF TypeOK, GiveUp, ctl
  <2> QED BY <1>2, <1>6, <2>3, Zenon DEF GiveUp
<1>7. CASE Connect
  <2>1. TypeOK'
    BY <1>0, <1>7, NewStream, Zenon DEF TypeOK, Connect, ctl
  <2> QED BY <1>0, <1>7, <2>1, NewStream, Zenon DEF Streams
<1>8. CASE Disconnect
  <2>1. TypeOK'
    BY <1>0, <1>8, HangUpStep, Zenon DEF TypeOK, Disconnect, ctl
  <2> QED BY <1>0, <1>8, <2>1, Zenon DEF Disconnect, HangUp, Streams
<1>9. CASE Leave
  <2>1. TypeOK'
    BY <1>0, <1>9, HangUpStep, AbandonedStep, Zenon DEF TypeOK, Leave, ctl
  <2> QED BY <1>0, <1>9, <2>1, Zenon DEF Leave, HangUp, Streams
<1>10. ASSUME NEW c \in Calls, HandleCall(c)
       PROVE  TypeOK' /\ \A s \in Streams : HasPatch(stream', s)
  <2>1. /\ call[c] \in CallOf /\ call[c].patch \in Patches
        /\ call[c].op \in {"Register", "Report", "Unregister"}
    BY <1>0, <1>10, Zenon DEF TypeOK, CallOf, HandleCall
  <2>2. st' \in Status /\ stale' \in BOOLEAN
    BY <1>0, <1>10, <2>1, PatchStep, Zenon DEF HandleCall
  <2>3. proc' \in {"off", "registering", "up", "leaving", "unregistering"}
    BY <1>0, <1>10, <2>1, AfterCallProc, Zenon DEF HandleCall, TypeOK
  <2>4. call' \in [Calls -> CallOf \cup {None}]
    BY <1>0, <1>10, Zenon DEF TypeOK, HandleCall
  <2>5. reported' \in Values \cup {None}
    BY <1>0, <1>10, Zenon DEF TypeOK, HandleCall, UpConnects, Steady
  <2>6. TypeOK'
    BY <1>0, <1>10, <2>2, <2>3, <2>4, <2>5, Zenon DEF TypeOK, HandleCall
  <2> QED BY <1>2, <1>10, <2>6, Zenon DEF HandleCall
<1>11. ASSUME NEW s \in Streams, StatusStart(s)
       PROVE  TypeOK' /\ \A t \in Streams : HasPatch(stream', t)
  <2>1. stream[s].patch \in Patches
    BY <1>0, <1>11, Zenon DEF StatusStart
  <2>2. st' \in Status /\ stale' \in BOOLEAN
    BY <1>0, <1>11, <2>1, PatchStep, Zenon DEF StatusStart
  <2>3. TypeOK'
    BY <1>0, <1>11, <2>2, OpenStep, Zenon DEF TypeOK, StatusStart
  <2> QED BY <1>0, <1>11, <2>3, OpenStep, Zenon DEF StatusStart
<1>12. ASSUME NEW s \in Streams, online(s)
       PROVE  TypeOK' /\ \A t \in Streams : HasPatch(stream', t)
  <2>1. [Diff(st, st) EXCEPT !.seen = 0] \in Patches
    BY <1>0, StreamPatches, Zenon DEF TypeOK
  <2>2. st' \in Status /\ stale' \in BOOLEAN
    BY <1>0, <1>12, <2>1, PatchStep, Zenon DEF online
  <2>3. TypeOK'
    BY <1>0, <1>12, <2>2, TickedStep, Zenon DEF TypeOK, online
  <2> QED BY <1>0, <1>12, <2>3, TickedStep, Zenon DEF online
<1>13. CASE StatusEnds \/ StatusFails
  <2>1. stream' \in [Streams -> StreamOf \cup {None}]
    BY <1>0, <1>13, Zenon DEF TypeOK, StatusEnds, StatusFails
  <2>2. TypeOK'
    BY <1>0, <1>13, <2>1, Zenon DEF TypeOK, StatusEnds, StatusFails, ctl
  <2> QED BY <1>0, <1>13, <2>2, Zenon DEF StatusEnds, StatusFails, TypeOK, Streams
<1>14. CASE SyncCache
  BY <1>0, <1>2, <1>14, Zenon DEF TypeOK, SyncCache
<1>15. CASE PassStart
  <2>1. pass' \in PassOf
    BY <1>0, <1>15, PassPatches, Zenon DEF TypeOK, PassStart, PassOf
  <2>2. TypeOK'
    BY <1>0, <1>15, <2>1, Zenon DEF TypeOK, PassStart
  <2> QED BY <1>2, <1>15, <2>2, Zenon DEF PassStart
<1>16. CASE PassPatch
  <2>1. pass.patch \in Patches /\ pass.requeue \in BOOLEAN
    BY <1>0, <1>16, Zenon DEF TypeOK, PassOf, PassPatch
  <2>2. st' \in Status /\ stale' \in BOOLEAN
    BY <1>0, <1>16, <2>1, PatchStep, Zenon DEF PassPatch
  <2>3. armed' \in BOOLEAN
    BY <1>16, Zenon DEF PassPatch
  <2>4. TypeOK'
    BY <1>0, <1>16, <2>2, <2>3, Zenon DEF TypeOK, PassPatch
  <2> QED BY <1>2, <1>16, <2>4, Zenon DEF PassPatch
<1>17. CASE PassFails
  BY <1>0, <1>2, <1>17, Zenon DEF TypeOK, PassFails
<1>18. CASE Tick
  <2>1. st' \in Status /\ cache' \in Status
    BY <1>0, <1>18, OlderStatus, Zenon DEF TypeOK, Tick
  <2>2. CASE stream["own"] = None
    BY <1>0, <1>2, <1>18, <2>1, <2>2, Zenon DEF TypeOK, Tick
  <2>3. CASE stream["own"] # None
    <3>1. stream' = [stream EXCEPT !["own"].ticked = FALSE, !["own"].steady = TRUE]
      BY <1>18, <2>3, Zenon DEF Tick
    <3>2. TypeOK'
      BY <1>0, <1>18, <2>1, <2>3, <3>1, UnitStep, Zenon DEF TypeOK, Tick
    <3> QED BY <1>0, <1>18, <2>3, <3>1, <3>2, UnitStep, Zenon DEF Tick, Settled, Streams
  <2> QED BY <2>2, <2>3, Zenon
<1> QED
  BY <1>1, <1>3, <1>4, <1>5, <1>6, <1>7, <1>8, <1>9, <1>10, <1>11, <1>12, <1>13, <1>14, <1>15,
     <1>16, <1>17, <1>18, Zenon DEF Next, Exporter, Controller

LEMMA UpHolds ==
    ASSUME StatusTypes, UpConnects, [Next]_vars
    PROVE  UpConnects'
<1>0. TypeOK
  BY Zenon DEF StatusTypes
<1>1. CASE UNCHANGED vars
  BY <1>1, Zenon DEF UpConnects, vars
<1>2. ASSUME UNCHANGED <<call, proc>>, stream'["own"] # None => stream["own"] # None
      PROVE  UpConnects'
  BY <1>2, Zenon DEF UpConnects
<1>3. CASE Start
  BY <1>3, Zenon DEF UpConnects, Start, Begin
<1>4. CASE SendUnregister
  BY <1>4, Zenon DEF UpConnects, SendUnregister, Begin
<1>5. ASSUME NEW v \in Values \cup {"Offline"}, Report(v)
      PROVE  UpConnects'
  <2>1. v \in Statuses
    BY Zenon DEF Statuses
  <2>2. call'["awaited"].op = "Report" /\ call'["awaited"].value = v
    BY <1>0, <1>5, <2>1, BeginStep, Zenon DEF Report
  <2> QED BY <1>5, <2>2, Zenon DEF UpConnects, Report, Begin
<1>6. CASE GiveUp
  <2>1. call["awaited"].op \in {"Register", "Report", "Unregister"}
    BY <1>0, <1>6, Zenon DEF TypeOK, CallOf, Calls, GiveUp
  <2>2. proc = "up" => proc' = "up"
    BY <1>0, <1>6, <2>1, AfterCallProc, Zenon DEF GiveUp
  <2> QED BY <1>0, <1>6, <2>2, AbandonedStep, Zenon DEF UpConnects, GiveUp
<1>7. CASE Connect
  BY <1>7, Zenon DEF UpConnects, Connect
<1>8. CASE Disconnect
  BY <1>0, <1>2, <1>8, HangUpStep, Zenon DEF Disconnect
<1>9. CASE Leave
  BY <1>0, <1>9, HangUpStep, AbandonedStep, Zenon DEF UpConnects, Leave
<1>10. ASSUME NEW c \in Calls, HandleCall(c)
       PROVE  UpConnects'
  <2>1. call[c].op \in {"Register", "Report", "Unregister"}
    BY <1>0, <1>10, Zenon DEF TypeOK, CallOf, HandleCall
  <2>2. CASE c = "awaited"
    <3>1. proc = "up" => proc' = "up"
      BY <1>0, <1>10, <2>1, <2>2, AfterCallProc, Zenon DEF HandleCall
    <3>2. call'["awaited"] = None
      BY <1>0, <1>10, <2>2, Zenon DEF HandleCall, TypeOK, Calls
    <3> QED BY <1>10, <3>1, <3>2, Zenon DEF UpConnects, HandleCall
  <2>3. CASE c = "late"
    <3>1. proc' = proc /\ call'["awaited"] = call["awaited"]
      BY <1>0, <1>10, <2>3, Zenon DEF HandleCall, TypeOK, Calls
    <3> QED BY <1>10, <3>1, Zenon DEF UpConnects, HandleCall
  <2> QED BY <2>2, <2>3, Zenon DEF Calls
<1>11. ASSUME NEW s \in Streams, StatusStart(s)
       PROVE  UpConnects'
  BY <1>0, <1>2, <1>11, OpenStep, Zenon DEF StatusStart, Streams
<1>12. ASSUME NEW s \in Streams, online(s)
       PROVE  UpConnects'
  BY <1>0, <1>2, <1>12, TickedStep, Zenon DEF online, Streams
<1>13. CASE StatusEnds \/ StatusFails
  BY <1>0, <1>2, <1>13, Zenon DEF StatusEnds, StatusFails, TypeOK, Streams
<1>14. CASE SyncCache \/ PassStart \/ PassPatch \/ PassFails
  BY <1>2, <1>14, Zenon DEF SyncCache, PassStart, PassPatch, PassFails
<1>15. CASE Tick
  BY <1>2, <1>15, Zenon DEF Tick
<1> QED
  BY <1>1, <1>3, <1>4, <1>5, <1>6, <1>7, <1>8, <1>9, <1>10, <1>11, <1>12, <1>13, <1>14, <1>15, Zenon
     DEF Next, Exporter, Controller

-----------------------------------------------------------------------------
(* The inductive invariant                                                 *)

(* The cache differs from the stored object only while an update is due,   *)
(* and a ticker that has run in this unit has set LastSeen.                *)
Fresher ==
    /\ ~stale => cache = st
    /\ stream["own"] # None /\ stream["own"].ticked => st.seen = 0

(* On a steady connection nobody else writes the status: the stream before *)
(* is over, and LastSeen is recent in every copy a pass reads.             *)
SteadyIsQuiet ==
    stream["own"] # None /\ stream["own"].steady =>
      /\ stream["own"].pc = "open" /\ stream["old"] = None
      /\ st.seen \in 0..Minute /\ cache.seen \in 0..Minute
      /\ pass # None => pass.patch.value = Keep

(* A report on its own has what it takes to store its status.              *)
ReportIsEnough ==
    call["awaited"] # None /\ call["awaited"].alone =>
      /\ call["late"] = None
      /\ stream["own"] # None /\ stream["own"].steady =>
           \/ call["awaited"].patch.value = call["awaited"].value
           \/ call["awaited"].patch.value = Keep /\ st.value = call["awaited"].value

(* The report that counts was the last writer.                             *)
ReportIsLast ==
    reported # None =>
      /\ stream["own"] # None /\ stream["own"].steady
      /\ st.value = reported
      /\ call["late"] = None
      /\ call["awaited"] # None => call["awaited"].alone

StatusInv == Fresher /\ SteadyIsQuiet /\ ReportIsEnough /\ ReportIsLast

(* A call begins; over a connection it is a report.                        *)
LEMMA BegunStep ==
    ASSUME StatusTypes, StatusInv,
           NEW op \in {"Register", "Report", "Unregister"}, NEW v \in Statuses, Begin(op, v),
           stream["own"] # None => op = "Report"
    PROVE  StatusInv'
<1>1. /\ call'["awaited"].value = v
      /\ call'["awaited"].patch = PatchOf(op, v)
      /\ call'["awaited"].alone <=> call["late"] = None
      /\ call'["late"] = call["late"]
  BY BeginStep, Zenon DEF StatusTypes
<1>2. stream["own"] # None =>
        call'["awaited"].patch.value = IF v = st.value THEN Keep ELSE v
  BY <1>1, CallPatches, Zenon DEF StatusTypes, TypeOK
<1>3. UNCHANGED <<st, cache, stale, pass, stream, reported>>
  BY Zenon DEF Begin, ctl
<1>4. Fresher' /\ SteadyIsQuiet'
  BY <1>3, Zenon DEF StatusInv, Fresher, SteadyIsQuiet
<1>5. ReportIsEnough'
  BY <1>1, <1>2, <1>3, Zenon DEF ReportIsEnough
<1>6. ReportIsLast'
  BY <1>1, <1>3, Zenon DEF StatusInv, ReportIsLast
<1> QED BY <1>4, <1>5, <1>6, Zenon DEF StatusInv

(* The exporter lost its connection.                                       *)
LEMMA NoStream ==
    ASSUME StatusInv, stream'["own"] = None, reported' = None, UNCHANGED <<st, cache, stale>>,
           call'["awaited"] = None \/ UNCHANGED call
    PROVE  StatusInv'
BY Zenon DEF StatusInv, Fresher, SteadyIsQuiet, ReportIsEnough, ReportIsLast

(* The connection of the exporter, if any, stays as it is.                 *)
SameConnection ==
    /\ stream["old"] = None => stream'["old"] = None
    /\ stream'["own"] # None <=> stream["own"] # None
    /\ stream["own"] # None =>
         stream'["own"].steady = stream["own"].steady /\ stream'["own"].pc = stream["own"].pc

(* A ticker runs on a stream that stays.                                   *)
LEMMA StreamsStay ==
    ASSUME TypeOK, NEW s \in Streams, online(s)
    PROVE  SameConnection
<1>1. /\ \A t \in Streams \ {s} : stream'[t] = stream[t]
      /\ stream'[s].pc = stream[s].pc /\ stream'[s].steady = stream[s].steady
      /\ stream' \in [Streams -> StreamOf \cup {None}]
  BY TickedStep, Zenon DEF online
<1>2. stream[s] # None /\ stream'[s] \in StreamOf
  BY Zenon DEF online, TypeOK, StreamOf
<1>3. stream'[s] # None
  BY <1>2, NoneAssumption, Zenon
<1>4. CASE s = "own"
  BY <1>1, <1>2, <1>3, <1>4, Zenon DEF SameConnection, Streams
<1>5. CASE s = "old"
  <2>1. stream'["own"] = stream["own"]
    BY <1>1, <1>5, Zenon DEF Streams
  <2> QED BY <1>1, <1>2, <1>3, <1>5, <2>1, Zenon DEF SameConnection
<1> QED BY <1>4, <1>5, Zenon DEF Streams

(* The first conjuncts survive every patch.                                *)
LEMMA PatchIsQuiet ==
    ASSUME TypeOK, Fresher, SteadyIsQuiet, NEW p \in Patches, NEW touch \in BOOLEAN, Patch(p, touch),
           UNCHANGED cache, pass' \in {pass, None},
           stream["old"] = None => stream'["old"] = None,
           stream'["own"] # None =>
             /\ stream["own"] # None
             /\ stream'["own"].steady <=> stream["own"].steady
             /\ stream'["own"].pc \in {stream["own"].pc, "open"}
             /\ stream'["own"].ticked => stream["own"].ticked \/ p.seen = 0
    PROVE  Fresher' /\ SteadyIsQuiet'
<1>1. /\ st'.seen = IF p.seen = 0 THEN 0 ELSE st.seen
      /\ ~stale' => ~stale /\ st' = st
  BY PatchStep, Zenon
<1>2. Fresher'
  BY <1>1, Zenon DEF Fresher
<1>3. stream'["own"] # None /\ stream'["own"].steady => st'.seen \in 0..Minute
  BY <1>1, MinuteIs DEF SteadyIsQuiet
<1>4. SteadyIsQuiet'
  BY <1>3, Zenon DEF SteadyIsQuiet
<1> QED BY <1>2, <1>4, Zenon

LEMMA InvHolds ==
    ASSUME StatusTypes, UpConnects, StatusInv, [Next]_vars
    PROVE  StatusInv'
<1>0. TypeOK /\ Fresher /\ SteadyIsQuiet /\ ReportIsEnough /\ ReportIsLast
  BY Zenon DEF StatusTypes, StatusInv
<1>1. CASE UNCHANGED vars
  BY <1>0, <1>1, Zenon DEF StatusInv, Fresher, SteadyIsQuiet, ReportIsEnough, ReportIsLast, vars
<1>3. CASE Start
  BY <1>3, BegunStep, Zenon DEF Start, UpConnects, Statuses
<1>4. CASE SendUnregister
  BY <1>4, BegunStep, Zenon DEF SendUnregister, UpConnects, Statuses
<1>5. ASSUME NEW v \in Values \cup {"Offline"}, Report(v)
      PROVE  StatusInv'
  BY <1>5, BegunStep, Zenon DEF Report, Statuses
<1>6. CASE GiveUp
  <2>1. /\ call'["awaited"] = None /\ reported' = None
        /\ UNCHANGED <<st, cache, stale, pass, stream>>
    BY <1>0, <1>6, AbandonedStep, SMTT(20) DEF GiveUp, ctl
  <2> QED BY <1>0, <2>1, Zenon DEF StatusInv, Fresher, SteadyIsQuiet, ReportIsEnough, ReportIsLast
<1>7. CASE Connect
  <2>1. /\ ~stream'["own"].ticked /\ ~stream'["own"].steady
        /\ UNCHANGED <<st, cache, stale, pass, call, reported>>
        /\ stream["own"] = None
    BY <1>0, <1>7, NewStream, Zenon DEF Connect, ctl
  <2> QED BY <1>0, <2>1, Zenon DEF StatusInv, Fresher, SteadyIsQuiet, ReportIsEnough, ReportIsLast
<1>8. CASE Disconnect
  BY <1>0, <1>8, HangUpStep, NoStream, Zenon DEF Disconnect, ctl
<1>9. CASE Leave
  BY <1>0, <1>9, HangUpStep, AbandonedStep, NoStream, Zenon DEF Leave, ctl
<1>10. ASSUME NEW c \in Calls, HandleCall(c)
       PROVE  StatusInv'
  <2>1. call[c].patch \in Patches
    BY <1>0, <1>10, Zenon DEF TypeOK, CallOf, HandleCall
  <2>2. /\ Patch(call[c].patch, TRUE)
        /\ UNCHANGED <<cache, pass, stream>>
    BY <1>10, Zenon DEF HandleCall
  <2>3. Fresher' /\ SteadyIsQuiet'
    BY <1>0, <2>1, <2>2, PatchIsQuiet, Zenon
  <2>4. st'.value = IF call[c].patch.value = Keep THEN st.value ELSE call[c].patch.value
    BY <1>0, <2>1, <2>2, PatchStep, Zenon
  <2>5. CASE c = "awaited"
    <3>1. call'["awaited"] = None /\ call'["late"] = call["late"]
      BY <1>0, <1>10, <2>5, Zenon DEF HandleCall, TypeOK, Calls
    <3>2. ReportIsEnough'
      BY <3>1, Zenon DEF ReportIsEnough
    <3>3. CASE call[c].op = "Report" /\ Steady /\ call[c].alone
      <4>1. reported' = call[c].value
        BY <1>10, <2>5, <3>3, Zenon DEF HandleCall
      <4>2. call[c].value # Keep
        BY <1>10, <2>5, <3>3, KeepIs, Zenon DEF UpConnects, Steady, HandleCall, Statuses
      <4>3. st'.value = call[c].value /\ call["late"] = None
        BY <1>0, <1>10, <2>4, <2>5, <3>3, <4>2, Zenon DEF ReportIsEnough, Steady, HandleCall
      <4> QED BY <2>2, <2>3, <3>1, <3>2, <3>3, <4>1, <4>3, Zenon DEF StatusInv, ReportIsLast, Steady
    <3>4. CASE ~(call[c].op = "Report" /\ Steady /\ call[c].alone)
      <4>1. reported' = reported
        BY <1>10, <3>4, SMTT(20) DEF HandleCall
      <4>2. reported = None
        BY <1>0, <1>10, <2>5, <3>4, SMTT(20) DEF ReportIsLast, SteadyIsQuiet, Steady, UpConnects, HandleCall
      <4> QED BY <2>3, <3>2, <4>1, <4>2, Zenon DEF StatusInv, ReportIsLast
    <3> QED BY <3>3, <3>4, Zenon
  <2>6. CASE c = "late"
    <3>1. call'["awaited"] = call["awaited"] /\ call["late"] # None /\ reported' = reported
      BY <1>0, <1>10, <2>6, Zenon DEF HandleCall, TypeOK, Calls
    <3>2. reported = None /\ ~(call["awaited"] # None /\ call["awaited"].alone)
      BY <1>0, <3>1, Zenon DEF ReportIsLast, ReportIsEnough
    <3> QED BY <2>3, <3>1, <3>2 DEF StatusInv, ReportIsLast, ReportIsEnough
  <2> QED BY <2>5, <2>6, Zenon DEF Calls
<1>11. ASSUME NEW s \in Streams, StatusStart(s)
       PROVE  StatusInv'
  <2>1. stream[s].patch \in Patches /\ stream[s] # None /\ stream[s].pc = "start"
    BY <1>11, Zenon DEF StatusStart, StatusTypes
  <2>2. /\ Patch(stream[s].patch, TRUE)
        /\ UNCHANGED <<cache, pass, call, reported>>
    BY <1>11, Zenon DEF StatusStart
  <2>3. /\ \A t \in Streams \ {s} : stream'[t] = stream[t]
        /\ stream'[s].pc = "open"
        /\ stream'[s].ticked = stream[s].ticked /\ stream'[s].steady = stream[s].steady
    BY <1>0, <1>11, OpenStep, Zenon DEF StatusStart
  <2>4. ~(stream["own"] # None /\ stream["own"].steady)
    BY <1>0, <2>1, Zenon DEF SteadyIsQuiet, Streams
  <2>5. stream'["own"] # None => stream["own"] # None /\ ~stream'["own"].steady
                                  /\ (stream'["own"].ticked => stream["own"].ticked)
    BY <2>1, <2>3, <2>4, Zenon DEF Streams
  <2>6. Fresher'
    <3>1. /\ st'.seen = IF stream[s].patch.seen = 0 THEN 0 ELSE st.seen
          /\ stale'
      BY <1>0, <2>1, <2>2, PatchStep, Zenon
    <3> QED BY <1>0, <2>5, <3>1, Zenon DEF Fresher
  <2> QED BY <1>0, <2>2, <2>4, <2>5, <2>6, Zenon DEF StatusInv, SteadyIsQuiet, ReportIsEnough, ReportIsLast
<1>12. ASSUME NEW s \in Streams, online(s)
       PROVE  StatusInv'
  <2> DEFINE p == [Diff(st, st) EXCEPT !.seen = 0]
  <2>1. p \in Patches /\ p.value = Keep /\ p.seen = 0
    BY <1>0, StreamPatches, Zenon DEF TypeOK
  <2>2. /\ Patch(p, TRUE) /\ stream[s] # None
        /\ UNCHANGED <<cache, pass, call, reported>>
    BY <1>12, Zenon DEF online
  <2> HIDE DEF p
  <2>3. /\ \A t \in Streams \ {s} : stream'[t] = stream[t]
        /\ stream'[s].pc = stream[s].pc /\ stream'[s].steady = stream[s].steady
    BY <1>0, <1>12, TickedStep, Zenon DEF online
  <2>4. SameConnection
    BY <1>0, <1>12, StreamsStay, Zenon
  <2>5. Fresher' /\ SteadyIsQuiet'
    BY <1>0, <2>1, <2>2, <2>3, <2>4, PatchIsQuiet, Zenon DEF SameConnection, Streams
  <2>6. st'.value = st.value
    BY <1>0, <2>1, <2>2, PatchStep, Zenon
  <2> QED BY <1>0, <2>2, <2>4, <2>5, <2>6, Zenon DEF StatusInv, SameConnection, ReportIsEnough, ReportIsLast
<1>13. CASE StatusEnds
  <2>1. /\ stream'["own"] = stream["own"] /\ stream'["old"] = None
        /\ UNCHANGED <<st, cache, stale, pass, call, reported>>
    BY <1>0, <1>13, Zenon DEF StatusEnds, TypeOK, Streams, ctl
  <2> QED BY <1>0, <2>1, Zenon DEF StatusInv, Fresher, SteadyIsQuiet, ReportIsEnough, ReportIsLast
<1>14. CASE StatusFails
  <2>1. stream'["own"] = None
    BY <1>0, <1>14, SMTT(20) DEF StatusFails, TypeOK, Streams
  <2> QED BY <1>14, <2>1, NoStream, SMTT(20) DEF StatusFails, ctl
<1>15. CASE SyncCache
  BY <1>0, <1>15, Zenon
  DEF SyncCache, StatusInv, Fresher, SteadyIsQuiet, ReportIsEnough, ReportIsLast
<1>16. CASE PassStart
  <2>1. UNCHANGED <<st, cache, stale, call, stream, reported>>
    BY <1>16, Zenon DEF PassStart
  <2>2. cache.seen \in 0..Minute => pass'.patch.value = Keep
    BY <1>0, <1>16, PassPatches, Zenon DEF PassStart, TypeOK
  <2>3. SteadyIsQuiet'
    BY <1>0, <2>1, <2>2, Zenon DEF SteadyIsQuiet
  <2> QED BY <1>0, <2>1, <2>3, Zenon DEF StatusInv, Fresher, ReportIsEnough, ReportIsLast
<1>17. CASE PassPatch
  <2>1. pass # None /\ pass.patch \in Patches
    BY <1>0, <1>17, Zenon DEF TypeOK, PassOf, PassPatch
  <2>2. /\ Patch(pass.patch, FALSE) /\ pass' = None
        /\ UNCHANGED <<cache, call, stream, reported>>
    BY <1>17, Zenon DEF PassPatch
  <2>3. Fresher' /\ SteadyIsQuiet'
    BY <1>0, <2>1, <2>2, PatchIsQuiet, Zenon
  <2>4. stream["own"] # None /\ stream["own"].steady => st'.value = st.value
    BY <1>0, <2>1, <2>2, PatchStep, Zenon DEF SteadyIsQuiet
  <2> QED BY <1>0, <2>2, <2>3, <2>4, Zenon DEF StatusInv, ReportIsEnough, ReportIsLast
<1>18. CASE PassFails
  <2>1. pass' = None /\ UNCHANGED <<st, cache, stale, call, stream, reported>>
    BY <1>18, Zenon DEF PassFails
  <2> QED BY <1>0, <2>1, Zenon DEF StatusInv, Fresher, SteadyIsQuiet, ReportIsEnough, ReportIsLast
<1>19. CASE Tick
  <2>1. /\ ~stale /\ pass = None /\ call["awaited"] = None /\ call["late"] = None
        /\ stream["old"] = None
        /\ stream["own"] # None => stream["own"].pc = "open" /\ stream["own"].ticked
        /\ UNCHANGED <<stale, pass, call, reported>>
        /\ st' = Older(st) /\ cache' = Older(cache)
    BY <1>19, SMTT(20) DEF Tick, Settled, Calls
  <2>2. cache = st /\ cache' = st' /\ st'.value = st.value
    BY <1>0, <2>1, OlderStatus, Zenon DEF Fresher, TypeOK
  <2>3. CASE stream["own"] = None
    <3>1. stream' = stream
      BY <1>19, <2>3, Zenon DEF Tick
    <3> QED BY <1>0, <2>1, <2>2, <2>3, <3>1, Zenon
            DEF StatusInv, Fresher, SteadyIsQuiet, ReportIsEnough, ReportIsLast
  <2>4. CASE stream["own"] # None
    <3>1. stream' = [stream EXCEPT !["own"].ticked = FALSE, !["own"].steady = TRUE]
      BY <1>19, <2>4, Zenon DEF Tick
    <3>2. /\ stream'["old"] = None /\ stream'["own"].pc = "open"
          /\ ~stream'["own"].ticked /\ stream'["own"].steady
      BY <1>0, <2>1, <2>4, <3>1, UnitStep, Zenon
    <3>3. st'.seen = 1
      BY <1>0, <2>1, <2>4, OlderStatus, Zenon DEF Fresher, TypeOK
    <3>4. Fresher' /\ SteadyIsQuiet'
      BY <2>1, <2>2, <3>2, <3>3, MinuteIs DEF Fresher, SteadyIsQuiet
    <3>5. stream'["own"] # None
      <4>1. stream'["own"] \in StreamOf
        BY <1>0, <2>4, <3>1, Zenon DEF TypeOK, Streams, StreamOf
      <4> QED BY <4>1, NoneAssumption, Zenon
    <3> QED BY <1>0, <2>1, <2>2, <3>2, <3>4, <3>5, Zenon DEF StatusInv, ReportIsEnough, ReportIsLast
  <2> QED BY <2>3, <2>4, Zenon
<1> QED
  BY <1>1, <1>3, <1>4, <1>5, <1>6, <1>7, <1>8, <1>9, <1>10, <1>11, <1>12, <1>13, <1>14, <1>15,
     <1>16, <1>17, <1>18, <1>19, Zenon DEF Next, Exporter, Controller

-----------------------------------------------------------------------------
(* The theorems                                                            *)

LEMMA StatusStarts == Init => StatusTypes /\ UpConnects /\ StatusInv
<1> SUFFICES ASSUME Init PROVE StatusTypes /\ UpConnects /\ StatusInv
  OBVIOUS
<1>1. Fresh \in Status
  BY MinuteIs DEF Fresh, Status, Ages, Never
<1>2. StatusTypes
  BY <1>1, Zenon DEF Init, StatusTypes, TypeOK, Calls, Streams
<1>3. UpConnects /\ StatusInv
  BY Zenon DEF Init, UpConnects, StatusInv, Fresher, SteadyIsQuiet, ReportIsEnough, ReportIsLast,
         Calls, Streams
<1> QED BY <1>2, <1>3, Zenon

(* Every state has its type: what the calls, streams and passes carry are  *)
(* patches that set LastSeen to now or not at all.                         *)
THEOREM StatusTypeCorrect == Spec => []TypeOK
<1>1. StatusTypes /\ UpConnects /\ [Next]_vars => StatusTypes' /\ UpConnects'
  BY TypesHold, UpHolds, Zenon
<1>2. StatusTypes => TypeOK
  BY Zenon DEF StatusTypes
<1> QED BY <1>1, <1>2, StatusStarts, PTL DEF Spec

(* A status reported over a steady connection by the only call under way   *)
(* is the stored one until the exporter reports again or the connection    *)
(* ends: no older Status call, no pass over an older copy, and no patch    *)
(* that left the status out because it was equal, undoes it.               *)
THEOREM ReportsAreKept == Spec => []SteadyReportIsKept
<1>1. StatusTypes /\ UpConnects /\ StatusInv /\ [Next]_vars => StatusTypes' /\ UpConnects' /\ StatusInv'
  BY TypesHold, UpHolds, InvHolds, Zenon
<1>2. StatusInv => SteadyReportIsKept
  BY Zenon DEF StatusInv, ReportIsLast, SteadyReportIsKept
<1> QED BY <1>1, <1>2, StatusStarts, PTL DEF Spec

-----------------------------------------------------------------------------
(* The requeues                                                            *)

(* The reconciler has nothing left to do for an exporter shown so.         *)
ShownOffline(s) == ~s.online /\ (s.value = "Offline" \/ s.seen = Never)

(* Otherwise another pass over it is to come: its cached copy will change, *)
(* it is queued, its requeue is due, or a pass is under way.               *)
IsRechecked == ShownOffline(st) \/ stale \/ queued \/ armed \/ pass # None

(* A pass that will not ask for a requeue leaves it shown so, unless the   *)
(* object has changed under it.                                            *)
LastPassSettles ==
    pass # None /\ ~pass.requeue /\ ~stale /\ ~queued => ShownOffline(Apply(pass.patch))

LEMMA PassDecides ==
    ASSUME TypeOK, cache = st, PassStart, ~pass'.requeue
    PROVE  ShownOffline(Apply(pass'.patch))
<1> DEFINE new == reconcileStatusConditionsOnline(cache)
           diff == Diff(cache, new)
<1>1. /\ pass'.patch \in {diff, [diff EXCEPT !.online = new.online]}
      /\ pass'.requeue = new.online
  BY Zenon DEF PassStart
<1>2. /\ cache.seen = Never \/ cache.seen > Minute \/ cache.seen \in 0..Minute
      /\ ~(cache.seen > Minute /\ cache.seen \in 0..Minute)
      /\ ~(cache.seen = Never /\ cache.seen \in 0..Minute)
      /\ ~(cache.seen = Never /\ cache.seen > Minute)
  <2>1. cache.seen \in Ages
    BY Zenon DEF TypeOK, Status
  <2> QED BY <2>1, MinuteIs DEF Ages, Never
<1>3. ShownOffline(new) /\ new.online = FALSE /\ new.seen = st.seen /\ new.value # Keep
  <2>0. /\ cache = [value |-> cache.value, seen |-> cache.seen, online |-> cache.online]
        /\ cache.value # Keep /\ Keep # "Offline"
    BY KeepIs, Zenon DEF TypeOK, Status, Statuses
  <2>1. CASE cache.seen = Never
    <3>1. new = [cache EXCEPT !.online = FALSE]
      BY <1>2, <2>1, Zenon DEF reconcileStatusConditionsOnline
    <3> QED BY <2>0, <2>1, <3>1, Zenon DEF ShownOffline
  <2>2. CASE cache.seen > Minute
    <3>1. new = [cache EXCEPT !.online = FALSE, !.value = "Offline"]
      BY <1>2, <2>2, Zenon DEF reconcileStatusConditionsOnline
    <3> QED BY <2>0, <3>1, Zenon DEF ShownOffline
  <2>3. CASE cache.seen \in 0..Minute
    <3>1. new = [cache EXCEPT !.online = cache.value # "Offline"]
      BY <1>2, <2>3, Zenon DEF reconcileStatusConditionsOnline
    <3>2. /\ new.online = (cache.value # "Offline") /\ new.value = cache.value
          /\ new.seen = cache.seen
      BY <2>0, <3>1, Zenon
    <3>3. ~new.online
      BY <1>1, Zenon
    <3> QED BY <2>0, <3>2, <3>3, Zenon DEF ShownOffline
  <2> QED BY <1>2, <2>1, <2>2, <2>3, Zenon
<1> HIDE DEF new
<1>4. /\ diff.value = Changed(st.value, new.value) /\ diff.seen = Changed(st.seen, new.seen)
      /\ diff.online = Changed(st.online, new.online)
      /\ [diff EXCEPT !.online = new.online].value = diff.value
      /\ [diff EXCEPT !.online = new.online].seen = diff.seen
      /\ [diff EXCEPT !.online = new.online].online = new.online
  BY Zenon DEF Diff
<1> HIDE DEF diff
<1>5. /\ Apply(pass'.patch).value = new.value /\ Apply(pass'.patch).seen = new.seen
      /\ Apply(pass'.patch).online = new.online
  <2>1. FALSE # Keep
    BY StatusAssumption, Zenon
  <2>2. /\ Merged(st.value, Changed(st.value, new.value)) = new.value
        /\ Merged(st.seen, Changed(st.seen, new.seen)) = new.seen
        /\ Merged(st.online, Changed(st.online, new.online)) = new.online
    BY <1>3, <2>1, Zenon DEF Merged, Changed
  <2>3. pass'.patch.value = diff.value /\ pass'.patch.seen = diff.seen
    BY <1>1, <1>4, Zenon
  <2>4. pass'.patch.online = diff.online \/ pass'.patch.online = new.online
    BY <1>1, <1>4, Zenon
  <2>5. /\ Apply(pass'.patch).value = Merged(st.value, pass'.patch.value)
        /\ Apply(pass'.patch).seen = Merged(st.seen, pass'.patch.seen)
        /\ Apply(pass'.patch).online = Merged(st.online, pass'.patch.online)
    BY Zenon DEF Apply
  <2>6. Merged(st.online, new.online) = new.online
    BY <1>3, <2>1, Zenon DEF Merged
  <2>7. Merged(st.online, diff.online) = new.online
    BY <1>4, <2>2
  <2>8. Merged(st.value, diff.value) = new.value /\ Merged(st.seen, diff.seen) = new.seen
    BY <1>4, <2>2
  <2>9. Apply(pass'.patch).online = new.online
    BY <2>4, <2>5, <2>6, <2>7, Zenon
  <2> QED BY <2>3, <2>5, <2>8, <2>9, Zenon
<1> QED BY <1>3, <1>5, Zenon DEF ShownOffline

LEMMA RecheckHolds ==
    ASSUME TypeOK, ~stale => cache = st, IsRechecked, LastPassSettles, [Next]_vars
    PROVE  IsRechecked' /\ LastPassSettles'
<1>1. ASSUME UNCHANGED <<st, stale, queued, armed, pass>>
      PROVE  IsRechecked' /\ LastPassSettles'
  <2>1. Apply(pass.patch)' = Apply(pass.patch)
    BY <1>1, Zenon DEF Apply
  <2>2. ShownOffline(Apply(pass.patch)) => ShownOffline(Apply(pass.patch))'
    BY <2>1, Zenon DEF ShownOffline
  <2> QED BY <1>1, <2>2, Zenon DEF IsRechecked, LastPassSettles, ShownOffline
<1>2. ASSUME stale'
      PROVE  IsRechecked' /\ LastPassSettles'
  BY <1>2, Zenon DEF IsRechecked, LastPassSettles
<1>3. ASSUME queued'
      PROVE  IsRechecked' /\ LastPassSettles'
  BY <1>3, Zenon DEF IsRechecked, LastPassSettles
<1>4. CASE Exporter \/ StatusEnds \/ StatusFails \/ UNCHANGED vars
  <2>1. UNCHANGED <<st, stale, queued, armed, pass>>
    BY <1>4, Zenon DEF Exporter, Start, SendUnregister, GiveUp, Connect, Disconnect, Leave, Report,
       Begin, StatusEnds, StatusFails, ctl, vars
  <2> QED BY <1>1, <2>1, Zenon
<1>5. ASSUME NEW c \in Calls, HandleCall(c)
      PROVE  IsRechecked' /\ LastPassSettles'
  BY <1>2, <1>5, Zenon DEF HandleCall, Patch
<1>6. ASSUME NEW s \in Streams, StatusStart(s) \/ online(s)
      PROVE  IsRechecked' /\ LastPassSettles'
  BY <1>2, <1>6, Zenon DEF StatusStart, online, Patch
<1>7. CASE SyncCache \/ PassFails
  BY <1>3, <1>7, Zenon DEF SyncCache, PassFails
<1>8. CASE PassStart
  <2>1. UNCHANGED <<st, stale, cache>> /\ pass' # None
    <3>1. pass' \in PassOf
      BY <1>8, PassPatches, Zenon DEF PassStart, TypeOK, PassOf
    <3> QED BY <1>8, <3>1, NoneAssumption, Zenon DEF PassStart
  <2>2. ~stale /\ ~pass'.requeue => ShownOffline(Apply(pass'.patch))
    BY <1>8, PassDecides, Zenon
  <2>3. ShownOffline(Apply(pass'.patch)) => ShownOffline(Apply(pass.patch))'
    BY <2>1, Zenon DEF ShownOffline, Apply
  <2> QED BY <2>1, <2>2, <2>3, Zenon DEF IsRechecked, LastPassSettles
<1>9. CASE PassPatch
  <2>1. /\ pass # None /\ pass' = None /\ armed' = (armed \/ pass.requeue)
        /\ queued' = queued /\ st' = Apply(pass.patch) /\ (stale => stale')
    BY <1>9, Zenon DEF PassPatch, Patch
  <2>2. ShownOffline(Apply(pass.patch)) => ShownOffline(st')
    BY <2>1, Zenon
  <2> QED BY <2>1, <2>2, Zenon DEF IsRechecked, LastPassSettles
<1>10. CASE Tick
  <2>1. /\ ~stale /\ ~queued /\ pass = None /\ pass' = pass /\ st' = Older(st) /\ queued' = armed
    BY <1>10, Zenon DEF Tick, Settled
  <2>2. st = [value |-> st.value, seen |-> st.seen, online |-> st.online]
    BY Zenon DEF TypeOK, Status
  <2>3. /\ Older(st).value = st.value /\ Older(st).online = st.online
        /\ st.seen = Never => Older(st).seen = Never
    BY <2>2, Zenon DEF Older
  <2>4. ShownOffline(st) => ShownOffline(st')
    BY <2>1, <2>3, Zenon DEF ShownOffline
  <2> QED BY <2>1, <2>4, Zenon DEF IsRechecked, LastPassSettles
<1> QED
  BY <1>4, <1>5, <1>6, <1>7, <1>8, <1>9, <1>10, Zenon DEF Next, Controller

(* An exporter that is not shown offline is never forgotten: another pass  *)
(* of the reconciler over it is under way or to come, although a pass asks *)
(* for its requeue only when it found the exporter online, and from a copy *)
(* that may be old.  So one that goes silent, or one whose Online contra-  *)
(* dicts its status, is looked at again.                                   *)
THEOREM SilentIsNoticed == Spec => []IsRechecked
<1>1. Init => IsRechecked /\ LastPassSettles
  <2> SUFFICES ASSUME Init PROVE IsRechecked /\ LastPassSettles
    OBVIOUS
  <2>1. st.online = FALSE /\ st.seen = Never /\ pass = None
    BY Zenon DEF Init, Fresh
  <2> QED BY <2>1, Zenon DEF IsRechecked, LastPassSettles, ShownOffline
<1>2. StatusTypes /\ UpConnects /\ StatusInv /\ [Next]_vars => StatusTypes' /\ UpConnects' /\ StatusInv'
  BY TypesHold, UpHolds, InvHolds, Zenon
<1>3. /\ StatusTypes /\ StatusInv /\ IsRechecked /\ LastPassSettles /\ [Next]_vars
      => IsRechecked' /\ LastPassSettles'
  BY RecheckHolds, Zenon DEF StatusTypes, StatusInv, Fresher
<1> QED BY <1>1, <1>2, <1>3, StatusStarts, PTL DEF Spec

=============================================================================
