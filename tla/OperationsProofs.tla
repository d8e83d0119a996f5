-------------------------- MODULE OperationsProofs --------------------------
(***************************************************************************)
(* Proofs about Operations: its limits hold for every profile, whatever    *)
(* their values, the flow and the delays.                                  *)
(***************************************************************************)
EXTENDS Operations, TLAPS

Kind == {"Profile", "Steam"} \cup PumpOnly

OpsTyped ==
    /\ op \in Kind \cup {"None"}
    /\ steps \in Seq(ProfileStep)
    /\ step \in 0 .. Len(steps)
    /\ op # "Profile" => step = 0
    /\ poll \in {"waiting", "polled"}
    /\ spent \in Nat /\ check \in Nat /\ overdue \in 0 .. Delay
    /\ shot \in Nat /\ ran \in Nat /\ poured \in Nat

GuardsReleased == op = "None" => pump = "Idle" /\ ~brew /\ ~valve

\* What runs has been running for its limit at most, and the delay so far.
WithinLimit == op # "None" => spent <= Limit + overdue

Share == StepSafety + Delay

\* And what ran before it, a ceiling and a delay for each step.
WithinShares ==
    /\ op = "Profile" /\ step = 0 => poll = "polled" /\ ran = 0
    /\ op = "Profile" /\ step > 0 => ran <= (step - 1) * Share + spent
    /\ op \notin {"Profile", "None"} => ran = spent

Dosing == op = "Profile" /\ step > 0 /\ steps[step].volume > 0

\* The last look, so long ago, found less than the step's volume.
SinceLook == shot < steps[step].volume + MaxFlow * (VolumePoll - check + overdue)

\* A poll that is not for a look follows one; a step that waits has been looked at.
Looked ==
    Dosing =>
        /\ check <= VolumePoll
        /\ poll = "polled" /\ check > 0 => TimeUp
        /\ poll = "polled" => shot = poured \/ SinceLook
        /\ poll = "waiting" => SinceLook

\* A timer that has expired stays so until the poll.
StillExpired == op # "None" /\ poll = "waiting" /\ overdue > 0 => Expired

OpsInv == OpsTyped /\ GuardsReleased /\ WithinLimit /\ WithinShares /\ Looked /\ StillExpired

-----------------------------------------------------------------------------
(* Arithmetic *)

LEMMA OpsConstants ==
    /\ StepSafety \in Nat /\ MaxPumpRun \in Nat /\ MaxHotWater \in Nat /\ SteamLimit \in Nat
    /\ VolumePoll \in Nat /\ VolumePoll >= 1 /\ TempPoll \in Nat
    /\ MaxFlow \in Nat /\ Delay \in Nat /\ Share \in Nat
  BY OperationsAssumption DEF Share

LEMMA Scaled ==
    ASSUME NEW c \in Nat, NEW n \in Int, NEW m \in Int, n <= m
    PROVE  /\ c * n <= c * m /\ n * c <= m * c
           /\ c * n \in Int /\ n * c \in Int
           /\ c * (n + 1) = c * n + c /\ (n - 1) * c = n * c - c
<1>1. (m - n) \in Nat  OBVIOUS
<1>2. c * (m - n) \in Nat  BY <1>1
<1>3. c * m = c * n + c * (m - n)  OBVIOUS
<1>4. c * n = n * c /\ c * m = m * c  OBVIOUS
<1> QED BY <1>2, <1>3, <1>4

\* No step may run for longer than the ceiling.
LEMMA LimitBounded ==
    ASSUME OpsTyped, op # "None"
    PROVE  /\ Limit \in Nat
           /\ op = "Profile" => Limit <= StepSafety
           /\ op = "Profile" /\ step > 0 =>
                  /\ steps[step] \in ProfileStep
                  /\ steps[step].time > 0 => Limit <= steps[step].time
<1>1. CASE op = "Profile" /\ step > 0
  <2>1. steps[step] \in ProfileStep
    BY <1>1 DEF OpsTyped
  <2>2. steps[step].time \in Nat
    BY <2>1 DEF ProfileStep
  <2>3. Limit = StepLimit(steps[step])
    BY <1>1 DEF Limit
  <2> QED BY <1>1, <2>1, <2>2, <2>3, OpsConstants DEF StepLimit, AtMost
<1>2. CASE op = "Profile" /\ ~(step > 0)
  BY <1>2, OpsConstants DEF Limit, OpsTyped
<1>3. CASE op # "Profile"
  BY <1>3, OpsConstants DEF Limit, TimeLimit
<1> QED BY <1>1, <1>2, <1>3

-----------------------------------------------------------------------------
(* The steps *)

LEMMA OpsParts ==
    ASSUME OpsInv
    PROVE  /\ OpsTyped /\ GuardsReleased /\ WithinLimit /\ WithinShares /\ Looked /\ StillExpired
           /\ spent \in Nat /\ check \in Nat /\ overdue \in Nat /\ overdue <= Delay
           /\ shot \in Nat /\ ran \in Nat /\ poured \in Nat /\ step \in Nat
  BY OpsConstants DEF OpsInv, OpsTyped

LEMMA ExecuteKeeps ==
    ASSUME OpsInv, ExecuteAny
    PROVE  OpsInv'
<1>0. << >> \in Seq(ProfileStep) /\ StepProfiles \subseteq Seq(ProfileStep)
  BY OperationsAssumption
<1>1. PICK k \in Kind, p \in Seq(ProfileStep) : Execute(k, p)
  <2>1. CASE \E k \in {"Steam"} \cup PumpOnly : Execute(k, << >>)
    BY <1>0, <2>1 DEF Kind
  <2>2. CASE \E p \in StepProfiles : Execute("Profile", p)
    BY <1>0, <2>2 DEF Kind
  <2> QED BY <2>1, <2>2 DEF ExecuteAny
<1>2. /\ op' = k /\ op' \in Kind /\ steps' = p /\ step' = 0 /\ poll' = "polled"
      /\ spent' = 0 /\ check' = 0 /\ overdue' = 0 /\ shot' = 0 /\ ran' = 0 /\ poured' = 0
  BY <1>1 DEF Execute
<1>3. OpsTyped'
  BY <1>2, OpsConstants DEF OpsTyped
<1>4. GuardsReleased'
  BY <1>2 DEF GuardsReleased, Kind, PumpOnly
<1>5. WithinLimit'
  <2>1. op' # "None"
    BY <1>2 DEF Kind, PumpOnly
  <2>2. Limit' \in Nat
    BY <1>2, OpsConstants DEF Limit, TimeLimit
  <2>3. PICK limit \in Nat : limit = Limit'
    BY <2>2
  <2>4. 0 <= limit + 0
    OBVIOUS
  <2>5. (spent <= Limit + overdue)'
    BY <1>2, <2>3, <2>4
  <2> QED BY <2>5 DEF WithinLimit
<1>6. WithinShares'
  BY <1>2 DEF WithinShares
<1>7. Looked' /\ StillExpired'
  BY <1>2 DEF Looked, Dosing, StillExpired
<1> QED BY <1>3, <1>4, <1>5, <1>6, <1>7 DEF OpsInv

LEMMA ReleaseKeeps ==
    ASSUME OpsInv, ReleaseGuards
    PROVE  OpsInv'
<1>1. OpsTyped'
  BY OpsParts, OpsConstants DEF ReleaseGuards, OpsTyped
<1>2. GuardsReleased' /\ WithinLimit' /\ WithinShares' /\ Looked' /\ StillExpired'
  BY DEF ReleaseGuards, GuardsReleased, WithinLimit, WithinShares, Looked, Dosing, StillExpired
<1> QED BY <1>1, <1>2 DEF OpsInv

LEMMA WakeKeeps ==
    ASSUME OpsInv, Wake
    PROVE  OpsInv'
<1>0. OpsTyped /\ GuardsReleased /\ WithinLimit /\ WithinShares /\ Looked
  BY OpsParts
<1>1. /\ op' = op /\ steps' = steps /\ step' = step /\ poll = "waiting" /\ poll' = "polled"
      /\ spent' = spent /\ check' = check /\ overdue' = overdue /\ shot' = shot /\ pump' = pump
      /\ brew' = brew /\ valve' = valve /\ ran' = ran /\ poured' = poured
      /\ TimeUp \/ (Looks /\ check = 0)
  BY DEF Wake, Expired
<1>2. Limit' = Limit
  BY <1>1 DEF Limit
<1>3. OpsTyped' /\ GuardsReleased' /\ WithinLimit' /\ WithinShares'
  BY <1>0, <1>1, <1>2 DEF OpsTyped, GuardsReleased, WithinLimit, WithinShares
<1>4. Looked' /\ StillExpired'
  BY <1>0, <1>1, <1>2 DEF Looked, Dosing, SinceLook, TimeUp, StillExpired
<1> QED BY <1>3, <1>4 DEF OpsInv

LEMMA WaitKeeps ==
    ASSUME OpsInv, Wait
    PROVE  OpsInv'
<1>0. /\ OpsTyped /\ GuardsReleased /\ WithinLimit /\ WithinShares /\ Looked
      /\ spent \in Nat /\ check \in Nat /\ step \in Nat /\ shot \in Nat
  BY OpsParts
<1>1. /\ op # "None" /\ poll = "polled" /\ ~TimeUp /\ ~VolumeReached
      /\ op' = op /\ steps' = steps /\ step' = step /\ poll' = "waiting"
      /\ spent' = spent /\ overdue' = 0 /\ shot' = shot /\ pump' = pump
      /\ brew' = brew /\ valve' = valve /\ ran' = ran /\ poured' = poured
  BY DEF Wait
<1>2. check' \in Nat
  BY <1>0, OpsConstants DEF Wait, Interval
<1>3. OpsTyped' /\ GuardsReleased'
  BY <1>0, <1>1, <1>2, OpsConstants DEF OpsTyped, GuardsReleased
<1>4. Limit \in Nat /\ Limit' = Limit /\ spent < Limit
  BY <1>0, <1>1, LimitBounded DEF Limit, TimeUp
<1>5. WithinLimit'
  BY <1>1, <1>4, <1>0 DEF WithinLimit
<1>6. WithinShares'
  <2>1. ~(op = "Profile" /\ step = 0)
    BY <1>0, <1>4 DEF Limit
  <2> QED BY <1>0, <1>1, <2>1 DEF WithinShares
<1>7. Looked'
  <2>1. SUFFICES ASSUME Dosing PROVE check' <= VolumePoll /\ SinceLook'
    BY <1>1 DEF Looked, Dosing
  <2>2. check = 0 /\ Looks
    BY <1>0, <1>1, <2>1 DEF Looked, Dosing, Looks
  <2>3. check' = VolumePoll
    BY <2>1, <2>2 DEF Wait, Interval, Dosing
  <2>4. steps[step].volume \in Nat
    BY <1>0, <2>1, LimitBounded DEF Dosing, ProfileStep
  <2>5. shot < steps[step].volume
    BY <1>0, <1>1, <2>1, <2>2, <2>4 DEF VolumeReached, Dosing
  <2>6. MaxFlow * (VolumePoll - VolumePoll + 0) = 0
    BY OpsConstants
  <2>7. shot < steps[step].volume + MaxFlow * (VolumePoll - VolumePoll + 0)
    BY <2>4, <2>5, <2>6
  <2>8. SinceLook'
    BY <1>1, <2>3, <2>7 DEF SinceLook
  <2> QED BY <2>3, <2>8, OpsConstants
<1>8. StillExpired'
  BY <1>1 DEF StillExpired
<1> QED BY <1>3, <1>5, <1>6, <1>7, <1>8 DEF OpsInv

\* What flows in a unit of time was allowed for.
LEMMA WaterAllowed ==
    ASSUME NEW s \in Nat, NEW v \in Nat, NEW c \in Nat, NEW o \in Nat, NEW water \in 0 .. MaxFlow,
           NEW c1 \in Nat, NEW o1 \in Nat, c <= VolumePoll, c1 <= c, c - c1 + o1 - o >= 1,
           s < v + MaxFlow * (VolumePoll - c + o)
    PROVE  s + water < v + MaxFlow * (VolumePoll - c1 + o1)
<1>1. PICK n \in Int : n = VolumePoll - c + o
  BY OpsConstants
<1>2. PICK m \in Int : m = VolumePoll - c1 + o1
  BY OpsConstants
<1>3. n + 1 <= m
  BY <1>1, <1>2, OpsConstants
<1>4. MaxFlow * (n + 1) <= MaxFlow * m /\ MaxFlow * (n + 1) = MaxFlow * n + MaxFlow
      /\ MaxFlow * n \in Int /\ MaxFlow * m \in Int
  BY <1>3, Scaled, OpsConstants
<1>5. PICK f \in Int, g \in Int : f = MaxFlow * n /\ g = MaxFlow * m
  BY <1>4
<1>6. f + MaxFlow <= g /\ s < v + f
  BY <1>1, <1>4, <1>5
<1>7. s + water < v + g
  BY <1>6, OpsConstants
<1> QED BY <1>2, <1>5, <1>7

LEMMA PassKeeps ==
    ASSUME OpsInv, Pass
    PROVE  OpsInv'
<1>0. /\ OpsTyped /\ GuardsReleased /\ WithinLimit /\ WithinShares /\ Looked /\ StillExpired
      /\ spent \in Nat /\ check \in Nat /\ overdue \in Nat /\ overdue <= Delay
      /\ shot \in Nat /\ ran \in Nat /\ poured \in Nat /\ step \in Nat
  BY OpsParts
<1>1. /\ op # "None" /\ poll = "waiting"
      /\ Expired => overdue < Delay
      /\ op' = op /\ steps' = steps /\ step' = step /\ poll' = poll /\ poured' = poured
      /\ spent' = spent + 1 /\ ran' = ran + 1
      /\ pump' = pump /\ brew' = brew /\ valve' = valve
  BY DEF Pass
<1>2. PICK water \in 0 .. MaxFlow : shot' = shot + water
  BY DEF Pass
<1>3. PICK c \in Nat, o \in Nat :
          /\ c = check' /\ c = IF check > 0 THEN check - 1 ELSE 0
          /\ o = overdue' /\ o = IF Expired THEN overdue + 1 ELSE 0
  BY <1>0 DEF Pass
<1>4. PICK s \in Nat, w \in Nat, r \in Nat :
          /\ s = spent' /\ s = spent + 1 /\ w = shot' /\ w = shot + water /\ r = ran' /\ r = ran + 1
  BY <1>0, <1>1, <1>2, OpsConstants
<1>5. o \in 0 .. Delay
  BY <1>0, <1>1, <1>3, OpsConstants
<1>6. OpsTyped'
  BY <1>0, <1>1, <1>3, <1>4, <1>5 DEF OpsTyped
<1>7. GuardsReleased'
  BY <1>1 DEF GuardsReleased
<1>8. Limit \in Nat /\ Limit' = Limit
  BY <1>0, <1>1, LimitBounded DEF Limit
<1>9. WithinLimit'
  <2>1. spent <= Limit + overdue
    BY <1>0, <1>1 DEF WithinLimit
  <2>2. s <= Limit + o
    <3>1. CASE Expired
      BY <3>1, <2>1, <1>3, <1>4, <1>8, <1>0
    <3>2. CASE ~Expired
      BY <3>2, <1>3, <1>4, <1>8, <1>0 DEF Expired, TimeUp
    <3> QED BY <3>1, <3>2
  <2> QED BY <2>2, <1>3, <1>4, <1>8 DEF WithinLimit
<1>10. WithinShares'
  <2>1. ~(op = "Profile" /\ step = 0)
    BY <1>0, <1>1 DEF WithinShares
  <2>2. op = "Profile" /\ step > 0 => r <= (step - 1) * Share + s
    <3>1. (step - 1) * Share \in Int
      BY <1>0, OpsConstants, Scaled
    <3>2. op = "Profile" /\ step > 0 => ran <= (step - 1) * Share + spent
      BY <1>0 DEF WithinShares
    <3>3. PICK n \in Int : n = (step - 1) * Share
      BY <3>1
    <3> QED BY <3>2, <3>3, <1>0, <1>4
  <2>3. op \notin {"Profile", "None"} => r = s
    BY <1>0, <1>4 DEF WithinShares
  <2> QED BY <1>1, <1>4, <2>1, <2>2, <2>3 DEF WithinShares
<1>11. Looked'
  <2>1. Dosing' = Dosing
    BY <1>1 DEF Dosing
  <2>2. SUFFICES ASSUME Dosing PROVE check' <= VolumePoll /\ SinceLook'
    BY <1>1, <2>1 DEF Looked
  <2>3. check <= VolumePoll /\ SinceLook /\ steps[step].volume \in Nat
    BY <1>0, <1>1, <2>2, LimitBounded DEF Looked, Dosing, ProfileStep
  <2>4. Looks
    BY <2>2 DEF Dosing, Looks
  <2>5. c <= check /\ check - c + o - overdue >= 1
    <3>1. CASE Expired
      BY <3>1, <1>0, <1>3
    <3>2. CASE ~Expired
      <4>1. overdue = 0
        BY <3>2, <1>0, <1>1 DEF StillExpired
      <4>2. check # 0
        BY <3>2, <2>4 DEF Expired
      <4> QED BY <3>2, <4>1, <4>2, <1>0, <1>3
    <3> QED BY <3>1, <3>2
  <2>6. w < steps[step].volume + MaxFlow * (VolumePoll - c + o)
    <3>1. PICK v \in Nat : v = steps[step].volume
      BY <2>3
    <3>2. shot < v + MaxFlow * (VolumePoll - check + overdue)
      BY <2>3, <3>1 DEF SinceLook
    <3>3. shot + water < v + MaxFlow * (VolumePoll - c + o)
      BY <2>3, <2>5, <3>2, <1>0, WaterAllowed
    <3> QED BY <3>1, <3>3, <1>4
  <2>7. SinceLook'
    BY <2>6, <1>1, <1>3, <1>4 DEF SinceLook
  <2>8. c <= VolumePoll
    BY <2>3, <2>5, <1>0, <1>3, OpsConstants
  <2> QED BY <2>7, <2>8, <1>3
<1>12. StillExpired'
  <2>1. SUFFICES ASSUME o > 0 PROVE Expired'
    BY <1>1, <1>3 DEF StillExpired
  <2>2. Expired
    BY <2>1, <1>3
  <2>3. Looks' = Looks
    BY <1>1 DEF Looks
  <2>4. CASE TimeUp
    <3>1. s >= Limit
      BY <2>4, <1>0, <1>4, <1>8 DEF TimeUp
    <3> QED BY <3>1, <1>4, <1>8 DEF Expired, TimeUp
  <2>5. CASE Looks /\ check = 0
    <3>1. check' = 0
      BY <2>5, <1>3
    <3> QED BY <3>1, <2>3, <2>5 DEF Expired
  <2> QED BY <2>2, <2>4, <2>5 DEF Expired
<1> QED BY <1>6, <1>7, <1>9, <1>10, <1>11, <1>12 DEF OpsInv

LEMMA NextStepKeeps ==
    ASSUME OpsInv, NextStep
    PROVE  OpsInv'
<1>0. /\ OpsTyped /\ GuardsReleased /\ WithinLimit /\ WithinShares /\ Looked
      /\ spent \in Nat /\ overdue \in Nat /\ overdue <= Delay
      /\ shot \in Nat /\ ran \in Nat /\ step \in Nat
  BY OpsParts
<1>1. PICK j \in StepsLeft : step' = j
  BY DEF NextStep
<1>2. /\ op = "Profile" /\ op' = op /\ steps' = steps /\ poll = "polled" /\ poll' = poll
      /\ spent' = 0 /\ check' = 0 /\ overdue' = overdue /\ shot' = shot /\ poured' = shot
      /\ ran' = ran
  BY DEF NextStep
<1>3. j \in Nat /\ j >= step + 1 /\ j \in 0 .. Len(steps)
  BY <1>0 DEF StepsLeft, OpsTyped
<1>4. OpsTyped'
  BY <1>0, <1>1, <1>2, <1>3 DEF OpsTyped
<1>5. GuardsReleased' /\ StillExpired'
  BY <1>2 DEF GuardsReleased, StillExpired
<1>6. WithinLimit'
  <2>1. Limit' \in Nat
    <3>1. steps[j] \in ProfileStep
      BY <1>0, <1>3 DEF OpsTyped
    <3>2. Limit' = StepLimit(steps[j])
      <4>1. step' # 0
        BY <1>0, <1>1, <1>3
      <4>2. steps'[step'] = steps[j]
        BY <1>1, <1>2
      <4>3. Limit' = StepLimit(steps'[step'])
        BY <1>2, <4>1 DEF Limit, StepLimit
      <4> QED BY <4>2, <4>3
    <3> QED BY <3>1, <3>2, OpsConstants DEF StepLimit, AtMost, ProfileStep
  <2>2. PICK limit \in Nat : limit = Limit'
    BY <2>1
  <2>3. 0 <= limit + overdue
    BY <1>0
  <2> QED BY <1>2, <2>2, <2>3 DEF WithinLimit
<1>7. WithinShares'
  <2>1. ran <= (j - 1) * Share
    <3>1. PICK n \in Int : n = (j - 1) * Share
      BY <1>3, OpsConstants, Scaled
    <3>2. step * Share <= n
      BY <3>1, <1>0, <1>3, OpsConstants, Scaled
    <3>3. CASE step = 0
      <4>1. ran = 0
        BY <3>3, <1>0, <1>2 DEF WithinShares
      <4>2. step * Share = 0
        BY <3>3, OpsConstants
      <4> QED BY <3>1, <3>2, <4>1, <4>2
    <3>4. CASE step # 0
      <4>1. PICK k \in Int : k = step * Share
        BY <1>0, OpsConstants, Scaled
      <4>2. (step - 1) * Share = k - Share
        BY <4>1, <1>0, OpsConstants, Scaled
      <4>3. ran <= (k - Share) + spent
        BY <3>4, <4>2, <1>0, <1>2 DEF WithinShares
      <4>4. spent <= Share
        <5>1. Limit \in Nat /\ Limit <= StepSafety
          BY <1>0, <1>2, LimitBounded
        <5>2. spent <= Limit + overdue
          BY <1>0, <1>2 DEF WithinLimit
        <5> QED BY <5>1, <5>2, <1>0, OpsConstants DEF Share
      <4> QED BY <3>1, <3>2, <4>1, <4>3, <4>4, <1>0, OpsConstants
    <3> QED BY <3>3, <3>4
  <2>2. PICK n \in Int : n = (j - 1) * Share
    BY <1>3, OpsConstants, Scaled
  <2>3. ran <= n + 0
    BY <2>1, <2>2, <1>0
  <2>4. (ran <= (step - 1) * Share + spent)'
    BY <1>1, <1>2, <2>2, <2>3 DEF Share
  <2>5. ~(step = 0)'
    BY <1>1, <1>3, <1>0
  <2> QED BY <1>2, <2>4, <2>5 DEF WithinShares
<1>8. Looked'
  BY <1>2, OpsConstants DEF Looked
<1> QED BY <1>4, <1>5, <1>6, <1>7, <1>8 DEF OpsInv

LEMMA OpsStarts ==
    ASSUME OpsInit
    PROVE  OpsInv
<1>1. << >> \in Seq(ProfileStep) /\ Len(<< >>) = 0
  OBVIOUS
<1>2. OpsTyped
  BY <1>1, OpsConstants DEF OpsInit, OpsTyped
<1> QED BY <1>2
        DEF OpsInit, OpsInv, GuardsReleased, WithinLimit, WithinShares, Looked, Dosing, StillExpired

-----------------------------------------------------------------------------
(* Theorems *)

LEMMA OpsInductive == OpsSpec => []OpsInv
<1>1. OpsInv /\ [OpsNext]_opsVars => OpsInv'
  <2> SUFFICES ASSUME OpsInv, [OpsNext]_opsVars PROVE OpsInv'
    OBVIOUS
  <2>1. CASE Finish \/ Cancel
    BY <2>1, ReleaseKeeps DEF Finish, Cancel
  <2>2. CASE UNCHANGED opsVars
    BY <2>2
       DEF opsVars, OpsInv, OpsTyped, GuardsReleased, WithinLimit, WithinShares, Looked, Dosing,
           SinceLook, StillExpired, Expired, TimeUp, Limit, Looks
  <2> QED BY <2>1, <2>2, ExecuteKeeps, NextStepKeeps, WaitKeeps, PassKeeps, WakeKeeps DEF OpsNext
<1> QED BY <1>1, OpsStarts, PTL DEF OpsSpec

\* No operation outlives its ceilings, for any profile: a volume that is never
\* reached, a time beyond the ceiling and a pump nobody stops included.
THEOREM EndsInTime == OpsSpec => []EndsOnTime
<1>1. ASSUME OpsInv  PROVE EndsOnTime
  <2>0. /\ OpsTyped /\ GuardsReleased /\ WithinLimit /\ WithinShares
        /\ spent \in Nat /\ overdue \in Nat /\ overdue <= Delay /\ ran \in Nat /\ step \in Nat
    BY <1>1, OpsParts
  <2>1. CASE op = "Profile"
    <3>1. Limit \in Nat /\ Limit <= StepSafety /\ spent <= Limit + overdue
      BY <2>0, <2>1, LimitBounded DEF WithinLimit
    <3>2. spent <= Share
      BY <3>1, <2>0, OpsConstants DEF Share
    <3>3. ran <= step * Share
      <4>1. CASE step = 0
        BY <4>1, <2>0, <2>1, OpsConstants DEF WithinShares
      <4>2. CASE step # 0
        <5>1. PICK n \in Int : n = step * Share
          BY <2>0, OpsConstants, Scaled
        <5>2. (step - 1) * Share = n - Share
          BY <5>1, <2>0, OpsConstants, Scaled
        <5>3. ran <= (n - Share) + spent
          BY <4>2, <5>2, <2>0, <2>1 DEF WithinShares
        <5> QED BY <5>1, <5>3, <3>2, <2>0, OpsConstants
      <4> QED BY <4>1, <4>2
    <3>4. ASSUME step > 0, steps[step].time > 0  PROVE spent <= steps[step].time + Delay
      <4>1. Limit <= steps[step].time /\ steps[step].time \in Nat
        BY <3>4, <2>0, <2>1, LimitBounded DEF ProfileStep
      <4> QED BY <4>1, <3>1, <2>0, OpsConstants
    <3> QED BY <2>1, <3>3, <3>4 DEF EndsOnTime, Share
  <2>2. CASE op \in {"Steam"} \cup PumpOnly
    <3>1. ran <= TimeLimit(op) + overdue
      BY <2>2, <2>0 DEF WithinLimit, WithinShares, Limit, PumpOnly
    <3> QED BY <2>2, <3>1, <2>0, OpsConstants DEF EndsOnTime, TimeLimit, PumpOnly
  <2>3. CASE op = "None"
    BY <2>3, <2>0 DEF EndsOnTime, GuardsReleased
  <2> QED BY <2>0, <2>1, <2>2, <2>3 DEF OpsTyped, Kind
<1> QED BY <1>1, OpsInductive, PTL

\* No step pours more than its volume and what flows between two looks, for any
\* profile, flow, interval and delay.
THEOREM DosesRight == OpsSpec => []DoseRespected
<1>1. ASSUME OpsInv  PROVE DoseRespected
  <2>0. /\ OpsTyped /\ Looked
        /\ check \in Nat /\ overdue \in Nat /\ overdue <= Delay /\ shot \in Nat
    BY <1>1, OpsParts
  <2>1. SUFFICES ASSUME Dosing, SinceLook
                 PROVE shot < steps[step].volume + MaxFlow * (VolumePoll + Delay)
    BY <2>0 DEF DoseRespected, Looked, Dosing, OpsTyped
  <2>2. PICK v \in Nat : v = steps[step].volume
    BY <2>0, <2>1, LimitBounded DEF Dosing, ProfileStep
  <2>3. VolumePoll - check + overdue <= VolumePoll + Delay
    BY <2>0, OpsConstants
  <2>4. PICK n \in Int, m \in Int : n = VolumePoll - check + overdue /\ m = VolumePoll + Delay
    BY <2>0, OpsConstants
  <2>5. PICK f \in Int, g \in Int : f = MaxFlow * n /\ g = MaxFlow * m /\ f <= g
    BY <2>3, <2>4, OpsConstants, Scaled
  <2>6. shot < v + f
    BY <2>1, <2>2, <2>4, <2>5 DEF SinceLook
  <2>7. shot < v + g
    BY <2>5, <2>6, <2>0
  <2> QED BY <2>2, <2>4, <2>5, <2>7
<1> QED BY <1>1, OpsInductive, PTL
=============================================================================
