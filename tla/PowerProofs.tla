---------------------------- MODULE PowerProofs ----------------------------
(***************************************************************************)
(* Proofs about PowerStage, for every duty scale and every depth of the    *)
(* FIFOs.                                                                  *)
(***************************************************************************)
EXTENDS PowerStage, TLAPS

\* What the histories count is counted only while the demand is zero.
HistoriesIdle == (duty # 0 => chunks = 0) /\ (pumpOn => shots = 0)

\* What was asked for and neither delivered nor left waiting: negative if words
\* waited when mains came back, raised by every word lost.
Account(o, a, words) == o - a - Full * words
Unaccounted == Account(owed, acc, heaterWords)

\* A tick is owed to the periods that wait.
TickOwed == IF crossings > 0 THEN 1 ELSE 0

\* In step with the mains the next word finds room, unless a FIFO that was full
\* when mains came back has not lost its one word yet.
RoomAt(pinHigh, words, ticks, u) ==
    IF pinHigh THEN words + ticks <= Depth \/ u <= -Full
               ELSE words + ticks <= Depth /\ (words + ticks <= Depth - 1 \/ u <= -Full)

InStep == locked => RoomAt(high, heaterWords, TickOwed, Unaccounted)

InBalance(u) == -Full * (Depth + 1) < u /\ u <= 0

\* The account is opened by the first period measured after a blackout.
Balance == InBalance(Unaccounted) /\ (~locked => owed = 0) /\ (locked => counting)

PowerInv == PowerTypeOK /\ HistoriesIdle /\ StaleWordsRunOut /\ Balance /\ InStep

-----------------------------------------------------------------------------
(* Arithmetic *)

LEMMA Constants ==
    /\ Full \in Nat /\ Full >= 1
    /\ Depth \in Nat /\ Depth >= 2
    /\ Every \in Nat /\ TickWrap \in Nat /\ TickWrap >= 1
  BY PowerAssumption

LEMMA OneWord ==
    ASSUME NEW n \in Int
    PROVE  /\ Full * n \in Int
           /\ Full * (n + 1) = Full * n + Full
           /\ Full * (n - 1) = Full * n - Full
  BY Constants

LEMMA WordsBounded ==
    ASSUME NEW n \in Int, NEW m \in Int, n <= m
    PROVE  Full * n <= Full * m
<1>1. (m - n) \in Nat  OBVIOUS
<1>2. Full * (m - n) \in Nat  BY <1>1, Constants
<1>3. Full * m = Full * n + Full * (m - n)  BY Constants
<1> QED BY <1>2, <1>3, Constants

\* A whole chunk fires and leaves the accumulator.
LEMMA ModulatedSplits ==
    ASSUME NEW sum \in Nat, sum <= 2 * Full - 1
    PROVE  \/ sum >= Full /\ Modulated(sum) = [fires |-> TRUE, rest |-> sum - Full]
           \/ sum < Full /\ Modulated(sum) = [fires |-> FALSE, rest |-> sum]
<1>1. CASE sum >= Full
  BY <1>1 DEF Modulated
<1>2. CASE sum < Full
  <2>1. (sum >= Full) = FALSE  BY <1>2, Constants
  <2>2. Modulated(sum) = [fires |-> FALSE, rest |-> sum]
    BY <2>1 DEF Modulated
  <2> QED BY <1>2, <2>2
<1> QED BY <1>1, <1>2, Constants

LEMMA DutyAccumulates ==
    ASSUME NEW a \in 0 .. Full - 1, NEW d \in 0 .. Full
    PROVE  /\ Modulated(a + d).rest \in 0 .. Full - 1
           /\ \/ Modulated(a + d).fires = TRUE /\ d > 0 /\ Modulated(a + d).rest = a + d - Full
              \/ Modulated(a + d).fires = FALSE /\ Modulated(a + d).rest = a + d
<1>1. PICK sum \in Nat : sum = a + d
  BY Constants
<1>2. sum <= 2 * Full - 1 /\ (sum >= Full => d > 0)
  BY <1>1, Constants
<1>3. CASE sum >= Full /\ Modulated(sum) = [fires |-> TRUE, rest |-> sum - Full]
  <2>1. Modulated(sum).fires = TRUE /\ Modulated(sum).rest = sum - Full
    BY <1>3
  <2>2. sum - Full \in 0 .. Full - 1 /\ d > 0
    BY <1>2, <1>3, Constants
  <2>3. Modulated(a + d).fires = TRUE /\ Modulated(a + d).rest = sum - Full
    BY <2>1, <1>1
  <2>4. sum - Full = a + d - Full
    BY <1>1, Constants
  <2> QED BY <2>2, <2>3, <2>4
<1>4. CASE sum < Full /\ Modulated(sum) = [fires |-> FALSE, rest |-> sum]
  <2>1. Modulated(sum).fires = FALSE /\ Modulated(sum).rest = sum
    BY <1>4
  <2>2. sum \in 0 .. Full - 1
    BY <1>4, Constants
  <2> QED BY <2>1, <2>2, <1>1
<1> QED BY <1>2, <1>3, <1>4, ModulatedSplits

\* What a turn of the loop does to the heater's side: a word is pushed for a
\* whole chunk of duty, which leaves the accumulator; none if there is no duty.
LEMMA HeaterTurn ==
    ASSUME PowerTypeOK, NEW on \in BOOLEAN, NEW d \in 0 .. Full, Act(on, d)
    PROVE  /\ duty' \in 0 .. Full /\ acc' \in 0 .. Full - 1
           /\ \/ acc' = acc + duty' /\ heaterWords' = heaterWords
              \/ /\ duty' > 0
                 /\ acc' = acc + duty' - Full
                 /\ heaterWords' = AtMost(heaterWords + 1, Depth)
<1>1. duty' \in 0 .. Full /\ acc \in 0 .. Full - 1
  BY DEF Act, PowerTypeOK
<1>2. /\ acc' = Modulated(acc + duty').rest
      /\ heaterWords' = IF Modulated(acc + duty').fires THEN AtMost(heaterWords + 1, Depth)
                                                        ELSE heaterWords
  BY DEF Act
<1>3. duty' > 0 \/ ~(duty' > 0)
  OBVIOUS
<1> QED BY <1>1, <1>2, DutyAccumulates

\* And to the triac's side: at most one more word is pending, and none is lost
\* sight of.
LEMMA TriacTurn ==
    ASSUME PowerTypeOK, NEW on \in BOOLEAN, NEW d \in 0 .. Full, Act(on, d)
    PROVE  /\ triac' \in TriacState /\ triacWords' \in 0 .. Depth
           /\ ~on => TriacPending' = TriacPending
<1>1. CASE on
  BY <1>1, Constants DEF Act, PushTriac, PowerTypeOK, TriacState, AtMost
<1>2. CASE ~on
  BY <1>2 DEF Act, PowerTypeOK, TriacPending
<1> QED BY <1>1, <1>2

\* There are never more words than fit.
LEMMA PendingBounded ==
    ASSUME PowerTypeOK
    PROVE  TriacPending \in Nat /\ TriacPending <= Depth + 1
  BY Constants DEF PowerTypeOK, TriacPending

-----------------------------------------------------------------------------
(* The turn of the loop *)

LEMMA TurnTyped ==
    ASSUME PowerTypeOK, NEW on \in BOOLEAN, NEW d \in 0 .. Full, Act(on, d), crossings' \in 0 .. Depth,
           waited' \in BOOLEAN
    PROVE  PowerTypeOK'
<1>1. /\ duty' \in 0 .. Full /\ acc' \in 0 .. Full - 1
      /\ heaterWords' \in 0 .. Depth
  BY HeaterTurn, Constants DEF PowerTypeOK, AtMost
<1>2. triac' \in TriacState /\ triacWords' \in 0 .. Depth
  BY TriacTurn
<1>3. tick' \in 0 .. TickWrap - 1
  BY Constants DEF Act, PowerTypeOK
<1>4. owed' \in Int
  BY <1>1 DEF Act, PowerTypeOK
<1>5. chunks' \in 0 .. Depth + 1 /\ shots' \in 0 .. Depth + 2 /\ pumpOn' \in BOOLEAN
  BY Constants DEF Act, PowerTypeOK
<1> QED BY <1>1, <1>2, <1>3, <1>4, <1>5 DEF Act, PowerTypeOK, pinSide

LEMMA TurnStale ==
    ASSUME PowerInv, NEW on \in BOOLEAN, NEW d \in 0 .. Full, Act(on, d)
    PROVE  HistoriesIdle' /\ StaleWordsRunOut'
<1>0. PowerTypeOK /\ HistoriesIdle /\ StaleWordsRunOut
  BY DEF PowerInv
<1>1. duty' = 0 => heaterWords' = heaterWords /\ chunks' = chunks
  BY <1>0, HeaterTurn DEF Act
<1>2. duty' # 0 => chunks' = 0
  BY DEF Act
<1>3. duty' = 0 => heaterWords' + chunks' <= Depth
  BY <1>0, <1>1, Constants DEF HistoriesIdle, StaleWordsRunOut, PowerTypeOK
<1>4. on => pumpOn' /\ shots' = 0
  BY DEF Act
<1>5. ~on => pumpOn' = FALSE /\ shots' = shots /\ TriacPending' = TriacPending
  BY <1>0, TriacTurn DEF Act
<1>6. ~pumpOn' => TriacPending' + shots' <= Depth + 1
  BY <1>0, <1>4, <1>5, PendingBounded DEF HistoriesIdle, StaleWordsRunOut, PowerTypeOK
<1> QED BY <1>2, <1>3, <1>4, <1>5, <1>6, <1>0 DEF HistoriesIdle, StaleWordsRunOut

-----------------------------------------------------------------------------
(* The account *)

LEMMA FullTimesDepth ==
    /\ Full * Depth \in Nat
    /\ Full * (Depth + 1) = Full * Depth + Full
    /\ -Full * (Depth + 1) = -(Full * (Depth + 1))
    /\ Full <= Full * Depth
<1>1. Full * 1 <= Full * Depth  BY WordsBounded, Constants
<1>2. Full * 1 = Full  BY Constants
<1>3. Full * (Depth + 1) = Full * Depth + Full  BY OneWord, Constants
<1>4. Full * Depth \in Nat  BY Constants
<1> QED BY <1>1, <1>2, <1>3, <1>4, Constants

\* What an empty account owes to the words that wait is within the bounds, and
\* a full FIFO of them is worth a chunk at least.
LEMMA FreshAccount ==
    ASSUME NEW a \in 0 .. Full - 1, NEW words \in 0 .. Depth
    PROVE  /\ InBalance(Account(0, a, words))
           /\ words = Depth => Account(0, a, words) <= -Full
<1>1. Full * words <= Full * Depth /\ Full * 0 <= Full * words
  BY WordsBounded, Constants
<1>2. Full * words \in Int /\ Full * 0 = 0
  BY OneWord, Constants
<1>3. PICK w \in Int : w = Full * words
  BY <1>2
<1>4. PICK full \in Nat : full = Full * Depth
  BY FullTimesDepth
<1>5. 0 <= w /\ w <= full /\ Full <= full /\ (words = Depth => w = full)
  BY <1>1, <1>2, <1>3, <1>4, FullTimesDepth
<1>6. -Full * (Depth + 1) = -(full + Full)
  BY <1>4, FullTimesDepth
<1>7. Account(0, a, words) = 0 - a - w
  BY <1>3 DEF Account
<1> QED BY <1>5, <1>6, <1>7, Constants DEF InBalance

\* A turn in step with the mains changes the account only by the word it loses.
LEMMA AccountOfTurn ==
    ASSUME NEW o \in Int, NEW a \in 0 .. Full - 1, NEW words \in 0 .. Depth, NEW d \in 0 .. Full,
           NEW rest \in 0 .. Full - 1, NEW left \in 0 .. Depth,
           \/ rest = a + d /\ left = words
           \/ rest = a + d - Full /\ left = AtMost(words + 1, Depth)
    PROVE  /\ \/ Account(o + d, rest, left) = Account(o, a, words)
              \/ words = Depth /\ Account(o + d, rest, left) = Account(o, a, words) + Full
           /\ left <= words + 1
           /\ Account(o, a, words) \in Int
<1>1. CASE rest = a + d /\ left = words
  BY <1>1, OneWord, Constants DEF Account
<1>2. CASE rest = a + d - Full /\ left = AtMost(words + 1, Depth)
  <2>1. CASE words < Depth
    <3>1. left = words + 1
      BY <2>1, <1>2, Constants DEF AtMost
    <3>2. Full * left = Full * words + Full
      BY <3>1, OneWord
    <3> QED BY <3>1, <3>2, <1>2, OneWord, Constants DEF Account
  <2>2. CASE words = Depth
    <3>1. left = words
      BY <2>2, <1>2, Constants DEF AtMost
    <3> QED BY <3>1, <2>2, <1>2, OneWord, Constants DEF Account
  <2> QED BY <2>1, <2>2, Constants
<1> QED BY <1>1, <1>2

LEMMA AccountOfCycle ==
    ASSUME NEW o \in Int, NEW a \in 0 .. Full - 1, NEW words \in 1 .. Depth
    PROVE  Account(o - Full, a, words - 1) = Account(o, a, words)
  BY OneWord, Constants DEF Account

\* Room for the next word, as the mains and the loop take turns.
LEMMA RoomAfterTurn ==
    ASSUME NEW pinHigh \in BOOLEAN, NEW words \in 0 .. Depth, NEW left \in 0 .. Depth,
           NEW u \in Int, NEW v \in Int,
           RoomAt(pinHigh, words, 1, u), InBalance(u), left <= words + 1,
           v = u \/ (words = Depth /\ v = u + Full)
    PROVE  InBalance(v) /\ RoomAt(pinHigh, left, 0, v)
<1>1. -Full * (Depth + 1) \in Int
  BY FullTimesDepth, Constants
<1>2. PICK least \in Int : least = -Full * (Depth + 1)
  BY <1>1
<1> QED BY <1>2, Constants DEF RoomAt, InBalance

LEMMA RoomAfterFall ==
    ASSUME NEW words \in 0 .. Depth, NEW ticks \in 0 .. 1, NEW u \in Int, RoomAt(TRUE, words, ticks, u),
           NEW left \in 0 .. Depth, left = IF words > 0 THEN words - 1 ELSE 0
    PROVE  RoomAt(FALSE, left, ticks, u)
  BY Constants DEF RoomAt

LEMMA RoomAfterRise ==
    ASSUME NEW words \in 0 .. Depth, NEW ticks \in 0 .. 1, NEW u \in Int, RoomAt(FALSE, words, ticks, u)
    PROVE  RoomAt(TRUE, words, 1, u)
  BY Constants DEF RoomAt

-----------------------------------------------------------------------------
(* The steps *)

LEMMA Parts ==
    ASSUME PowerInv
    PROVE  /\ PowerTypeOK /\ HistoriesIdle /\ StaleWordsRunOut /\ Balance /\ InStep
           /\ owed \in Int /\ acc \in 0 .. Full - 1 /\ heaterWords \in 0 .. Depth
           /\ Unaccounted \in Int /\ TickOwed \in 0 .. 1
<1>1. owed \in Int /\ acc \in 0 .. Full - 1 /\ heaterWords \in 0 .. Depth
  BY DEF PowerInv, PowerTypeOK
<1>2. Unaccounted \in Int
  BY <1>1, OneWord, Constants DEF Unaccounted, Account
<1> QED BY <1>1, <1>2 DEF PowerInv, TickOwed

\* While the pin has not risen the account is empty but for what waits.
LEMMA UnlockedBalance ==
    ASSUME PowerTypeOK', owed' = 0, ~locked'
    PROVE  Balance' /\ InStep'
<1>1. acc' \in 0 .. Full - 1 /\ heaterWords' \in 0 .. Depth
  BY DEF PowerTypeOK
<1>2. InBalance(Account(0, acc', heaterWords'))
  BY <1>1, FreshAccount
<1>3. Unaccounted' = Account(0, acc', heaterWords')
  BY DEF Unaccounted, Account
<1>4. InBalance(Unaccounted)'
  BY <1>2, <1>3 DEF InBalance
<1> QED BY <1>4 DEF Balance, InStep

LEMMA TurnBalance ==
    ASSUME PowerInv, NEW on \in BOOLEAN, NEW d \in 0 .. Full, Act(on, d), PowerTypeOK',
           crossings' = 0, locked => crossings > 0
    PROVE  Balance' /\ InStep'
<1>0. /\ PowerTypeOK /\ Balance /\ InStep
      /\ owed \in Int /\ acc \in 0 .. Full - 1 /\ heaterWords \in 0 .. Depth
      /\ Unaccounted \in Int
  BY Parts
<1>1. CASE ~locked
  BY <1>0, <1>1, UnlockedBalance DEF Act, Balance, pinSide
<1>2. CASE locked
  <2>1. /\ locked' /\ high' = high /\ high \in BOOLEAN /\ owed' = owed + duty'
        /\ counting'
    BY <1>0, <1>2 DEF Act, PowerTypeOK, pinSide, Balance
  <2>2. acc' \in 0 .. Full - 1 /\ heaterWords' \in 0 .. Depth /\ duty' \in 0 .. Full
    BY DEF PowerTypeOK
  <2>3. \/ acc' = acc + duty' /\ heaterWords' = heaterWords
        \/ acc' = acc + duty' - Full /\ heaterWords' = AtMost(heaterWords + 1, Depth)
    BY <1>0, HeaterTurn
  <2>4. /\ \/ Account(owed + duty', acc', heaterWords') = Account(owed, acc, heaterWords)
           \/ /\ heaterWords = Depth
              /\ Account(owed + duty', acc', heaterWords') = Account(owed, acc, heaterWords) + Full
        /\ heaterWords' <= heaterWords + 1
    <3>1. PICK rest \in 0 .. Full - 1, left \in 0 .. Depth, used \in 0 .. Full :
              rest = acc' /\ left = heaterWords' /\ used = duty'
      BY <2>2
    <3>2. \/ rest = acc + used /\ left = heaterWords
          \/ rest = acc + used - Full /\ left = AtMost(heaterWords + 1, Depth)
      BY <2>3, <3>1
    <3>3. /\ \/ Account(owed + used, rest, left) = Account(owed, acc, heaterWords)
             \/ /\ heaterWords = Depth
                /\ Account(owed + used, rest, left) = Account(owed, acc, heaterWords) + Full
          /\ left <= heaterWords + 1
      BY <1>0, <3>2, AccountOfTurn
    <3> QED BY <3>1, <3>3
  <2>5. Unaccounted' = Account(owed + duty', acc', heaterWords')
    BY <2>1 DEF Unaccounted, Account
  <2>6. Unaccounted' = Unaccounted \/ (heaterWords = Depth /\ Unaccounted' = Unaccounted + Full)
    BY <2>4, <2>5 DEF Unaccounted
  <2>7. Unaccounted' \in Int
    BY <2>6, <1>0, Constants
  <2>8. RoomAt(high, heaterWords, 1, Unaccounted) /\ InBalance(Unaccounted)
    BY <1>0, <1>2 DEF InStep, Balance, TickOwed
  <2>9. InBalance(Unaccounted') /\ RoomAt(high, heaterWords', 0, Unaccounted')
    BY <1>0, <2>1, <2>2, <2>4, <2>6, <2>7, <2>8, RoomAfterTurn
  <2>10. TickOwed' = 0
    BY DEF TickOwed
  <2> QED BY <2>1, <2>9, <2>10 DEF Balance, InStep, InBalance, RoomAt
<1> QED BY <1>1, <1>2

LEMMA CrossingTurns ==
    ASSUME PowerInv, TickOnCrossing
    PROVE  PowerInv'
<1>1. PICK on \in BOOLEAN, d \in 0 .. Full : Act(on, d)
  BY DEF TickOnCrossing
<1>2. /\ crossings > 0 /\ crossings' = 0 /\ crossings' \in 0 .. Depth /\ PowerTypeOK
      /\ waited' \in BOOLEAN
  BY Parts, Constants DEF TickOnCrossing, PowerTypeOK
<1>3. PowerTypeOK'
  BY <1>1, <1>2, TurnTyped
<1> QED BY <1>1, <1>2, <1>3, TurnStale, TurnBalance DEF PowerInv

LEMMA TimeoutTurns ==
    ASSUME PowerInv, TickWithoutMains
    PROVE  PowerInv'
<1>1. PICK on \in BOOLEAN, d \in 0 .. Full : Act(on, d)
  BY DEF TickWithoutMains
<1>2. /\ crossings = 0 /\ crossings' = 0 /\ crossings' \in 0 .. Depth /\ ~locked /\ PowerTypeOK
      /\ waited' \in BOOLEAN
  BY Parts, Constants DEF TickWithoutMains, PowerTypeOK
<1>3. PowerTypeOK'
  BY <1>1, <1>2, TurnTyped
<1> QED BY <1>1, <1>2, <1>3, TurnStale, TurnBalance DEF PowerInv

\* Steps that leave the heater's side alone.
LEMMA AccountKept ==
    ASSUME PowerInv, UNCHANGED <<owed, acc, heaterWords, locked, crossings, high, counting>>
    PROVE  Balance' /\ InStep'
<1>1. Balance /\ InStep
  BY Parts
<1>2. Unaccounted' = Unaccounted /\ TickOwed' = TickOwed
  BY DEF Unaccounted, Account, TickOwed
<1> QED BY <1>1, <1>2 DEF Balance, InStep

LEMMA RiseKeeps ==
    ASSUME PowerInv, Rise
    PROVE  PowerInv'
<1>0. /\ PowerTypeOK /\ HistoriesIdle /\ StaleWordsRunOut /\ Balance /\ InStep
      /\ owed \in Int /\ acc \in 0 .. Full - 1 /\ heaterWords \in 0 .. Depth
      /\ Unaccounted \in Int /\ TickOwed \in 0 .. 1
  BY Parts
<1>1. crossings' \in 0 .. Depth /\ (counting => crossings' > 0)
  BY <1>0, Constants DEF Rise, PowerTypeOK, AtMost
<1>2. PowerTypeOK'
  BY <1>0, <1>1 DEF Rise, PowerTypeOK, loopSide, TriacState
<1>3. TriacPending' = TriacPending
  BY DEF Rise, TriacPending
<1>4. HistoriesIdle' /\ StaleWordsRunOut'
  BY <1>0, <1>3 DEF Rise, HistoriesIdle, StaleWordsRunOut, loopSide
<1>5. CASE ~counting
  <2>1. ~locked' /\ owed' = 0
    BY <1>0, <1>5 DEF Rise, Balance
  <2> QED BY <2>1, <1>2, <1>4, UnlockedBalance DEF PowerInv
<1>6. CASE counting
  <2>1. /\ Unaccounted' = Unaccounted /\ TickOwed' = 1 /\ heaterWords' = heaterWords
        /\ locked' /\ high' /\ counting'
    BY <1>1, <1>6 DEF Rise, Unaccounted, Account, TickOwed, loopSide
  <2>2. RoomAt(TRUE, heaterWords, 1, Unaccounted)
    <3>1. CASE locked
      <4>1. RoomAt(FALSE, heaterWords, TickOwed, Unaccounted)
        BY <3>1, <1>0 DEF Rise, InStep, RoomAt
      <4> QED BY <4>1, <1>0, RoomAfterRise
    <3>2. CASE ~locked
      <4>1. Unaccounted = Account(0, acc, heaterWords)
        BY <3>2, <1>0 DEF Balance, Unaccounted
      <4>2. heaterWords = Depth => Unaccounted <= -Full
        BY <4>1, <1>0, FreshAccount
      <4> QED BY <4>2, <1>0, Constants DEF RoomAt
    <3> QED BY <3>1, <3>2
  <2>3. Balance' /\ InStep'
    BY <1>0, <2>1, <2>2 DEF Balance, InStep, RoomAt, InBalance
  <2> QED BY <1>2, <1>4, <2>3 DEF PowerInv
<1> QED BY <1>5, <1>6

LEMMA FallTyped ==
    ASSUME PowerTypeOK, Fall
    PROVE  PowerTypeOK'
<1>1. heaterWords' \in 0 .. Depth /\ heaterOn' \in BOOLEAN
  BY Constants DEF Fall, HeaterLatches, PowerTypeOK
<1>2. chunks' \in 0 .. Depth + 1
  BY Constants DEF Fall, PowerTypeOK, AtMost
<1>3. owed' \in Int
  BY Constants DEF Fall, PowerTypeOK
<1> QED BY <1>1, <1>2, <1>3 DEF Fall, PowerTypeOK, loopSide, TriacState

LEMMA FallStale ==
    ASSUME PowerInv, Fall
    PROVE  HistoriesIdle' /\ StaleWordsRunOut'
<1>0. PowerTypeOK /\ HistoriesIdle /\ StaleWordsRunOut
  BY Parts
<1>1. TriacPending' = TriacPending /\ shots' = shots /\ pumpOn' = pumpOn /\ duty' = duty
  BY DEF Fall, TriacPending, loopSide
<1>2. duty # 0 => chunks' = 0
  BY <1>0 DEF Fall, HistoriesIdle
<1>3. ASSUME duty = 0  PROVE heaterWords' + chunks' <= Depth
  <2>0. heaterWords + chunks <= Depth /\ heaterWords \in Nat /\ chunks \in Nat
    BY <1>0, <1>3 DEF StaleWordsRunOut, PowerTypeOK
  <2>1. CASE heaterWords > 0
    <3>1. heaterWords' = heaterWords - 1 /\ chunks' = AtMost(chunks + 1, Depth + 1)
      BY <2>1, <1>3 DEF Fall, HeaterLatches
    <3>2. chunks' = chunks + 1
      BY <3>1, <2>0, <2>1, Constants DEF AtMost
    <3> QED BY <3>1, <3>2, <2>0
  <2>2. CASE ~(heaterWords > 0)
    <3>1. heaterWords' = 0 /\ chunks' = chunks
      BY <2>2 DEF Fall, HeaterLatches
    <3> QED BY <3>1, <2>0, Constants
  <2> QED BY <2>1, <2>2
<1> QED BY <1>0, <1>1, <1>2, <1>3 DEF HistoriesIdle, StaleWordsRunOut

LEMMA FallBalance ==
    ASSUME PowerInv, Fall, PowerTypeOK'
    PROVE  Balance' /\ InStep'
<1>0. /\ Balance /\ InStep
      /\ owed \in Int /\ acc \in 0 .. Full - 1 /\ heaterWords \in 0 .. Depth
      /\ Unaccounted \in Int /\ TickOwed \in 0 .. 1
  BY Parts
<1>1. CASE ~locked
  BY <1>0, <1>1, UnlockedBalance DEF Fall, Balance
<1>2. CASE locked
  <2>1. /\ locked' /\ ~high' /\ high /\ TickOwed' = TickOwed /\ acc' = acc /\ counting'
        /\ heaterWords' = IF heaterWords > 0 THEN heaterWords - 1 ELSE 0
        /\ owed' = IF heaterWords > 0 THEN owed - Full ELSE owed
    BY <1>2 DEF Fall, HeaterLatches, TickOwed, loopSide
  <2>2. Unaccounted' = Unaccounted
    <3>1. CASE heaterWords > 0
      <4>1. heaterWords \in 1 .. Depth
        BY <3>1, <1>0, Constants
      <4> QED BY <4>1, <3>1, <2>1, <1>0, AccountOfCycle DEF Unaccounted
    <3>2. CASE ~(heaterWords > 0)
      <4>1. heaterWords' = heaterWords /\ owed' = owed
        BY <3>2, <2>1, <1>0, Constants
      <4> QED BY <4>1, <2>1 DEF Unaccounted, Account
    <3> QED BY <3>1, <3>2
  <2>3. RoomAt(TRUE, heaterWords, TickOwed, Unaccounted)
    BY <1>0, <1>2, <2>1 DEF InStep, RoomAt
  <2>4. PICK left \in 0 .. Depth : left = heaterWords'
    BY DEF PowerTypeOK
  <2>5. RoomAt(FALSE, left, TickOwed, Unaccounted)
    BY <2>1, <2>3, <2>4, <1>0, RoomAfterFall
  <2> QED BY <1>0, <2>1, <2>2, <2>4, <2>5 DEF Balance, InStep, RoomAt, InBalance
<1> QED BY <1>1, <1>2

LEMMA FallKeeps ==
    ASSUME PowerInv, Fall
    PROVE  PowerInv'
<1>1. PowerTypeOK'
  BY Parts, FallTyped
<1> QED BY <1>1, FallStale, FallBalance DEF PowerInv

LEMMA FireKeeps ==
    ASSUME PowerInv, Fire
    PROVE  PowerInv'
<1>0. PowerTypeOK /\ HistoriesIdle /\ StaleWordsRunOut
  BY Parts
<1>1. triacWords' \in 0 .. Depth /\ shots' \in 0 .. Depth + 2 /\ triac' \in TriacState
  BY <1>0, Constants DEF Fire, PowerTypeOK, AtMost, TriacState
<1>2. PowerTypeOK'
  BY <1>0, <1>1 DEF Fire, PowerTypeOK, loopSide, pinSide
<1>3. TriacPending = triacWords + 1 /\ TriacPending' = triacWords
  BY <1>0 DEF Fire, TriacPending, PowerTypeOK
<1>4. ASSUME ~pumpOn  PROVE TriacPending' + shots' <= Depth + 1
  <2>1. triacWords + 1 + shots <= Depth + 1 /\ triacWords \in Nat /\ shots \in Nat
    BY <1>0, <1>3, <1>4 DEF StaleWordsRunOut, PowerTypeOK
  <2>2. shots' = shots + 1
    BY <2>1, <1>4, Constants DEF Fire, AtMost
  <2> QED BY <2>1, <2>2, <1>3
<1>5. HistoriesIdle' /\ StaleWordsRunOut'
  BY <1>0, <1>4 DEF Fire, HistoriesIdle, StaleWordsRunOut, loopSide
<1>6. Balance' /\ InStep'
  BY AccountKept DEF Fire, loopSide, pinSide
<1> QED BY <1>2, <1>5, <1>6 DEF PowerInv

LEMMA MainsFailureKeeps ==
    ASSUME PowerInv, MainsFails
    PROVE  PowerInv'
<1>0. PowerTypeOK /\ HistoriesIdle /\ StaleWordsRunOut
  BY Parts
<1>1. PowerTypeOK'
  <2>1. mains' \in BOOLEAN /\ locked' \in BOOLEAN /\ waited' \in BOOLEAN
    BY DEF MainsFails
  <2>2. owed' \in Int
    BY DEF MainsFails
  <2> QED BY <1>0, <2>1, <2>2 DEF MainsFails, PowerTypeOK, loopSide
<1>2. HistoriesIdle' /\ StaleWordsRunOut'
  BY <1>0 DEF MainsFails, HistoriesIdle, StaleWordsRunOut, TriacPending, loopSide
<1>3. Balance' /\ InStep'
  BY <1>1, UnlockedBalance DEF MainsFails
<1> QED BY <1>1, <1>2, <1>3 DEF PowerInv

\* The other steps touch neither the words nor what is owed.
LEMMA OthersKeep ==
    ASSUME PowerInv, LoopDies \/ MainsReturns \/ UNCHANGED powerVars
    PROVE  PowerInv'
<1>0. PowerTypeOK /\ HistoriesIdle /\ StaleWordsRunOut
  BY Parts
<1>1. PowerTypeOK'
  BY <1>0 DEF LoopDies, MainsReturns, powerVars, PowerTypeOK, loopSide, pinSide
<1>2. HistoriesIdle' /\ StaleWordsRunOut'
  BY <1>0
     DEF LoopDies, MainsReturns, powerVars, HistoriesIdle, StaleWordsRunOut, TriacPending, loopSide
<1>3. Balance' /\ InStep'
  BY AccountKept DEF LoopDies, MainsReturns, powerVars, loopSide, pinSide
<1> QED BY <1>1, <1>2, <1>3 DEF PowerInv

LEMMA PowerStarts ==
    ASSUME PowerInit
    PROVE  PowerInv
<1>1. PowerTypeOK
  <2>1. mains \in BOOLEAN /\ high \in BOOLEAN /\ locked \in BOOLEAN /\ running \in BOOLEAN
        /\ waited \in BOOLEAN /\ counting \in BOOLEAN /\ pumpOn \in BOOLEAN /\ heaterOn \in BOOLEAN
    BY DEF PowerInit
  <2>2. crossings \in 0 .. Depth /\ tick \in 0 .. TickWrap - 1 /\ duty \in 0 .. Full
        /\ acc \in 0 .. Full - 1 /\ heaterWords \in 0 .. Depth
    BY Constants DEF PowerInit
  <2>3. triacWords \in 0 .. Depth /\ triac \in TriacState /\ chunks \in 0 .. Depth + 1
        /\ shots \in 0 .. Depth + 2 /\ owed \in Int
    BY Constants DEF PowerInit, TriacState
  <2> QED BY <2>1, <2>2, <2>3 DEF PowerTypeOK
<1>2. HistoriesIdle /\ StaleWordsRunOut
  BY Constants DEF PowerInit, HistoriesIdle, StaleWordsRunOut, TriacPending
<1>3. Unaccounted = Account(0, 0, 0)
  BY DEF PowerInit, Unaccounted
<1>4. InBalance(Account(0, 0, 0))
  BY FreshAccount, Constants
<1> QED BY <1>1, <1>2, <1>3, <1>4 DEF PowerInit, PowerInv, Balance, InStep

-----------------------------------------------------------------------------
(* Theorems *)

LEMMA PowerInductive == PowerSpec => []PowerInv
<1>1. PowerInit => PowerInv
  BY PowerStarts
<1>2. PowerInv /\ [PowerNext]_powerVars => PowerInv'
  BY CrossingTurns, TimeoutTurns, RiseKeeps, FallKeeps, FireKeeps, MainsFailureKeeps, OthersKeep
     DEF PowerNext
<1> QED BY <1>1, <1>2, PTL DEF PowerSpec

\* Type correctness; of the accumulator and the FIFOs it says that the chunks
\* that fire leave the one, and the words that are lost the other, in bounds.
THEOREM PowerTypeCorrect == PowerSpec => []PowerTypeOK
<1>1. PowerInv => PowerTypeOK
  BY Parts
<1> QED BY <1>1, PowerInductive, PTL

\* Once there is no demand, only what fits the FIFOs still acts: for a FIFO of
\* any depth, however long nobody pulled from it.
THEOREM StaleRunsOut == PowerSpec => []StaleWordsRunOut
<1>1. PowerInv => StaleWordsRunOut
  BY Parts
<1> QED BY <1>1, PowerInductive, PTL

\* While mains lasts the heat delivered follows the duty asked for, up to what
\* the accumulator and the FIFO hold; for any scale of duty and depth of FIFO.
THEOREM SpendsDuty == PowerSpec => []HeaterSpendsDuty
<1>1. ASSUME PowerInv  PROVE HeaterSpendsDuty
  <2>1. /\ owed \in Int /\ acc \in 0 .. Full - 1 /\ heaterWords \in 0 .. Depth
        /\ InBalance(Unaccounted)
    BY <1>1, Parts DEF Balance
  <2>2. PICK w \in Int : w = Full * heaterWords
    BY <2>1, OneWord
  <2>3. 0 <= w /\ w <= Full * Depth
    <3>1. Full * heaterWords <= Full * Depth /\ Full * 0 <= Full * heaterWords
      BY <2>1, WordsBounded, Constants
    <3>2. Full * 0 = 0
      BY Constants
    <3> QED BY <3>1, <3>2, <2>2
  <2>4. PICK full \in Nat : full = Full * Depth
    BY FullTimesDepth
  <2>5. Full * (Depth + 1) = full + Full /\ -Full * (Depth + 1) = -(full + Full)
    BY <2>4, FullTimesDepth
  <2>6. Unaccounted = owed - acc - w
    BY <2>2 DEF Unaccounted, Account
  <2>7. -(full + Full) < owed - acc - w /\ owed - acc - w <= 0
    BY <2>1, <2>5, <2>6 DEF InBalance
  <2>8. -(full + Full) < owed /\ owed < full + Full
    BY <2>1, <2>3, <2>4, <2>7, Constants
  <2> QED BY <2>5, <2>8 DEF HeaterSpendsDuty
<1> QED BY <1>1, PowerInductive, PTL
=============================================================================
