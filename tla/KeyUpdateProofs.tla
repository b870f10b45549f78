--------------------------- MODULE KeyUpdateProofs ---------------------------
(***************************************************************************)
(* Proofs about KeyUpdate, for every value of its constants.               *)
(***************************************************************************)
EXTENDS KeyUpdate, TLAPS

\* The length of a write is kept until SCF_Write returns.
LenInv ==
    /\ pc = "idle" => writeLen = 0
    /\ pc # "idle" => writeLen \in WriteLens
    /\ writeLen <= keyBytes
    /\ pc \notin {"idle", "sent"} => version = "TLSv1.3"

\* The bytes of the write under way that have not been counted yet.
Uncounted == IF pc \in {"sent", "first", "second"} THEN writeLen ELSE 0

\* While nothing escapes them, the counters of the object are the history:
\* the counter is the traffic of the key, up to the write that has not been
\* counted yet and saturated at 64 bits; the time is that of the key, or 0.
CountInv ==
    tracked /\ version = "TLSv1.3" =>
        /\ totalSizeOfWriteData = SaturatingAdd(keyBytes - Uncounted, 0)
        /\ lastKeyUpdateTime \in {0, keySince}

\* When only the interval is left to check, the traffic is below the
\* threshold that was read last.
TrafficInv == tracked /\ pc = "time" => keyBytes < lastRead

\* A write that owes a key update can not get past the reads of the traffic
\* threshold.
OwedInv ==
    owed =>
        /\ pc \in {"sent", "first", "second", "due"}
        /\ pc # "due" => totalSizeOfWriteData + writeLen >= keyUpdateTraffic
        /\ pc = "second" => writeLen < keyUpdateTraffic

KeyInv == TypeOK /\ LenInv /\ CountInv /\ TrafficInv /\ OwedInv

\* The additions and the subtraction of CheckNeedKeyUpdate stay within 64
\* bits; counting a write and counting it saturated are the same sum.
LEMMA CountSum ==
    ASSUME NEW a \in Nat, NEW b \in 0..U64Max, U64Max \in Nat
    PROVE  /\ SaturatingAdd(a, 0) \in 0..U64Max
           /\ SaturatingAdd(SaturatingAdd(a, 0), b) = SaturatingAdd(a + b, 0)
           /\ a <= U64Max => WrapAdd(a, b) \in 0..U64Max
           /\ SaturatingAdd(a, 0) + b <= U64Max =>
                WrapAdd(SaturatingAdd(a, 0), b) = SaturatingAdd(a + b, 0)
BY DEF SaturatingAdd, WrapAdd

\* A new object satisfies the inductive invariant.
LEMMA InitKeyInv == Init => KeyInv
<1> SUFFICES ASSUME Init PROVE KeyInv
  OBVIOUS
<1> USE KeyUpdateAssumption DEF Init
<1>1. isNeedKeyUpdate \in BOOLEAN /\ tracked \in BOOLEAN /\ owed \in BOOLEAN
  OBVIOUS
<1>2. setting \in [enable : BOOLEAN, time : MinTime..MaxTime, traffic : MinTraffic..U64Max,
                   left : SUBSET {"isNeedKeyUpdate", "keyUpdateTime", "keyUpdateTraffic"}]
  BY DEF NoSetting
<1>3. TypeOK
  BY <1>1, <1>2 DEF TypeOK
<1>4. LenInv
  BY DEF LenInv
<1>5. CountInv
  BY DEF CountInv, Uncounted, SaturatingAdd
<1> QED
  BY <1>3, <1>4, <1>5 DEF KeyInv, TrafficInv, OwedInv

-----------------------------------------------------------------------------
(* Every step keeps the inductive invariant: one lemma per kind of step.   *)

\* What the lemmas below need of the types.
InRange ==
    /\ writeLen \in Nat /\ keyBytes \in Nat /\ U64Max \in Nat /\ totalSizeOfWriteData \in Nat
    /\ writeLen <= U64Max /\ writeLen <= keyBytes /\ totalSizeOfWriteData <= U64Max
    /\ keyUpdateTraffic \in Nat /\ keyUpdateTraffic > 0 /\ keyUpdateTraffic <= U64Max
    /\ keyUpdateTime \in Nat /\ keyUpdateTime > 0 /\ keyUpdateTime <= MaxTime /\ MaxTime \in Nat
    /\ clock \in Nat /\ keySince \in Nat /\ clock >= MinClock /\ MinClock \in Nat
    /\ lastKeyUpdateTime \in Nat /\ MaxKeyBytes \in Nat

\* The inductive invariant gives them.
LEMMA Ranges == KeyInv => InRange
<1> SUFFICES ASSUME KeyInv PROVE InRange
  OBVIOUS
<1> USE KeyUpdateAssumption
<1>1. /\ keyUpdateTime \in MinTime..MaxTime
      /\ keyUpdateTraffic \in MinTraffic..U64Max
      /\ totalSizeOfWriteData \in 0..U64Max
      /\ lastKeyUpdateTime \in {0} \cup MinClock..MaxClock
      /\ clock \in MinClock..MaxClock
      /\ writeLen \in WriteLens \cup {0}
      /\ keyBytes \in 0..MaxKeyBytes
      /\ keySince \in MinClock..MaxClock
      /\ writeLen <= keyBytes
  BY DEF KeyInv, TypeOK, LenInv
<1> QED
  BY <1>1 DEF InRange

\* A step that leaves the object, the write and the traffic threshold alone,
\* and owes nothing new.
LEMMA SameKeyInv ==
    ASSUME KeyInv, TypeOK',
           UNCHANGED <<countVars, version, pc, writeLen, keyVars, lastRead>>,
           owed' => owed /\ keyUpdateTraffic' = keyUpdateTraffic
    PROVE  KeyInv'
<1>1. LenInv'
  BY DEF KeyInv, LenInv, keyVars
<1>2. CountInv'
  BY DEF KeyInv, CountInv, Uncounted, SaturatingAdd, countVars, keyVars
<1>3. TrafficInv'
  BY DEF KeyInv, TrafficInv, keyVars
<1>4. OwedInv'
  BY DEF KeyInv, OwedInv, countVars
<1> QED
  BY <1>1, <1>2, <1>3, <1>4 DEF KeyInv

\* The clock moves.
LEMMA ClockKeyInv ==
    ASSUME KeyInv, NEW now \in MinClock..MaxClock, SetClock(now)
    PROVE  KeyInv'
<1>1. TypeOK'
  BY DEF KeyInv, SetClock, TypeOK, paramVars, countVars, keyVars, readVars
<1> QED
  BY <1>1, SameKeyInv DEF SetClock, paramVars, readVars

\* The call of SCF_SetKeyAutoUpdateParam has changed no parameter yet.
LEMMA SettingKeyInv ==
    ASSUME KeyInv, NEW enable \in BOOLEAN, NEW time \in TimeInputs, NEW traffic \in TrafficInputs,
           SetKeyAutoUpdateParam(enable, time, traffic)
    PROVE  KeyInv'
<1> USE KeyUpdateAssumption
<1> DEFINE S == [enable : BOOLEAN, time : MinTime..MaxTime, traffic : MinTraffic..U64Max,
                 left : SUBSET {"isNeedKeyUpdate", "keyUpdateTime", "keyUpdateTraffic"}]
<1>0. UNCHANGED <<paramVars, countVars, version, clock, pc, writeLen, ret, keyVars, readVars>>
  BY DEF SetKeyAutoUpdateParam
<1>1. setting' \in S
  <2>1. CASE enable /\ ValidParam(time, traffic)
    BY <2>1 DEF SetKeyAutoUpdateParam, ValidParam
  <2>2. CASE ~(enable /\ ValidParam(time, traffic))
    BY <2>2 DEF SetKeyAutoUpdateParam, NoSetting
  <2> QED
    BY <2>1, <2>2
<1>2. TypeOK'
  BY <1>0, <1>1 DEF KeyInv, TypeOK, paramVars, countVars, keyVars, readVars
<1> QED
  BY <1>0, <1>2, SameKeyInv DEF paramVars, readVars

\* One of its fields is written, whatever the write under way has read.
LEMMA ParamKeyInv ==
    ASSUME KeyInv, NEW field \in setting.left, SetParam(field)
    PROVE  KeyInv'
<1> USE KeyUpdateAssumption
<1> DEFINE S == [enable : BOOLEAN, time : MinTime..MaxTime, traffic : MinTraffic..U64Max,
                 left : SUBSET {"isNeedKeyUpdate", "keyUpdateTime", "keyUpdateTraffic"}]
<1>0. UNCHANGED <<countVars, version, clock, pc, writeLen, ret, keyVars, lastRead>>
  BY DEF SetParam
<1>1. setting \in S /\ NoSetting \in S
  BY DEF KeyInv, TypeOK, NoSetting
<1>2. setting' \in S
  <2>1. CASE setting' = NoSetting
    BY <2>1, <1>1
  <2>2. CASE setting' = [setting EXCEPT !.left = @ \ {field}]
    BY <2>2, <1>1
  <2> QED
    BY <2>1, <2>2 DEF SetParam
<1>3. isNeedKeyUpdate' \in BOOLEAN /\ owed' \in BOOLEAN
  <2>1. setting.enable \in BOOLEAN /\ isNeedKeyUpdate \in BOOLEAN
    BY <1>1 DEF KeyInv, TypeOK
  <2> QED
    BY <2>1 DEF SetParam
<1>4. keyUpdateTime' \in MinTime..MaxTime /\ keyUpdateTraffic' \in MinTraffic..U64Max
  BY <1>1 DEF SetParam, KeyInv, TypeOK
<1>5. TypeOK'
  BY <1>0, <1>2, <1>3, <1>4 DEF KeyInv, TypeOK, countVars, keyVars
<1>6. owed' => owed /\ keyUpdateTraffic' = keyUpdateTraffic
  BY DEF SetParam
<1> QED
  BY <1>0, <1>5, <1>6, SameKeyInv

\* SCF_ObjKeyUpdate, between two writes.
LEMMA ObjKeyInv ==
    ASSUME KeyInv, NEW code \in SSLKeyUpdate, ObjKeyUpdate(code)
    PROVE  KeyInv'
<1>r. InRange
  BY Ranges
<1>1. /\ tracked' \in BOOLEAN
      /\ code \in {"SCF_SSL_ERR_IS_INIT_FINISHED", "SCF_SSL_ERR_KEY_UPDATE", "SCF_SUCCESS"}
  BY DEF ObjKeyUpdate, AdaptorKeyUpdate, SSLKeyUpdate
<1>2. pc = "idle" /\ pc' = "idle" /\ writeLen = 0 /\ writeLen' = 0 /\ ~owed /\ ~owed'
  BY DEF ObjKeyUpdate, KeyInv, LenInv, OwedInv, readVars
<1>3. TypeOK'
  BY <1>1, <1>r DEF InRange, ObjKeyUpdate, AdaptorKeyUpdate, KeyInv, TypeOK, paramVars, readVars
<1>4. LenInv'
  BY <1>2, <1>r DEF InRange, ObjKeyUpdate, AdaptorKeyUpdate, LenInv
<1>5. CountInv'
  BY <1>2, <1>r DEF InRange, ObjKeyUpdate, AdaptorKeyUpdate, CountInv, Uncounted, SaturatingAdd
<1> QED
  BY <1>2, <1>3, <1>4, <1>5 DEF KeyInv, TrafficInv, OwedInv

\* The data are sent, or not.
LEMMA SendKeyInv ==
    ASSUME KeyInv, NEW len \in WriteLens, SSLWrite(len)
    PROVE  KeyInv'
<1>r. InRange
  BY Ranges
<1>0. /\ pc = "idle" /\ pc' = "sent" /\ writeLen' = len /\ keyBytes' = keyBytes + len
      /\ keyBytes + len <= MaxKeyBytes /\ owed' = (len >= RemainTraffic)
      /\ len \in 1..U64Max /\ writeLen = 0
      /\ UNCHANGED <<paramVars, countVars, version, clock, setting, keySince, tracked, lastRead>>
  BY <1>r, KeyUpdateAssumption DEF InRange, SSLWrite, KeyInv, LenInv
<1>1. owed' \in BOOLEAN
  BY DEF SSLWrite
<1>2. TypeOK'
  BY <1>0, <1>1, <1>r DEF InRange, SSLWrite, KeyInv, TypeOK, paramVars, countVars
<1>3. LenInv'
  BY <1>0, <1>r DEF InRange, LenInv
<1>4. CountInv'
  BY <1>0, <1>r DEF InRange, KeyInv, CountInv, Uncounted, SaturatingAdd, countVars
<1>5. OwedInv'
  <2>1. ASSUME len >= RemainTraffic
        PROVE  totalSizeOfWriteData + len >= keyUpdateTraffic
    BY <1>0, <1>r, <2>1 DEF InRange, RemainTraffic
  <2>2. owed' => totalSizeOfWriteData + len >= keyUpdateTraffic
    BY <1>0, <2>1
  <2> QED
    BY <1>0, <2>2 DEF OwedInv, countVars, paramVars
<1> QED
  BY <1>0, <1>2, <1>3, <1>4, <1>5 DEF KeyInv, TrafficInv

\* The adaptor's write fails.
LEMMA SendFailsKeyInv ==
    ASSUME KeyInv, NEW code \in {"SCF_SSL_ERR_WANT_WRITE", "SCF_SSL_ERR_WRITE"}, SSLWriteFails(code)
    PROVE  KeyInv'
<1>1. TypeOK'
  BY DEF KeyInv, SSLWriteFails, TypeOK, paramVars, countVars, keyVars, readVars
<1> QED
  BY <1>1, SameKeyInv DEF SSLWriteFails, paramVars, readVars

-----------------------------------------------------------------------------
(* The steps inside SCF_Write.                                             *)

\* A step that goes on inside SCF_Write keeps the types when it keeps those
\* of the counters and of what it has read.
LEMMA ContinueTypes ==
    ASSUME KeyInv, NEW there \in {"first", "second", "third", "time", "due"},
           Continue(there), pc # "idle", version = "TLSv1.3",
           totalSizeOfWriteData' \in 0..U64Max, lastRead' \in {lastRead, keyUpdateTraffic},
           tracked' \in BOOLEAN,
           UNCHANGED <<lastKeyUpdateTime, keyBytes, keySince>>
    PROVE  TypeOK' /\ LenInv'
<1>1. TypeOK'
  BY DEF KeyInv, TypeOK, Continue, paramVars
<1>2. LenInv'
  BY DEF KeyInv, LenInv, Continue
<1> QED
  BY <1>1, <1>2

\* A step that returns from SCF_Write with a write that has been counted, or
\* need not be, and leaves the counters and the key as they are.
LEMMA ReturnKeyInv ==
    ASSUME KeyInv, NEW code \in {"SCF_SUCCESS", "SCF_ERRNO_SYSTEM_TIME_ERROR",
                                 "SCF_SSL_ERR_IS_INIT_FINISHED", "SCF_SSL_ERR_KEY_UPDATE"},
           ReturnFromWrite(code),
           UNCHANGED <<countVars, keyBytes, keySince>>,
           tracked' \in BOOLEAN,
           tracked' /\ version = "TLSv1.3" => tracked /\ Uncounted = 0
    PROVE  KeyInv'
<1>r. InRange
  BY Ranges
<1>0. pc' = "idle" /\ writeLen' = 0 /\ ret' = code /\ ~owed' /\ owed' \in BOOLEAN
      /\ lastRead' = DefaultTraffic /\ UNCHANGED <<paramVars, version, clock, setting>>
  BY DEF ReturnFromWrite
<1>1. TypeOK'
  BY <1>0, KeyUpdateAssumption DEF KeyInv, TypeOK, paramVars, countVars
<1>2. LenInv'
  BY <1>0, <1>r DEF InRange, LenInv
<1>3. CountInv'
  BY <1>0 DEF KeyInv, CountInv, Uncounted, SaturatingAdd, countVars
<1> QED
  BY <1>0, <1>1, <1>2, <1>3 DEF KeyInv, TrafficInv, OwedInv

\* The threshold is reached: the counter becomes the whole traffic of the key.
LEMMA ReachedKeyInv ==
    ASSUME KeyInv, pc = "first" \/ pc = "second", TrafficReached
    PROVE  KeyInv'
<1>r. InRange
  BY Ranges
<1>0. /\ totalSizeOfWriteData' = SaturatingAdd(totalSizeOfWriteData, writeLen)
      /\ lastRead' = keyUpdateTraffic /\ Continue("due") /\ pc' = "due"
      /\ UNCHANGED <<lastKeyUpdateTime, keyVars, version, writeLen, owed>>
  BY DEF TrafficReached, Continue
<1>1. totalSizeOfWriteData' \in 0..U64Max
  BY <1>0, <1>r DEF InRange, SaturatingAdd
<1>2. version = "TLSv1.3" /\ tracked' \in BOOLEAN /\ pc # "idle"
  BY <1>0 DEF KeyInv, LenInv, TypeOK, keyVars
<1>3. TypeOK' /\ LenInv'
  BY <1>0, <1>1, <1>2, ContinueTypes DEF keyVars
<1>4. CountInv'
  <2> SUFFICES ASSUME tracked
               PROVE  /\ totalSizeOfWriteData' = SaturatingAdd(keyBytes, 0)
                      /\ lastKeyUpdateTime \in {0, keySince}
    BY <1>0, <1>r DEF InRange, CountInv, Uncounted, keyVars, SaturatingAdd
  <2>1. totalSizeOfWriteData = SaturatingAdd(keyBytes - writeLen, 0)
        /\ lastKeyUpdateTime \in {0, keySince}
    BY <1>2 DEF KeyInv, CountInv, Uncounted
  <2>2. keyBytes - writeLen \in Nat /\ keyBytes - writeLen + writeLen = keyBytes
    BY <1>r DEF InRange
  <2> HIDE DEF SaturatingAdd
  <2>3. SaturatingAdd(SaturatingAdd(keyBytes - writeLen, 0), writeLen) =
            SaturatingAdd(keyBytes - writeLen + writeLen, 0)
    BY <2>2, <1>r, CountSum DEF InRange
  <2> QED
    BY <1>0, <2>1, <2>2, <2>3
<1> QED
  BY <1>0, <1>3, <1>4 DEF KeyInv, TrafficInv, OwedInv

\* The first read: a write that owes an update has it decided here, or by
\* the second read.
LEMMA LengthKeyInv ==
    ASSUME KeyInv, CheckLength
    PROVE  KeyInv'
<1>r. InRange
  BY Ranges
<1>1. CASE TrafficReached
  BY <1>1, ReachedKeyInv DEF CheckLength
<1>2. CASE /\ writeLen < keyUpdateTraffic /\ lastRead' = keyUpdateTraffic
           /\ Continue("second") /\ UNCHANGED <<countVars, keyVars>>
  <2>1. version = "TLSv1.3" /\ tracked' \in BOOLEAN /\ pc = "first"
    BY <1>2 DEF KeyInv, LenInv, TypeOK, keyVars, CheckLength
  <2>2. TypeOK' /\ LenInv'
    BY <1>2, <2>1, <1>r, ContinueTypes DEF InRange, keyVars, countVars
  <2>3. CountInv'
    BY <1>2, <2>1 DEF KeyInv, CountInv, Uncounted, SaturatingAdd, Continue, keyVars, countVars
  <2>4. OwedInv'
    BY <1>2, <2>1 DEF KeyInv, OwedInv, Continue, paramVars, countVars
  <2> QED
    BY <1>2, <2>2, <2>3, <2>4 DEF KeyInv, TrafficInv, Continue
<1> QED
  BY <1>1, <1>2 DEF CheckLength

\* The second read: the write is counted.  Nothing is lost to overflow unless
\* the threshold has been lowered since the first read, and then the counter
\* no longer counts as complete.
LEMMA TrafficKeyInv ==
    ASSUME KeyInv, CheckTraffic
    PROVE  KeyInv'
<1>r. InRange
  BY Ranges
<1>1. CASE TrafficReached
  BY <1>1, ReachedKeyInv DEF CheckTraffic
<1>2. CASE /\ totalSizeOfWriteData < WrapSub(keyUpdateTraffic, writeLen)
           /\ totalSizeOfWriteData' = WrapAdd(totalSizeOfWriteData, writeLen)
           /\ tracked' = (tracked /\ totalSizeOfWriteData + writeLen <= U64Max)
           /\ lastRead' = keyUpdateTraffic
           /\ Continue("third")
           /\ UNCHANGED <<lastKeyUpdateTime, keyBytes, keySince>>
  <2>1. version = "TLSv1.3" /\ pc = "second" /\ pc' = "third"
        /\ UNCHANGED <<version, writeLen, owed>>
    BY <1>2 DEF KeyInv, LenInv, CheckTraffic, Continue
  <2>2. tracked' \in BOOLEAN
    BY <1>2
  <2>3. totalSizeOfWriteData' \in 0..U64Max
    BY <1>2, <1>r DEF InRange, WrapAdd
  <2>4. TypeOK' /\ LenInv'
    BY <1>2, <2>1, <2>2, <2>3, ContinueTypes
  <2>5. CountInv'
    <3> SUFFICES ASSUME tracked, totalSizeOfWriteData + writeLen <= U64Max
                 PROVE  /\ totalSizeOfWriteData' = SaturatingAdd(keyBytes, 0)
                        /\ lastKeyUpdateTime \in {0, keySince}
      <4>1. tracked' => tracked /\ totalSizeOfWriteData + writeLen <= U64Max
        BY <1>2
      <4>2. Uncounted' = 0 /\ keyBytes - 0 = keyBytes
        BY <2>1, <1>r DEF Uncounted, InRange
      <4> QED
        BY <1>2, <2>1, <4>1, <4>2 DEF CountInv
    <3>1. totalSizeOfWriteData = SaturatingAdd(keyBytes - writeLen, 0)
          /\ lastKeyUpdateTime \in {0, keySince}
      BY <2>1 DEF KeyInv, CountInv, Uncounted
    <3>2. keyBytes - writeLen \in Nat /\ keyBytes - writeLen + writeLen = keyBytes
      BY <1>r DEF InRange
    <3>3. WrapAdd(SaturatingAdd(keyBytes - writeLen, 0), writeLen) =
              SaturatingAdd(keyBytes - writeLen + writeLen, 0)
      BY <3>1, <3>2, <1>r, CountSum DEF InRange
    <3> QED
      BY <1>2, <3>1, <3>2, <3>3
  <2>6. ~owed
    <3> SUFFICES ASSUME owed PROVE FALSE
      OBVIOUS
    <3>1. totalSizeOfWriteData + writeLen >= keyUpdateTraffic /\ writeLen < keyUpdateTraffic
      BY <2>1 DEF KeyInv, OwedInv
    <3> QED
      BY <1>2, <3>1, <1>r DEF InRange, WrapSub
  <2> QED
    BY <2>1, <2>4, <2>5, <2>6 DEF KeyInv, TrafficInv, OwedInv
<1> QED
  BY <1>1, <1>2 DEF CheckTraffic

\* The third read: below the threshold, only the interval is left to check.
LEMMA CountedKeyInv ==
    ASSUME KeyInv, CheckCounted
    PROVE  KeyInv'
<1>r. InRange
  BY Ranges
<1>0. /\ pc = "third" /\ version = "TLSv1.3" /\ ~owed
      /\ lastRead' = keyUpdateTraffic /\ UNCHANGED <<countVars, keyVars>>
      /\ pc' = IF totalSizeOfWriteData >= keyUpdateTraffic THEN "due" ELSE "time"
      /\ UNCHANGED <<version, writeLen, owed>>
  BY DEF CheckCounted, Continue, KeyInv, LenInv, OwedInv
<1>1. tracked' \in BOOLEAN
  BY <1>0 DEF KeyInv, TypeOK, keyVars
<1>2. TypeOK' /\ LenInv'
  <2>1. CASE Continue("due")
    BY <1>0, <1>1, <2>1, <1>r, ContinueTypes DEF InRange, keyVars, countVars
  <2>2. CASE Continue("time")
    BY <1>0, <1>1, <2>2, <1>r, ContinueTypes DEF InRange, keyVars, countVars
  <2> QED
    BY <2>1, <2>2 DEF CheckCounted
<1>3. CountInv'
  BY <1>0 DEF KeyInv, CountInv, Uncounted, SaturatingAdd, keyVars, countVars
<1>4. TrafficInv'
  <2> SUFFICES ASSUME tracked, totalSizeOfWriteData < keyUpdateTraffic
               PROVE  keyBytes < keyUpdateTraffic
    BY <1>0, <1>r DEF InRange, TrafficInv, keyVars
  <2>1. totalSizeOfWriteData = SaturatingAdd(keyBytes, 0)
    BY <1>0, <1>r DEF InRange, KeyInv, CountInv, Uncounted, SaturatingAdd
  <2> QED
    BY <2>1, <1>r DEF InRange, SaturatingAdd
<1> QED
  BY <1>0, <1>2, <1>3, <1>4 DEF KeyInv, OwedInv

\* The interval is checked.
LEMMA TimeKeyInv ==
    ASSUME KeyInv, CheckTimeInterval
    PROVE  KeyInv'
<1>r. InRange
  BY Ranges
<1>0. /\ pc = "time" /\ version = "TLSv1.3" /\ ~owed /\ Uncounted = 0
      /\ UNCHANGED <<countVars, keyVars>> /\ tracked' \in BOOLEAN
  <2>1. pc = "time" /\ UNCHANGED <<countVars, keyVars>>
    BY DEF CheckTimeInterval
  <2> QED
    BY <2>1 DEF KeyInv, TypeOK, LenInv, OwedInv, Uncounted, keyVars
<1>1. CASE ReturnFromWrite("SCF_ERRNO_SYSTEM_TIME_ERROR")
  BY <1>0, <1>1, ReturnKeyInv DEF keyVars
<1>2. CASE ReturnFromWrite("SCF_SUCCESS")
  BY <1>0, <1>2, ReturnKeyInv DEF keyVars
<1>3. CASE Continue("due") /\ UNCHANGED lastRead
  <2>1. TypeOK' /\ LenInv'
    BY <1>0, <1>3, <1>r, ContinueTypes DEF InRange, keyVars, countVars
  <2>2. CountInv'
    BY <1>0, <1>3 DEF KeyInv, CountInv, Uncounted, SaturatingAdd, keyVars, countVars, Continue
  <2> QED
    BY <1>0, <1>3, <2>1, <2>2 DEF KeyInv, TrafficInv, OwedInv, Continue
<1> QED
  BY <1>1, <1>2, <1>3 DEF CheckTimeInterval

\* The update succeeds, and a new key begins; or it fails.
LEMMA UpdateKeyInv ==
    ASSUME KeyInv, NEW code \in SSLKeyUpdate, WriteUpdatesKey(code)
    PROVE  KeyInv'
<1>r. InRange
  BY Ranges
<1>0. /\ pc = "due" /\ version = "TLSv1.3" /\ Uncounted = 0 /\ ReturnFromWrite(code)
      /\ code \in {"SCF_SUCCESS", "SCF_ERRNO_SYSTEM_TIME_ERROR",
                   "SCF_SSL_ERR_IS_INIT_FINISHED", "SCF_SSL_ERR_KEY_UPDATE"}
  BY DEF WriteUpdatesKey, KeyInv, LenInv, Uncounted, SSLKeyUpdate
<1>1. CASE AdaptorKeyUpdate
  <2>0. /\ pc' = "idle" /\ writeLen' = 0 /\ ret' = code /\ ~owed' /\ owed' \in BOOLEAN
        /\ tracked' \in BOOLEAN
        /\ lastRead' = DefaultTraffic /\ UNCHANGED <<paramVars, version, clock, setting>>
    BY <1>0, <1>1 DEF ReturnFromWrite, AdaptorKeyUpdate
  <2>1. TypeOK'
    BY <1>0, <1>1, <2>0, <1>r, KeyUpdateAssumption DEF InRange, AdaptorKeyUpdate, KeyInv, TypeOK, paramVars
  <2>2. LenInv'
    BY <1>1, <2>0 DEF AdaptorKeyUpdate, LenInv
  <2>3. CountInv'
    BY <1>1, <2>0, <1>r DEF InRange, AdaptorKeyUpdate, CountInv, Uncounted, SaturatingAdd
  <2> QED
    BY <2>0, <2>1, <2>2, <2>3 DEF KeyInv, TrafficInv, OwedInv
<1>2. CASE UNCHANGED <<countVars, keyVars>>
  <2>1. tracked' \in BOOLEAN
    BY <1>2 DEF KeyInv, TypeOK, keyVars
  <2> QED
    BY <1>0, <1>2, <2>1, ReturnKeyInv DEF keyVars
<1> QED
  BY <1>1, <1>2 DEF WriteUpdatesKey

\* Every step keeps the inductive invariant.
LEMMA NextKeyInv == KeyInv /\ [Next]_vars => KeyInv'
<1> SUFFICES ASSUME KeyInv, [Next]_vars
             PROVE  KeyInv'
  OBVIOUS
<1>r. InRange
  BY Ranges
<1>1. CASE WriteUncounted
  <2>1. tracked' = FALSE
    BY <1>1 DEF WriteUncounted
  <2>2. tracked' \in BOOLEAN
    BY <2>1
  <2> QED
    BY <1>1, <2>1, <2>2, ReturnKeyInv DEF WriteUncounted
<1>2. CASE WriteOldVersion
  <2>1. tracked' \in BOOLEAN
    BY <1>2 DEF WriteOldVersion, KeyInv, TypeOK, keyVars
  <2> QED
    BY <1>2, <2>1, ReturnKeyInv DEF WriteOldVersion, keyVars
<1>3. CASE CheckNeedKeyUpdate
  <2>0. /\ pc = "sent" /\ version = "TLSv1.3" /\ Continue("first")
        /\ UNCHANGED <<countVars, keyVars, lastRead>>
    BY <1>3 DEF CheckNeedKeyUpdate
  <2>1. tracked' \in BOOLEAN
    BY <2>0 DEF KeyInv, TypeOK, keyVars
  <2>2. TypeOK' /\ LenInv'
    BY <2>0, <2>1, <1>r, ContinueTypes DEF InRange, keyVars, countVars
  <2>3. CountInv'
    BY <2>0 DEF KeyInv, CountInv, Uncounted, SaturatingAdd, keyVars, countVars, Continue
  <2>4. OwedInv'
    BY <2>0 DEF KeyInv, OwedInv, Continue, paramVars, countVars
  <2> QED
    BY <2>0, <2>2, <2>3, <2>4 DEF KeyInv, TrafficInv, Continue
<1>4. CASE UNCHANGED vars
  <2>1. TypeOK'
    BY <1>4 DEF KeyInv, TypeOK, vars, paramVars, countVars, keyVars, readVars
  <2> QED
    BY <1>4, <2>1, SameKeyInv DEF vars, paramVars, readVars
<1>5. CASE \E now \in MinClock..MaxClock : SetClock(now)
  BY <1>5, ClockKeyInv
<1>6. CASE \E enable \in BOOLEAN, time \in TimeInputs, traffic \in TrafficInputs :
             SetKeyAutoUpdateParam(enable, time, traffic)
  BY <1>6, SettingKeyInv
<1>7. CASE \E field \in setting.left : SetParam(field)
  BY <1>7, ParamKeyInv
<1>8. CASE \E code \in SSLKeyUpdate : ObjKeyUpdate(code)
  BY <1>8, ObjKeyInv
<1>9. CASE \E len \in WriteLens : SSLWrite(len)
  BY <1>9, SendKeyInv
<1>10. CASE \E code \in {"SCF_SSL_ERR_WANT_WRITE", "SCF_SSL_ERR_WRITE"} : SSLWriteFails(code)
  BY <1>10, SendFailsKeyInv
<1>11. CASE \E code \in SSLKeyUpdate : WriteUpdatesKey(code)
  BY <1>11, UpdateKeyInv
<1> QED
  BY <1>1, <1>2, <1>3, <1>4, <1>5, <1>6, <1>7, <1>8, <1>9, <1>10, <1>11,
     LengthKeyInv, TrafficKeyInv, CountedKeyInv, TimeKeyInv DEF Next, WriteStep

\* The inductive invariant holds throughout.
THEOREM KeyInvariance == Spec => []KeyInv
BY InitKeyInv, NextKeyInv, PTL DEF Spec

\* The counters of the object and the parameters of the context keep their
\* ranges, for thresholds and write lengths of any size, whatever the order
\* in which the fields of the parameters are written.
THEOREM KeyTypeCorrect == Spec => []TypeOK
<1>1. KeyInv => TypeOK
  BY DEF KeyInv
<1> QED
  BY <1>1, KeyInvariance, PTL

-----------------------------------------------------------------------------
\* A step in which SCF_Write reports success under automatic update has found
\* the interval not over, or has made the update.
LEMMA ReturnSteps ==
    ASSUME KeyInv, [Next]_vars, WriteSucceeds
    PROVE  \/ /\ pc = "time" /\ UNCHANGED keyVars
              /\ clock >= lastKeyUpdateTime
              /\ clock - lastKeyUpdateTime < keyUpdateTime
           \/ AdaptorKeyUpdate
<1> USE DEF WriteSucceeds
<1>1. ASSUME NEW now, SetClock(now) PROVE FALSE
  BY <1>1 DEF SetClock
<1>2. ASSUME NEW e, NEW t, NEW r, SetKeyAutoUpdateParam(e, t, r) PROVE FALSE
  BY <1>2 DEF SetKeyAutoUpdateParam
<1>3. ASSUME NEW field, SetParam(field) PROVE FALSE
  BY <1>3 DEF SetParam
<1>4. ~WriteUncounted /\ ~WriteOldVersion /\ ~CheckNeedKeyUpdate
  BY DEF WriteUncounted, WriteOldVersion, CheckNeedKeyUpdate
<1>5. ~CheckLength /\ ~CheckTraffic /\ ~CheckCounted
  BY DEF CheckLength, CheckTraffic, CheckCounted
<1>6. ASSUME NEW code \in SSLKeyUpdate, WriteUpdatesKey(code)
      PROVE  AdaptorKeyUpdate
  BY <1>6 DEF WriteUpdatesKey, ReturnFromWrite
<1>7. CASE CheckTimeInterval
  BY <1>7 DEF CheckTimeInterval, ReturnFromWrite, Continue
<1>8. CASE UNCHANGED vars
  BY <1>8 DEF vars
<1>9. ASSUME NEW code, ObjKeyUpdate(code) PROVE FALSE
  BY <1>9 DEF ObjKeyUpdate
<1>10. ASSUME NEW len, SSLWrite(len) PROVE FALSE
  BY <1>10 DEF SSLWrite
<1>11. ASSUME NEW code, SSLWriteFails(code) PROVE FALSE
  BY <1>11 DEF SSLWriteFails
<1> QED
  BY <1>1, <1>2, <1>3, <1>4, <1>5, <1>6, <1>7, <1>8, <1>9, <1>10, <1>11 DEF Next, WriteStep

\* When SCF_Write reports success under automatic update, the key is within
\* both thresholds as the write has read them last: for every size of
\* counter, threshold and write, every course of the clock, every sequence of
\* failed updates and every change of the thresholds between two reads.
THEOREM KeyLifetime == Spec => KeyLifetimeEnforced
<1>1. ASSUME KeyInv, [Next]_vars, WriteSucceeds, tracked'
      PROVE  keyBytes' < lastRead /\ clock - keySince' < keyUpdateTime
  <2>r. InRange
    BY <1>1, Ranges
  <2>1. lastRead \in Nat /\ lastRead > 0
    BY <1>1, KeyUpdateAssumption DEF KeyInv, TypeOK
  <2>2. CASE AdaptorKeyUpdate
    BY <1>1, <2>1, <2>2, <2>r DEF InRange, AdaptorKeyUpdate
  <2>3. CASE /\ pc = "time" /\ UNCHANGED keyVars
             /\ clock >= lastKeyUpdateTime
             /\ clock - lastKeyUpdateTime < keyUpdateTime
    <3>1. tracked /\ version = "TLSv1.3"
      BY <1>1, <2>3 DEF KeyInv, LenInv, keyVars
    <3>2. keyBytes < lastRead
      BY <1>1, <2>3, <3>1 DEF KeyInv, TrafficInv
    <3>3. lastKeyUpdateTime \in {0, keySince}
      BY <1>1, <3>1 DEF KeyInv, CountInv
    <3>4. lastKeyUpdateTime # 0
      BY <1>1, <2>3, <2>r, EpochAssumption DEF InRange
    <3> QED
      BY <2>3, <3>2, <3>3, <3>4 DEF keyVars
  <2> QED
    BY <1>1, <2>2, <2>3, ReturnSteps
<1>2. KeyInv /\ [Next]_vars =>
        [WriteSucceeds /\ tracked' => keyBytes' < lastRead /\ clock - keySince' < keyUpdateTime]_vars
  BY <1>1
<1> QED
  BY <1>2, KeyInvariance, PTL DEF Spec, KeyLifetimeEnforced

\* A write of at least the reported remaining traffic never succeeds under
\* the old key while the threshold stays, whether the counters have seen the
\* whole key phase or not.
THEOREM RemainHonest == Spec => RemainTrafficHonest
<1>1. ASSUME KeyInv, [Next]_vars, WriteSucceeds, owed
      PROVE  keyBytes' = 0
  <2>1. pc # "time"
    BY <1>1 DEF KeyInv, OwedInv
  <2> QED
    BY <1>1, <2>1, ReturnSteps DEF AdaptorKeyUpdate
<1>2. KeyInv /\ [Next]_vars => [WriteSucceeds /\ owed => keyBytes' = 0]_vars
  BY <1>1
<1> QED
  BY <1>2, KeyInvariance, PTL DEF Spec, RemainTrafficHonest
=============================================================================
