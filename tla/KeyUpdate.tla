----------------------------- MODULE KeyUpdate -----------------------------
(***************************************************************************)
(* Session key update of one policy object on an established connection:   *)
(* SCF_Write with the automatic update it triggers                         *)
(* (connection/connection.cpp, adaptor/session_key_update.cpp), the manual *)
(* SCF_ObjKeyUpdate, and the parameters in the context, which another      *)
(* thread may set while a write is under way                               *)
(* (policy/auth/psk/psk_key_policy.cpp).  No lock protects the parameters: *)
(* SCF_SetKeyAutoUpdateParam writes its fields one by one, in any order    *)
(* that the compiler and the processor like, and a write reads the traffic *)
(* threshold three times; every one of these accesses is a step.           *)
(*                                                                         *)
(* A 64-bit counter is an integer up to U64Max that wraps when it is added *)
(* to.  The fields totalKeyUpdateCnt, isLastUpdateSuccess, timeInterval    *)
(* and trafficThreshold of the object are left out: nothing reads them.    *)
(***************************************************************************)
EXTENDS Integers

CONSTANTS
    MinTime, MaxTime,       \* MIN_KEY_UPDATE_TIME, MAX_KEY_UPDATE_TIME
    MinTraffic,             \* MIN_KEY_UPDATE_TRAFFIC
    U64Max,                 \* UINT64_MAX, also MAX_KEY_UPDATE_TRAFFIC
    DefaultTime, DefaultTraffic,
    TimeInputs,             \* the arguments callers give to
    TrafficInputs,          \*   SCF_SetKeyAutoUpdateParam
    WriteLens,              \* how much data one SSL_write_ex can take
    MinClock, MaxClock,     \* the readings of gettimeofday, in seconds
    MaxKeyBytes             \* bound on what is sent under one key

ASSUME KeyUpdateAssumption ==
    /\ MinTime \in Nat \ {0} /\ MaxTime \in Nat \ {0}
    /\ MinTraffic \in Nat \ {0} /\ U64Max \in Nat \ {0}
    /\ DefaultTime \in MinTime..MaxTime
    /\ DefaultTraffic \in MinTraffic..U64Max
    /\ TimeInputs \subseteq Nat
    /\ TrafficInputs \subseteq 0..U64Max
    /\ WriteLens \subseteq 1..U64Max
    /\ MinClock \in Nat /\ MaxClock \in Nat
    /\ MaxKeyBytes \in Nat

\* The epoch lies longer ago than the longest update interval, one year.
ASSUME EpochAssumption == MinClock >= MaxTime

VARIABLES
    isNeedKeyUpdate, keyUpdateTime, keyUpdateTraffic,   \* of the context
    totalSizeOfWriteData, lastKeyUpdateTime,            \* of the object
    version,        \* the negotiated protocol version
    clock,          \* what gettimeofday says; it may be set back
    setting,        \* the call of SCF_SetKeyAutoUpdateParam under way: its
                    \*   arguments and the fields it has yet to write
    pc,             \* "idle", or where SCF_Write is: back from the adaptor,
                    \*   before a read of a threshold, before the update
    writeLen,       \* the *writeLen of that write
    ret,            \* what the last call on the object returned, or the
                    \*   SCF_SUCCESS of the adaptor's write in SCF_Write
    keyBytes,       \* history: the bytes sent under the current key
    keySince,       \* history: when the current key came into use
    tracked,        \* history: nothing the counters do not see has happened
                    \*   since then: no write with automatic update off, no
                    \*   failed SCF_ObjKeyUpdate, no overflow of the counter
    lastRead,       \* history: the traffic threshold the write under way
                    \*   has read last
    owed            \* history: the write under way is as long as the traffic
                    \*   that remained before it, and the threshold has not
                    \*   been written since

paramVars == <<isNeedKeyUpdate, keyUpdateTime, keyUpdateTraffic>>
countVars == <<totalSizeOfWriteData, lastKeyUpdateTime>>
keyVars   == <<keyBytes, keySince, tracked>>
readVars  == <<lastRead, owed>>
vars == <<paramVars, countVars, version, clock, setting, pc, writeLen, ret, keyVars, readVars>>

\* No call of SCF_SetKeyAutoUpdateParam is under way.
NoSetting == [enable |-> FALSE, time |-> DefaultTime, traffic |-> DefaultTraffic, left |-> {}]

-----------------------------------------------------------------------------
\* The object has been created and its handshake is done.
Init ==
    /\ isNeedKeyUpdate = FALSE
    /\ keyUpdateTime = DefaultTime
    /\ keyUpdateTraffic = DefaultTraffic
    /\ clock \in MinClock..MaxClock
    /\ totalSizeOfWriteData = 0
    /\ lastKeyUpdateTime = clock
    /\ version \in {"TLSv1.2", "TLSv1.3"}
    /\ setting = NoSetting
    /\ pc = "idle"
    /\ writeLen = 0
    /\ ret = "SCF_SUCCESS"
    /\ keyBytes = 0
    /\ keySince = clock
    /\ tracked = TRUE
    /\ lastRead = DefaultTraffic
    /\ owed = FALSE

\* Time passes, or the system time is set.
SetClock(now) ==
    /\ clock' = now
    /\ UNCHANGED <<paramVars, countVars, version, setting, pc, writeLen, ret, keyVars, readVars>>

\* Mutant: the interval is not checked.
ValidParamTimeUnchecked(time, traffic) == traffic \in MinTraffic..U64Max

ValidParam(time, traffic) ==
    /\ time \in MinTime..MaxTime
    /\ traffic \in MinTraffic..U64Max

\* The switch is written also when the parameters are refused.
SetKeyAutoUpdateParam(enable, time, traffic) ==
    /\ setting.left = {}
    /\ setting' = IF enable /\ ValidParam(time, traffic)
                  THEN [enable |-> enable, time |-> time, traffic |-> traffic,
                        left |-> {"isNeedKeyUpdate", "keyUpdateTime", "keyUpdateTraffic"}]
                  ELSE [NoSetting EXCEPT !.enable = enable, !.left = {"isNeedKeyUpdate"}]
    /\ UNCHANGED <<paramVars, countVars, version, clock, pc, writeLen, ret, keyVars, readVars>>

\* One of its fields is written; after the last one the call is over.
SetParam(field) ==
    /\ field \in setting.left
    /\ isNeedKeyUpdate' = IF field = "isNeedKeyUpdate" THEN setting.enable ELSE isNeedKeyUpdate
    /\ keyUpdateTime' = IF field = "keyUpdateTime" THEN setting.time ELSE keyUpdateTime
    /\ keyUpdateTraffic' = IF field = "keyUpdateTraffic" THEN setting.traffic ELSE keyUpdateTraffic
    /\ owed' = (owed /\ field # "keyUpdateTraffic")
    /\ setting' = IF setting.left = {field} THEN NoSetting
                  ELSE [setting EXCEPT !.left = @ \ {field}]
    /\ UNCHANGED <<countVars, version, clock, pc, writeLen, ret, keyVars, lastRead>>

-----------------------------------------------------------------------------
(* OpenSSLAdaptor::KeyUpdate.                                              *)

\* SSL_is_init_finished or SSL_key_update refuses, or both accept.
SSLKeyUpdate ==
    {"SCF_SSL_ERR_IS_INIT_FINISHED", "SCF_SSL_ERR_KEY_UPDATE"} \cup
    (IF version = "TLSv1.3" THEN {"SCF_SUCCESS"} ELSE {})

\* The key update is done: what the adaptor writes into the object.
AdaptorKeyUpdate ==
    /\ totalSizeOfWriteData' = 0
    /\ lastKeyUpdateTime' = 0
    /\ keyBytes' = 0
    /\ keySince' = clock
    /\ tracked' = TRUE

\* SCF_ObjKeyUpdate resets the counters before it calls the adaptor.
ObjKeyUpdate(code) ==
    /\ pc = "idle"
    /\ code \in SSLKeyUpdate
    /\ \/ /\ code = "SCF_SUCCESS"
          /\ AdaptorKeyUpdate
       \/ /\ code # "SCF_SUCCESS"
          /\ totalSizeOfWriteData' = 0
          /\ lastKeyUpdateTime' = clock
          /\ tracked' = FALSE
          /\ UNCHANGED <<keyBytes, keySince>>
    /\ ret' = code
    /\ UNCHANGED <<paramVars, version, clock, setting, pc, writeLen, readVars>>

-----------------------------------------------------------------------------
\* Mutant: the threshold the object copied when it was created.
RemainTrafficStale ==
    IF DefaultTraffic > totalSizeOfWriteData
    THEN DefaultTraffic - totalSizeOfWriteData
    ELSE 0

\* What SCF_GetKeyUpdateInfo reports as *remainTraffic.
RemainTraffic ==
    IF keyUpdateTraffic > totalSizeOfWriteData
    THEN keyUpdateTraffic - totalSizeOfWriteData
    ELSE 0

-----------------------------------------------------------------------------
(* SCF_Write.                                                              *)

\* The adaptor hands the data to SSL_write_ex, which takes some of it ...
SSLWrite(len) ==
    /\ pc = "idle"
    /\ keyBytes + len <= MaxKeyBytes
    /\ keyBytes' = keyBytes + len
    /\ writeLen' = len
    /\ pc' = "sent"
    /\ owed' = (len >= RemainTraffic)
    /\ ret' = "SCF_SUCCESS"
    /\ UNCHANGED <<paramVars, countVars, version, clock, setting, keySince, tracked, lastRead>>

\* ... or none, and the call ends there.
SSLWriteFails(code) ==
    /\ pc = "idle"
    /\ ret' = code
    /\ UNCHANGED <<paramVars, countVars, version, clock, setting, pc, writeLen, keyVars, readVars>>

WrapAdd(a, b) == IF a + b > U64Max THEN a + b - (U64Max + 1) ELSE a + b

\* Mutant: the counter of a key whose update keeps failing overflows.
SaturatingAddWraps(a, b) == WrapAdd(a, b)

SaturatingAdd(a, b) == IF b > U64Max - a THEN U64Max ELSE a + b

WrapSub(a, b) == IF a < b THEN a - b + (U64Max + 1) ELSE a - b

\* Return to the caller of SCF_Write.
ReturnFromWrite(code) ==
    /\ pc' = "idle"
    /\ writeLen' = 0
    /\ ret' = code
    /\ owed' = FALSE
    /\ lastRead' = DefaultTraffic
    /\ UNCHANGED <<paramVars, version, clock, setting>>

\* Go on inside SCF_Write.
Continue(there) ==
    /\ pc' = there
    /\ UNCHANGED <<paramVars, version, clock, setting, writeLen, ret, owed>>

\* Automatic update is off: the write does not count.
WriteUncounted ==
    /\ pc = "sent"
    /\ ~isNeedKeyUpdate
    /\ tracked' = FALSE
    /\ ReturnFromWrite("SCF_SUCCESS")
    /\ UNCHANGED <<countVars, keyBytes, keySince>>

\* Automatic update is on, and the protocol has none.
WriteOldVersion ==
    /\ pc = "sent"
    /\ isNeedKeyUpdate
    /\ version # "TLSv1.3"
    /\ ReturnFromWrite("SCF_SUCCESS")
    /\ UNCHANGED <<countVars, keyVars>>

CheckNeedKeyUpdate ==
    /\ pc = "sent"
    /\ isNeedKeyUpdate
    /\ version = "TLSv1.3"
    /\ Continue("first")
    /\ UNCHANGED <<countVars, keyVars, lastRead>>

\* The threshold is reached by the first or by the second half of the test:
\* the write is counted up to the largest number and an update is due.
TrafficReached ==
    /\ totalSizeOfWriteData' = SaturatingAdd(totalSizeOfWriteData, writeLen)
    /\ lastRead' = keyUpdateTraffic
    /\ Continue("due")
    /\ UNCHANGED <<lastKeyUpdateTime, keyVars>>

\* The first half, the length of the write against the threshold ...
CheckLength ==
    /\ pc = "first"
    /\ \/ /\ writeLen >= keyUpdateTraffic
          /\ TrafficReached
       \/ /\ writeLen < keyUpdateTraffic
          /\ lastRead' = keyUpdateTraffic
          /\ Continue("second")
          /\ UNCHANGED <<countVars, keyVars>>

\* ... and the second: the difference is one of 64-bit numbers, and wraps
\* when the threshold has become smaller than the write since the first.
CheckTraffic ==
    /\ pc = "second"
    /\ \/ /\ totalSizeOfWriteData >= WrapSub(keyUpdateTraffic, writeLen)
          /\ TrafficReached
       \/ /\ totalSizeOfWriteData < WrapSub(keyUpdateTraffic, writeLen)
          /\ totalSizeOfWriteData' = WrapAdd(totalSizeOfWriteData, writeLen)
          /\ tracked' = (tracked /\ totalSizeOfWriteData + writeLen <= U64Max)
          /\ lastRead' = keyUpdateTraffic
          /\ Continue("third")
          /\ UNCHANGED <<lastKeyUpdateTime, keyBytes, keySince>>

\* The counter with the write in it is compared once more.
CheckCounted ==
    /\ pc = "third"
    /\ lastRead' = keyUpdateTraffic
    /\ Continue(IF totalSizeOfWriteData >= keyUpdateTraffic THEN "due" ELSE "time")
    /\ UNCHANGED <<countVars, keyVars>>

\* The reading of the clock and the read of the interval are one step: no
\* step of another thread depends on the order of the two.
CheckTimeInterval ==
    /\ pc = "time"
    /\ \/ /\ clock < lastKeyUpdateTime
          /\ ReturnFromWrite("SCF_ERRNO_SYSTEM_TIME_ERROR")
       \/ /\ clock >= lastKeyUpdateTime
          /\ clock - lastKeyUpdateTime < keyUpdateTime
          /\ ReturnFromWrite("SCF_SUCCESS")
       \/ /\ clock >= lastKeyUpdateTime
          /\ clock - lastKeyUpdateTime >= keyUpdateTime
          /\ Continue("due")
          /\ UNCHANGED lastRead
    /\ UNCHANGED <<countVars, keyVars>>

\* The update: when it fails the write is reported as failed, although its
\* data are sent.
WriteUpdatesKey(code) ==
    /\ pc = "due"
    /\ code \in SSLKeyUpdate
    /\ \/ /\ code = "SCF_SUCCESS"
          /\ AdaptorKeyUpdate
       \/ /\ code # "SCF_SUCCESS"
          /\ UNCHANGED <<countVars, keyVars>>
    /\ ReturnFromWrite(code)

-----------------------------------------------------------------------------
WriteStep ==
    \/ WriteUncounted
    \/ WriteOldVersion
    \/ CheckNeedKeyUpdate
    \/ CheckLength
    \/ CheckTraffic
    \/ CheckCounted
    \/ CheckTimeInterval
    \/ \E code \in SSLKeyUpdate : WriteUpdatesKey(code)

Next ==
    \/ \E now \in MinClock..MaxClock : SetClock(now)
    \/ \E enable \in BOOLEAN, time \in TimeInputs, traffic \in TrafficInputs :
         SetKeyAutoUpdateParam(enable, time, traffic)
    \/ \E field \in setting.left : SetParam(field)
    \/ \E code \in SSLKeyUpdate : ObjKeyUpdate(code)
    \/ \E len \in WriteLens : SSLWrite(len)
    \/ \E code \in {"SCF_SSL_ERR_WANT_WRITE", "SCF_SSL_ERR_WRITE"} : SSLWriteFails(code)
    \/ WriteStep

Spec == Init /\ [][Next]_vars

-----------------------------------------------------------------------------
(* Properties.                                                             *)

\* Every variable has its type; the parameters in use are always in the
\* documented ranges, also after SCF_SetKeyAutoUpdateParam has refused some,
\* and the write counter stays a 64-bit number.
TypeOK ==
    /\ isNeedKeyUpdate \in BOOLEAN
    /\ keyUpdateTime \in MinTime..MaxTime
    /\ keyUpdateTraffic \in MinTraffic..U64Max
    /\ totalSizeOfWriteData \in 0..U64Max
    /\ lastKeyUpdateTime \in {0} \cup MinClock..MaxClock
    /\ version \in {"TLSv1.2", "TLSv1.3"}
    /\ clock \in MinClock..MaxClock
    /\ setting \in [enable : BOOLEAN, time : MinTime..MaxTime, traffic : MinTraffic..U64Max,
                    left : SUBSET {"isNeedKeyUpdate", "keyUpdateTime", "keyUpdateTraffic"}]
    /\ pc \in {"idle", "sent", "first", "second", "third", "time", "due"}
    /\ writeLen \in WriteLens \cup {0}
    /\ ret \in {"SCF_SUCCESS", "SCF_SSL_ERR_WANT_WRITE", "SCF_SSL_ERR_WRITE",
                "SCF_SSL_ERR_IS_INIT_FINISHED", "SCF_SSL_ERR_KEY_UPDATE",
                "SCF_ERRNO_SYSTEM_TIME_ERROR"}
    /\ keyBytes \in 0..MaxKeyBytes
    /\ keySince \in MinClock..MaxClock
    /\ tracked \in BOOLEAN
    /\ lastRead \in MinTraffic..U64Max
    /\ owed \in BOOLEAN

\* A step in which SCF_Write, having found automatic update on and the
\* protocol to be TLS 1.3, returns success to its caller.
WriteSucceeds ==
    /\ pc \in {"time", "due"} /\ pc' = "idle"
    /\ ret' = "SCF_SUCCESS"

\* When SCF_Write returns success under automatic update, the key in use has
\* carried less than keyUpdateTraffic bytes and is younger than keyUpdateTime
\* seconds, by the thresholds as the write has read them last: whatever
\* failed updates, clock changes, saturated counters and changes of the
\* thresholds between its reads came before, as long as the counters have
\* seen the whole life of the key.
KeyLifetimeEnforced ==
    [][WriteSucceeds /\ tracked' =>
           /\ keyBytes' < lastRead
           /\ clock - keySince' < keyUpdateTime]_vars

\* What SCF_GetKeyUpdateInfo promises: a write of remainTraffic bytes or more
\* never returns success with the key unchanged, unless the threshold is
\* set in the meantime; also when the update it triggered first has failed
\* and the counter has saturated.
RemainTrafficHonest ==
    [][WriteSucceeds /\ owed => keyBytes' = 0]_vars

\* The comment on DEFAULT_KEY_UPDATE_TIME and the description of
\* keyUpdateTime: an automatic update is made when the key has been in use
\* for the interval, or has carried the traffic, at the moment the write
\* decides.  KeyUpdate writes 0 into lastKeyUpdateTime, so that after the
\* first update every write makes one.
UpdateOnlyWhenDue ==
    [][pc # "due" /\ pc' = "due" =>
           \/ keyBytes >= keyUpdateTraffic
           \/ clock - keySince >= keyUpdateTime]_vars
=============================================================================
