------------------------- MODULE PolicyConfigProofs -------------------------
(***************************************************************************)
(* Proofs about the configuration of a policy context, for every set of    *)
(* objects, verify modes, bounds, forbidden versions and cipher suites.    *)
(*                                                                         *)
(* What an SSL can negotiate holds for every application; that it keeps    *)
(* the modes of its object holds for a careful one, and rests on the       *)
(* agreement of the context with its SSL_CTX between a SetPolicy that      *)
(* succeeded and the next one.                                             *)
(***************************************************************************)
EXTENDS PolicyConfig, TLAPS

-----------------------------------------------------------------------------
(* The inductive invariant, as a conjunction of its parts.                 *)

\* The SSL of the object b was checked for a version, and its bounds and its
\* forbidden versions are still those of the check.
Checked(b) == b.ssl # None => CheckVersion(b.ssl)

Negotiable == \A o \in Objs : Checked(obj[o])

\* The SSL_CTX s has what the role and the mode promise.
Agrees(s, role, policyMode) ==
    /\ s.method = role
    /\ policyMode = "HIGH" => s.min = TLS13 /\ s.max = TLS13
    /\ policyMode # "CUSTOMER" => s.level = 2

\* A context whose policy was set agrees with its SSL_CTX.
Configured(c) ==
    /\ c.ssl # None
    /\ c.role # "NONE"
    /\ Agrees(c.ssl, c.role, c.policyMode)
    /\ c.ssl.verify = Demanded(c.verifyMode)

\* An object is made after the policy was set, with the role and the modes of
\* its context.
Copied(b) ==
    b.made => /\ policyOk
              /\ b.role = ctx.role
              /\ b.policyMode = ctx.policyMode
              /\ b.verifyMode = ctx.verifyMode

\* The SSL of an object agrees with the object.
Kept(b) ==
    b.ssl # None =>
        /\ b.made
        /\ Agrees(b.ssl, b.role, b.policyMode)
        /\ \/ b.ssl.verify = Demanded(b.verifyMode)
           \/ b.role = "SERVER" /\ b.find /\ b.session

CarefulUse ==
    /\ policyOk => Configured(ctx)
    /\ \A o \in Objs : Copied(obj[o]) /\ Kept(obj[o])
    /\ crashed # "SSL_CTX"

ConfigInv == TypeOK /\ Negotiable

CarefulInv == ConfigInv /\ CarefulUse

-----------------------------------------------------------------------------
(* Versions.                                                               *)

\* What CheckVersion lets through under a bound offers the version at which its
\* loop stops, and none that is not supported, since the loop starts at the lower
\* bound.
LEMMA CheckedOffers ==
    ASSUME NEW s \in SslCtxs, CheckVersion(s), s.min # 0 \/ s.max # 0
    PROVE  Offered(s) \cap {3, 4} # {} /\ Offered(s) \subseteq {3, 4}
<1> DEFINE min == s.min
           max == s.max
           no == s.no
<1>1. min \in Nat /\ max \in Nat /\ no \subseteq {3, 4}
  <2>1. Bounds \subseteq Nat
    BY ConfigAssumption
  <2>2. /\ min \in {0} \cup Bounds \cup {3, 4}
        /\ max \in {0} \cup Bounds \cup {4}
        /\ no \subseteq {3, 4}
    BY DEF SslCtxs, Mapped, TLS12, TLS13
  <2> HIDE DEF min, max, no
  <2>3. QED
    BY <2>1, <2>2
<1>2. \A v \in 1..4 : (min = 0 \/ min <= v) /\ (max = 0 \/ v <= max) /\ v \notin no
                         <=> v \in Offered(s)
  BY DEF Offered, TlsVersions
<1>3. Offered(s) \subseteq 1..4
  BY DEF Offered, TlsVersions
<1>4. \E v \in min..max : min..v \subseteq {3, 4} /\ v \notin no
  BY DEF CheckVersion, Mapped, TLS12, TLS13
<1> HIDE DEF min, max, no
<1>5. PICK v \in min..max : min..v \subseteq {3, 4} /\ v \notin no
  BY <1>4
<1>6. v \in Int /\ min <= v /\ v <= max
  BY <1>1
<1>7. v \in min..v /\ min \in min..v
  BY <1>1, <1>6
<1>8. v \in {3, 4} /\ min \in {3, 4}
  BY <1>5, <1>7
<1>9. v \in Offered(s)
  BY <1>2, <1>5, <1>6, <1>8
<1>10. Offered(s) \subseteq {3, 4}
  BY <1>2, <1>3, <1>8
<1>11. QED
  BY <1>8, <1>9, <1>10

\* With both bounds at TLS 1.3 it offers TLS 1.3 and nothing else.
LEMMA HighOffers ==
    ASSUME NEW s \in SslCtxs, CheckVersion(s), s.min = TLS13, s.max = TLS13
    PROVE  Offered(s) = {TLS13}
<1> USE DEF SslCtxs, Mapped, TLS12, TLS13, TlsVersions
<1>1. 4 \notin s.no
  BY DEF CheckVersion
<1>2. QED
  BY <1>1 DEF Offered

-----------------------------------------------------------------------------
(* The adaptor.                                                            *)

\* The settings of an SSL_CTX that no call but SetPolicy changes.
Fixed(s, t) ==
    /\ t.method = s.method
    /\ t.level = s.level
    /\ t.verify = s.verify

\* Writing the SSL_CTX of a context leaves the rest of it alone.
LEMMA WriteSsl ==
    ASSUME NEW c \in Ctxs, NEW s \in SslCtxs \cup {None}
    PROVE  /\ [c EXCEPT !.ssl = s] \in Ctxs
           /\ [c EXCEPT !.ssl = s].ssl = s
           /\ [c EXCEPT !.ssl = s].role = c.role
           /\ [c EXCEPT !.ssl = s].policyMode = c.policyMode
           /\ [c EXCEPT !.ssl = s].verifyMode = c.verifyMode
BY DEF Ctxs

\* The result r of setting the bounds min and max in c: the settings that
\* SetPolicy made stay, the bounds are old or new, and new ones on success.
VersionsSet(c, min, max, r) ==
    \E s \in SslCtxs :
        /\ r.c = [c EXCEPT !.ssl = s]
        /\ Fixed(c.ssl, s)
        /\ s.min \in {c.ssl.min, min}
        /\ s.max \in {c.ssl.max, max}
        /\ r.ok => s.min = min /\ s.max = max

\* SetProtocolVersion does that, whichever of its calls fails.
LEMMA ProtocolVersion ==
    ASSUME NEW c \in Ctxs, c.ssl # None,
           NEW min \in {0} \cup Bounds \cup {TLS12, TLS13},
           NEW max \in {0} \cup Bounds \cup {TLS13}, NEW forbid,
           NEW r \in SetProtocolVersion(c, min, max, forbid)
    PROVE  VersionsSet(c, min, max, r)
<1> DEFINE s == c.ssl
           s1 == [s EXCEPT !.min = min]
           s2 == [s1 EXCEPT !.max = max]
           s3 == [s2 EXCEPT !.no = @ \cup forbid]
<1>1. s \in SslCtxs
  BY DEF Ctxs
<1>2. /\ s1 \in SslCtxs /\ s1.min = min /\ s1.max = s.max /\ Fixed(s, s1)
  BY <1>1 DEF SslCtxs, Fixed
<1>3. /\ s2 \in SslCtxs /\ s2.min = min /\ s2.max = max /\ Fixed(s, s2)
  BY <1>1 DEF SslCtxs, Fixed
<1>4. ASSUME forbid \subseteq Mapped
      PROVE  /\ s3 \in SslCtxs /\ s3.min = min /\ s3.max = max /\ Fixed(s, s3)
  BY <1>1, <1>4 DEF SslCtxs, Fixed
<1>5. c = [c EXCEPT !.ssl = s]
  BY DEF Ctxs
<1> DEFINE c1 == [c EXCEPT !.ssl.min = min]
           c2 == [c1 EXCEPT !.ssl.max = max]
           c3 == [c2 EXCEPT !.ssl.no = @ \cup forbid]
<1>6. c1 = [c EXCEPT !.ssl = s1]
  BY DEF Ctxs
<1>7. c2 = [c EXCEPT !.ssl = s2]
  BY <1>6 DEF Ctxs
<1>8. c3 = [c EXCEPT !.ssl = s3]
  <2> HIDE DEF c2, s2
  <2>1. c2.ssl = s2
    BY <1>7 DEF Ctxs
  <2>2. QED
    BY <1>7, <2>1 DEF Ctxs
<1>9. r \in Fail(c) \cup Fail(c1) \cup Fail(c2)
           \cup (IF forbid \subseteq Mapped THEN Ok(c3) ELSE {})
  <2> HIDE DEF s, s1, s2, s3, c1, c2, c3
  <2>1. PICK minSet \in BoundOutcomes(min), maxSet \in BoundOutcomes(max) :
           r \in IF ~minSet THEN Fail(c)
                 ELSE IF ~maxSet THEN Fail(c1)
                 ELSE IF forbid \subseteq Mapped THEN Ok(c3)
                 ELSE Fail(c2)
    BY DEF SetProtocolVersion, c1, c2, c3
  <2>2. QED
    BY <2>1
<1> HIDE DEF s, s1, s2, s3, c1, c2, c3
<1>10. CASE r = [c |-> c, ok |-> FALSE]
  BY <1>1, <1>5, <1>10 DEF VersionsSet, Fixed, s
<1>11. CASE r = [c |-> c1, ok |-> FALSE]
  BY <1>2, <1>6, <1>11 DEF VersionsSet, s
<1>12. CASE r = [c |-> c2, ok |-> FALSE]
  BY <1>3, <1>7, <1>12 DEF VersionsSet, s
<1>13. CASE forbid \subseteq Mapped /\ r = [c |-> c3, ok |-> TRUE]
  BY <1>4, <1>8, <1>13 DEF VersionsSet, s
<1>14. QED
  BY <1>9, <1>10, <1>11, <1>12, <1>13 DEF Ok, Fail

\* A SetPolicy that succeeds leaves a context that agrees with its SSL_CTX; one
\* that fails leaves one of the right type.
LEMMA InitByMode ==
    ASSUME NEW c \in Ctxs, c.role # "NONE",
           NEW r \in InitPolicyByMode(c)
    PROVE  /\ r.ok \in BOOLEAN
           /\ r.c \in Ctxs
           /\ r.c.verifyMode = c.verifyMode
           /\ r.c.role = c.role
           /\ r.c.policyMode = c.policyMode
           /\ r.ok => r.c.ssl # None /\ Agrees(r.c.ssl, c.role, c.policyMode)
<1> DEFINE Goal(q) ==
      /\ q.ok \in BOOLEAN
      /\ q.c \in Ctxs
      /\ q.c.verifyMode = c.verifyMode
      /\ q.c.role = c.role
      /\ q.c.policyMode = c.policyMode
      /\ q.ok => q.c.ssl # None /\ Agrees(q.c.ssl, c.role, c.policyMode)
<1> SUFFICES Goal(r)
  OBVIOUS
<1>1. c.role \in Roles /\ c.policyMode \in PolicyModes
  BY DEF Ctxs
<1>2. ASSUME NEW q \in Fail(c)
      PROVE  Goal(q)
  <2>1. q.c = c /\ q.ok = FALSE
    BY DEF Fail
  <2>2. QED
    BY <2>1
<1>3. ASSUME c.policyMode = "CUSTOMER", NEW q \in Ok([c EXCEPT !.ssl = SslCtxNew(c.role)])
      PROVE  Goal(q)
  <2> DEFINE s == SslCtxNew(c.role)
  <2>1. s \in SslCtxs /\ s.method = c.role
    BY <1>1 DEF SslCtxNew, SslCtxs, NamedSuites, Mapped
  <2>2. q.c = [c EXCEPT !.ssl = s] /\ q.ok = TRUE
    BY <1>3 DEF Ok
  <2> HIDE DEF s
  <2>3. Agrees(s, c.role, c.policyMode)
    BY <1>3, <2>1 DEF Agrees
  <2>4. s # None
    BY <2>1, NullAssumption
  <2>5. /\ q.c \in Ctxs /\ q.c.ssl = s /\ q.c.role = c.role
        /\ q.c.policyMode = c.policyMode /\ q.c.verifyMode = c.verifyMode
    BY <2>1, <2>2, WriteSsl
  <2>6. QED
    BY <2>1, <2>2, <2>3, <2>4, <2>5
<1>4. ASSUME NEW min \in {TLS12, TLS13}, c.policyMode \in {"HIGH", "MIDDLE"},
             c.policyMode = "HIGH" => min = TLS13,
             NEW q \in InitSsl(c, min)
      PROVE  Goal(q)
  <2> DEFINE s == [SslCtxNew(c.role) EXCEPT !.level = 2]
             d == [c EXCEPT !.ssl = s]
  <2>1. s \in SslCtxs /\ s.method = c.role /\ s.level = 2
    BY <1>1 DEF SslCtxNew, SslCtxs, NamedSuites, Mapped
  <2>2. q \in Fail(c) \/ \E p \in SetProtocolVersion(d, min, TLS13, {}) :
                             q \in IF p.ok THEN Ok(p.c) ELSE Fail([p.c EXCEPT !.ssl = None])
    BY <1>4 DEF InitSsl
  <2> HIDE DEF s
  <2>3. s # None
    BY <2>1, NullAssumption
  <2>4. d \in Ctxs /\ d.ssl = s
    BY <2>1, WriteSsl
  <2>5. ASSUME NEW p \in SetProtocolVersion(d, min, TLS13, {}),
               q \in IF p.ok THEN Ok(p.c) ELSE Fail([p.c EXCEPT !.ssl = None])
        PROVE  Goal(q)
    <3> HIDE DEF d, Goal
    <3>1. VersionsSet(d, min, TLS13, p)
      <4>1. /\ d.ssl # None /\ min \in {0} \cup Bounds \cup {TLS12, TLS13}
            /\ TLS13 \in {0} \cup Bounds \cup {TLS13}
        BY <1>4, <2>3, <2>4
      <4>2. QED
        BY <2>4, <4>1, ProtocolVersion
    <3>2. PICK u \in SslCtxs :
               /\ p.c = [d EXCEPT !.ssl = u]
               /\ Fixed(d.ssl, u)
               /\ p.ok => u.min = min /\ u.max = TLS13
      BY <3>1 DEF VersionsSet
    <3>3. p.c = [c EXCEPT !.ssl = u]
      BY <3>2 DEF Ctxs, d
    <3>4. [p.c EXCEPT !.ssl = None] = [c EXCEPT !.ssl = None]
      BY <3>3 DEF Ctxs
    <3>5. CASE p.ok
      <4>1. q.ok = TRUE /\ q.c = [c EXCEPT !.ssl = u]
        BY <2>5, <3>3, <3>5 DEF Ok
      <4>2. Agrees(u, c.role, c.policyMode)
        BY <1>4, <2>1, <2>4, <3>2, <3>5 DEF Agrees, Fixed
      <4>3. u # None
        BY NullAssumption
      <4>4. /\ q.c \in Ctxs /\ q.c.ssl = u /\ q.c.role = c.role
            /\ q.c.policyMode = c.policyMode /\ q.c.verifyMode = c.verifyMode
        BY <4>1, WriteSsl
      <4>5. QED
        BY <4>1, <4>2, <4>3, <4>4 DEF Goal
    <3>6. CASE ~p.ok
      <4>1. q.ok = FALSE /\ q.c = [c EXCEPT !.ssl = None]
        BY <2>5, <3>4, <3>6 DEF Fail
      <4>2. /\ q.c \in Ctxs /\ q.c.ssl = None /\ q.c.role = c.role
            /\ q.c.policyMode = c.policyMode /\ q.c.verifyMode = c.verifyMode
        BY <4>1, WriteSsl
      <4>3. QED
        BY <4>1, <4>2 DEF Goal
    <3>7. QED
      BY <3>5, <3>6
  <2>6. QED
    BY <1>2, <2>2, <2>5
<1> HIDE DEF Goal
<1>5. CASE c.policyMode = "HIGH"
  BY <1>4, <1>5 DEF InitPolicyByMode
<1>6. CASE c.policyMode = "MIDDLE"
  BY <1>4, <1>6 DEF InitPolicyByMode
<1>7. CASE c.policyMode = "CUSTOMER"
  BY <1>2, <1>3, <1>7 DEF InitPolicyByMode, InitSslCustomer
<1>8. QED
  BY <1>1, <1>5, <1>6, <1>7 DEF PolicyModes

-----------------------------------------------------------------------------
(* Steps of the context.                                                   *)

\* What a call other than SetPolicy may make of the context.
Tuned(c, d) ==
    /\ d \in Ctxs
    /\ d.role = c.role /\ d.policyMode = c.policyMode /\ d.verifyMode = c.verifyMode
    /\ c.ssl = None => d.ssl = None
    /\ c.ssl # None =>
         /\ d.ssl # None
         /\ Fixed(c.ssl, d.ssl)
         /\ c.policyMode = "HIGH" /\ c.ssl.min = TLS13 /\ c.ssl.max = TLS13
              => d.ssl.min = TLS13 /\ d.ssl.max = TLS13

\* Writing one field of the SSL_CTX that is not fixed.
LEMMA TunedSsl ==
    ASSUME NEW c \in Ctxs, c.ssl # None, NEW s \in SslCtxs, Fixed(c.ssl, s),
           c.policyMode = "HIGH" /\ c.ssl.min = TLS13 /\ c.ssl.max = TLS13
              => s.min = TLS13 /\ s.max = TLS13,
           NEW f \in BOOLEAN, NEW u \in BOOLEAN
    PROVE  Tuned(c, [c EXCEPT !.find = f, !.use = u, !.ssl = s])
<1> DEFINE d == [c EXCEPT !.find = f, !.use = u, !.ssl = s]
<1>1. /\ d \in Ctxs /\ d.ssl = s
      /\ d.role = c.role /\ d.policyMode = c.policyMode /\ d.verifyMode = c.verifyMode
  BY DEF Ctxs
<1>2. s # None
  BY NullAssumption
<1> HIDE DEF d
<1>3. Tuned(c, d)
  BY <1>1, <1>2 DEF Tuned
<1>4. QED
  BY <1>3 DEF d

\* A call of the adaptor other than those of SetPolicy can have the result r.
CallResult(c, r) ==
    \/ \E min, max \in Bounds, forbid \in Forbids :
          /\ c.policyMode = "HIGH" => min = TLS13 /\ max = TLS13
          /\ r \in SetProtocolVersion(c, min, max, forbid)
    \/ \E suites \in Suites : r \in SetCipherSuites(c, suites)
    \/ \E cb \in BOOLEAN : r \in Ok([c EXCEPT !.ssl.app = cb])
    \/ \E cb \in BOOLEAN : r \in SetPskFindSessionCallback(c, cb)
    \/ \E cb \in BOOLEAN : r \in SetPskUseSessionCallback(c, cb)

\* Each of these calls tunes the context, also one that fails half way.
LEMMA AdaptorTunes ==
    ASSUME NEW c \in Ctxs, c.ssl # None, NEW r, CallResult(c, r)
    PROVE  Tuned(c, r.c)
<1> DEFINE s == c.ssl
<1>1. s \in SslCtxs /\ c.find \in BOOLEAN /\ c.use \in BOOLEAN
  BY DEF Ctxs
<1>2. Tuned(c, c)
  BY DEF Tuned, Fixed
<1>3. ASSUME NEW t \in SslCtxs
      PROVE  [c EXCEPT !.ssl = t] = [c EXCEPT !.find = c.find, !.use = c.use, !.ssl = t]
  BY DEF Ctxs
<1> DEFINE Sound(t) ==
      /\ Fixed(c.ssl, t)
      /\ c.policyMode = "HIGH" /\ c.ssl.min = TLS13 /\ c.ssl.max = TLS13
           => t.min = TLS13 /\ t.max = TLS13
<1>4. ASSUME NEW t \in SslCtxs, Sound(t), NEW f \in BOOLEAN, NEW u \in BOOLEAN
      PROVE  Tuned(c, [c EXCEPT !.find = f, !.use = u, !.ssl = t])
  BY <1>4, TunedSsl
<1>5. ASSUME NEW t \in SslCtxs, Sound(t)
      PROVE  Tuned(c, [c EXCEPT !.ssl = t])
  <2>1. Tuned(c, [c EXCEPT !.find = c.find, !.use = c.use, !.ssl = t])
    BY <1>1, <1>4, <1>5
  <2>2. QED
    BY <1>3, <2>1
<1>6. CASE \E min, max \in Bounds, forbid \in Forbids :
              /\ c.policyMode = "HIGH" => min = TLS13 /\ max = TLS13
              /\ r \in SetProtocolVersion(c, min, max, forbid)
  <2>1. PICK min \in Bounds, max \in Bounds, forbid \in Forbids :
              /\ c.policyMode = "HIGH" => min = TLS13 /\ max = TLS13
              /\ r \in SetProtocolVersion(c, min, max, forbid)
    BY <1>6
  <2>2. /\ min \in {0} \cup Bounds \cup {TLS12, TLS13}
        /\ max \in {0} \cup Bounds \cup {TLS13}
    OBVIOUS
  <2>3. VersionsSet(c, min, max, r)
    BY <2>1, <2>2, ProtocolVersion
  <2>4. PICK t \in SslCtxs :
           /\ r.c = [c EXCEPT !.ssl = t]
           /\ Fixed(c.ssl, t)
           /\ t.min \in {c.ssl.min, min}
           /\ t.max \in {c.ssl.max, max}
    BY <2>3 DEF VersionsSet
  <2>5. Sound(t)
    BY <2>1, <2>4
  <2>6. QED
    BY <1>5, <2>4, <2>5
<1>7. CASE \E suites \in Suites : r \in SetCipherSuites(c, suites)
  <2>1. PICK suites \in Suites : r \in SetCipherSuites(c, suites)
    BY <1>7
  <2> DEFINE t == [s EXCEPT !.suites = suites \cap NamedSuites]
  <2>2. r.c = c \/ (suites \cap NamedSuites # {} /\ r.c = [c EXCEPT !.ssl = t])
    BY <2>1 DEF SetCipherSuites, Ok, Fail, Ctxs
  <2>3. CASE suites \cap NamedSuites # {} /\ r.c = [c EXCEPT !.ssl = t]
    <3>1. t \in SslCtxs /\ Sound(t)
      BY <1>1, <2>3 DEF SslCtxs, Fixed
    <3> HIDE DEF t, Sound
    <3>2. QED
      BY <1>5, <2>3, <3>1
  <2>4. QED
    BY <1>2, <2>2, <2>3
<1>8. CASE \E cb \in BOOLEAN : r \in Ok([c EXCEPT !.ssl.app = cb])
  <2>1. PICK cb \in BOOLEAN : r \in Ok([c EXCEPT !.ssl.app = cb])
    BY <1>8
  <2> DEFINE t == [s EXCEPT !.app = cb]
  <2>2. r.c = [c EXCEPT !.ssl = t]
    BY <2>1 DEF Ok, Ctxs
  <2>3. t \in SslCtxs /\ Sound(t)
    BY <1>1 DEF SslCtxs, Fixed
  <2> HIDE DEF t, Sound
  <2>4. QED
    BY <1>5, <2>2, <2>3
<1>9. CASE \E cb \in BOOLEAN : r \in SetPskFindSessionCallback(c, cb)
  <2>1. PICK cb \in BOOLEAN : r \in SetPskFindSessionCallback(c, cb)
    BY <1>9
  <2> DEFINE t == [s EXCEPT !.find = cb]
  <2>2. r.c = [c EXCEPT !.find = cb, !.ssl.find = cb]
    <3> DEFINE d == [c EXCEPT !.find = cb, !.ssl.find = cb]
    <3>1. r \in Ok(d)
      BY <2>1 DEF SetPskFindSessionCallback
    <3> HIDE DEF d
    <3>2. r.c = d
      BY <3>1 DEF Ok
    <3>3. QED
      BY <3>2 DEF d
  <2>3. r.c = [c EXCEPT !.find = cb, !.use = c.use, !.ssl = t]
    BY <2>2 DEF Ctxs
  <2>4. t \in SslCtxs /\ Sound(t)
    BY <1>1 DEF SslCtxs, Fixed
  <2> HIDE DEF t, Sound
  <2>5. Tuned(c, [c EXCEPT !.find = cb, !.use = c.use, !.ssl = t])
    BY <1>1, <1>4, <2>4
  <2>6. QED
    BY <2>3, <2>5
<1>10. CASE \E cb \in BOOLEAN : r \in SetPskUseSessionCallback(c, cb)
  <2>1. PICK cb \in BOOLEAN : r \in SetPskUseSessionCallback(c, cb)
    BY <1>10
  <2> DEFINE t == [s EXCEPT !.use = cb]
  <2>2. r.c = [c EXCEPT !.use = cb, !.ssl.use = cb]
    <3> DEFINE d == [c EXCEPT !.use = cb, !.ssl.use = cb]
    <3>1. r \in Ok(d)
      BY <2>1 DEF SetPskUseSessionCallback
    <3> HIDE DEF d
    <3>2. r.c = d
      BY <3>1 DEF Ok
    <3>3. QED
      BY <3>2 DEF d
  <2>3. r.c = [c EXCEPT !.find = c.find, !.use = cb, !.ssl = t]
    BY <2>2 DEF Ctxs
  <2>4. t \in SslCtxs /\ Sound(t)
    BY <1>1 DEF SslCtxs, Fixed
  <2> HIDE DEF t, Sound
  <2>5. QED
    BY <1>1, <1>4, <2>3, <2>4
<1>11. QED
  BY <1>6, <1>7, <1>8, <1>9, <1>10 DEF CallResult

\* SetPolicy: whatever it leaves is of the right type and when it
\* returns success the context agrees with its SSL_CTX.
LEMMA PolicySet ==
    ASSUME ctx \in Ctxs,
           NEW role \in Roles, NEW verifyMode \in VerifyModes, NEW policyMode \in PolicyModes,
           SetPolicy(role, verifyMode, policyMode)
    PROVE  /\ ctx' \in Ctxs
           /\ policyOk' \in BOOLEAN
           /\ policyOk' => Configured(ctx')
<1> DEFINE c == [ctx EXCEPT !.role = role, !.verifyMode = verifyMode, !.policyMode = policyMode]
           passed == PassedVerifyMode(verifyMode)
<1>1. /\ c \in Ctxs /\ c.role = role /\ c.verifyMode = verifyMode /\ c.policyMode = policyMode
      /\ c.ssl = ctx.ssl
  BY DEF Ctxs
<1>2. role # "NONE"
  BY DEF SetPolicy
<1>3. PICK r \in InitPolicyByMode(c) :
         \E q \in IF r.ok THEN SetVerifyMode(r.c, passed) ELSE {r} :
            ctx' = q.c /\ policyOk' = q.ok
  BY DEF SetPolicy
<1> HIDE DEF c, passed
<1>4. PICK q \in IF r.ok THEN SetVerifyMode(r.c, passed) ELSE {r} :
         ctx' = q.c /\ policyOk' = q.ok
  BY <1>3
<1>5. /\ r.ok \in BOOLEAN
      /\ r.c \in Ctxs
      /\ r.c.verifyMode = c.verifyMode
      /\ r.c.role = c.role
      /\ r.c.policyMode = c.policyMode
      /\ r.ok => r.c.ssl # None /\ Agrees(r.c.ssl, c.role, c.policyMode)
  BY <1>1, <1>2, InitByMode
<1>6. CASE ~r.ok
  <2>1. ctx' = r.c /\ policyOk' = FALSE
    BY <1>4, <1>5, <1>6
  <2>2. QED
    BY <1>5, <2>1
<1>7. CASE r.ok
  <2> DEFINE d == r.c
             s == d.ssl
             t == [s EXCEPT !.verify = passed \cap {"PEER", "FAIL_IF_NO_PEER_CERT"}]
  <2>1. s # None /\ s \in SslCtxs
    BY <1>5, <1>7 DEF Ctxs
  <2>2. q \in Ok([d EXCEPT !.ssl.verify = passed \cap {"PEER", "FAIL_IF_NO_PEER_CERT"}])
    BY <1>4, <1>7, <2>1 DEF SetVerifyMode
  <2>3. ctx' = [d EXCEPT !.ssl = t] /\ policyOk' = TRUE
    BY <1>4, <2>2 DEF Ok
  <2>4. passed \cap {"PEER", "FAIL_IF_NO_PEER_CERT"} = Demanded(verifyMode)
    BY DEF passed, PassedVerifyMode, Demanded
  <2>5. /\ t \in SslCtxs /\ t.verify = Demanded(verifyMode)
        /\ t.method = s.method /\ t.min = s.min /\ t.max = s.max /\ t.level = s.level
    BY <2>1, <2>4 DEF SslCtxs
  <2> HIDE DEF t, d
  <2>6. /\ ctx' \in Ctxs /\ ctx'.ssl = t /\ ctx'.role = d.role
        /\ ctx'.policyMode = d.policyMode /\ ctx'.verifyMode = d.verifyMode
    BY <1>5, <2>3, <2>5, WriteSsl DEF d
  <2>7. t # None
    BY <2>5, NullAssumption
  <2>8. Agrees(t, role, policyMode)
    BY <1>1, <1>5, <1>7, <2>5 DEF Agrees, d
  <2>9. Configured(ctx')
    BY <1>1, <1>2, <1>5, <2>5, <2>6, <2>7, <2>8 DEF Configured, d
  <2>10. QED
    BY <2>3, <2>6, <2>9
<1>8. QED
  BY <1>5, <1>6, <1>7

\* Every other step that changes the context tunes it; a call of a null pointer
\* is the only one that crashes, and finds no SSL_CTX.
LEMMA ContextTuned ==
    ASSUME ctx \in Ctxs,
           \/ \E min, max \in Bounds, forbid \in Forbids : SCF_SetProtocolVersion(min, max, forbid)
           \/ \E suites \in Suites : SCF_SetCipherSuites(suites)
           \/ \E cb \in BOOLEAN :
                 \/ SetAppVerifyCallback(cb)
                 \/ SCF_SetPskFindSessionCallback(cb)
                 \/ SCF_SetPskUseSessionCallback(cb)
    PROVE  /\ MayConfigure
           /\ UNCHANGED <<obj, policyOk>>
           /\ \/ Tuned(ctx, ctx') /\ UNCHANGED crashed
              \/ UNCHANGED ctx /\ ctx.ssl = None /\ crashed' = "SSL_CTX"
<1>1. Tuned(ctx, ctx)
  BY DEF Tuned, Fixed
<1>2. ASSUME NEW results, Apply(results),
             \A r \in results : r.c = ctx \/ (ctx.ssl # None /\ CallResult(ctx, r))
      PROVE  UNCHANGED <<obj, policyOk>> /\ Tuned(ctx, ctx') /\ UNCHANGED crashed
  <2>1. PICK r \in results : ctx' = r.c
    BY <1>2 DEF Apply
  <2>2. Tuned(ctx, r.c)
    BY <1>1, <1>2, AdaptorTunes
  <2>3. QED
    BY <1>2, <2>1, <2>2 DEF Apply
<1>3. ASSUME NEW min \in Bounds, NEW max \in Bounds, NEW forbid \in Forbids,
             SCF_SetProtocolVersion(min, max, forbid)
      PROVE  /\ MayConfigure /\ UNCHANGED <<obj, policyOk>>
             /\ Tuned(ctx, ctx') /\ UNCHANGED crashed
  <2>1. /\ MayConfigure
        /\ VersionAllowed(min, max)
        /\ Apply(SetProtocolVersion(ctx, min, max, forbid))
    BY <1>3 DEF SCF_SetProtocolVersion
  <2>2. CASE ctx.ssl = None
    <3>1. \A r \in SetProtocolVersion(ctx, min, max, forbid) : r.c = ctx
      BY <2>2 DEF SetProtocolVersion, Fail
    <3>2. QED
      BY <1>2, <2>1, <3>1
  <2>3. CASE ctx.ssl # None
    <3>1. \A r \in SetProtocolVersion(ctx, min, max, forbid) : CallResult(ctx, r)
      BY <2>1 DEF VersionAllowed, CallResult
    <3>2. QED
      BY <1>2, <2>1, <2>3, <3>1
  <2>4. QED
    BY <2>2, <2>3
<1>4. ASSUME NEW suites \in Suites, SCF_SetCipherSuites(suites)
      PROVE  /\ MayConfigure /\ UNCHANGED <<obj, policyOk>>
             /\ \/ Tuned(ctx, ctx') /\ UNCHANGED crashed
                \/ UNCHANGED ctx /\ ctx.ssl = None /\ crashed' = "SSL_CTX"
  <2>1. MayConfigure /\ ((ctx.ssl # None /\ Apply(SetCipherSuites(ctx, suites))) \/ Crash)
    BY <1>4 DEF SCF_SetCipherSuites
  <2>2. CASE ctx.ssl # None /\ Apply(SetCipherSuites(ctx, suites))
    <3>1. \A r \in SetCipherSuites(ctx, suites) : CallResult(ctx, r)
      BY DEF CallResult
    <3>2. QED
      BY <1>2, <2>1, <2>2, <3>1
  <2>3. CASE Crash
    BY <2>1, <2>3 DEF Crash
  <2>4. QED
    BY <2>1, <2>2, <2>3
<1>5. ASSUME NEW cb \in BOOLEAN, SetAppVerifyCallback(cb)
      PROVE  /\ MayConfigure /\ UNCHANGED <<obj, policyOk>>
             /\ \/ Tuned(ctx, ctx') /\ UNCHANGED crashed
                \/ UNCHANGED ctx /\ ctx.ssl = None /\ crashed' = "SSL_CTX"
  <2>1. /\ MayConfigure
        /\ (ctx.ssl # None /\ Apply(Ok([ctx EXCEPT !.ssl.app = cb]))) \/ Crash
    BY <1>5 DEF SetAppVerifyCallback
  <2>2. CASE ctx.ssl # None /\ Apply(Ok([ctx EXCEPT !.ssl.app = cb]))
    <3>1. \A r \in Ok([ctx EXCEPT !.ssl.app = cb]) : CallResult(ctx, r)
      BY DEF CallResult
    <3>2. QED
      BY <1>2, <2>1, <2>2, <3>1
  <2>3. CASE Crash
    BY <2>1, <2>3 DEF Crash
  <2>4. QED
    BY <2>1, <2>2, <2>3
<1>6. ASSUME NEW cb \in BOOLEAN, SCF_SetPskFindSessionCallback(cb)
      PROVE  /\ MayConfigure /\ UNCHANGED <<obj, policyOk>>
             /\ Tuned(ctx, ctx') /\ UNCHANGED crashed
  <2>1. MayConfigure /\ Apply(SetPskFindSessionCallback(ctx, cb))
    BY <1>6 DEF SCF_SetPskFindSessionCallback
  <2>2. ctx.ssl = None => \A r \in SetPskFindSessionCallback(ctx, cb) : r.c = ctx
    BY DEF SetPskFindSessionCallback, Fail
  <2>3. \A r \in SetPskFindSessionCallback(ctx, cb) : CallResult(ctx, r)
    BY DEF CallResult
  <2>4. QED
    BY <1>2, <2>1, <2>2, <2>3
<1>7. ASSUME NEW cb \in BOOLEAN, SCF_SetPskUseSessionCallback(cb)
      PROVE  /\ MayConfigure /\ UNCHANGED <<obj, policyOk>>
             /\ Tuned(ctx, ctx') /\ UNCHANGED crashed
  <2>1. MayConfigure /\ Apply(SetPskUseSessionCallback(ctx, cb))
    BY <1>7 DEF SCF_SetPskUseSessionCallback
  <2>2. ctx.ssl = None => \A r \in SetPskUseSessionCallback(ctx, cb) : r.c = ctx
    BY DEF SetPskUseSessionCallback, Fail
  <2>3. \A r \in SetPskUseSessionCallback(ctx, cb) : CallResult(ctx, r)
    BY DEF CallResult
  <2>4. QED
    BY <1>2, <2>1, <2>2, <2>3
<1>8. QED
  BY <1>3, <1>4, <1>5, <1>6, <1>7

-----------------------------------------------------------------------------
(* Steps of the objects.                                                   *)

\* The step writes b to the object o and leaves the rest alone.
Writes(o, b) ==
    /\ obj' = [obj EXCEPT ![o] = b]
    /\ UNCHANGED <<ctx, policyOk, crashed>>

\* The object b may be written: what every application can rely on, and what a
\* careful one can.
Good(b) ==
    /\ b \in PolicyObjs
    /\ Checked(b)
    /\ Careful /\ CarefulUse => Copied(b) /\ Kept(b)

\* An object without SSL is as good as its copy of the context.
LEMMA CreateGood ==
    ASSUME ConfigInv, NEW o \in Objs, CreatePolicyObj(o)
    PROVE  \E b : Writes(o, b) /\ Good(b)
<1> DEFINE b == [NoObj EXCEPT !.made = TRUE, !.role = ctx.role, !.policyMode = ctx.policyMode,
                              !.verifyMode = ctx.verifyMode, !.isSetRole = ctx.isSetRole,
                              !.find = ctx.find, !.use = ctx.use]
<1>1. /\ ctx.role \in Roles /\ ctx.policyMode \in PolicyModes
      /\ ctx.verifyMode \in SUBSET VerifyBits /\ ctx.isSetRole = FALSE
      /\ ctx.find \in BOOLEAN /\ ctx.use \in BOOLEAN
  <2>1. ctx \in Ctxs /\ VerifyModes \subseteq SUBSET VerifyBits
    BY ConfigAssumption DEF ConfigInv, TypeOK
  <2>2. QED
    BY <2>1 DEF Ctxs, VerifyBits
<1>2. NoObj \in PolicyObjs /\ NoObj.ssl = None
  BY DEF NoObj, PolicyObjs, Roles, PolicyModes, VerifyBits
<1>3. Writes(o, b)
  BY DEF CreatePolicyObj, Writes
<1>4. /\ b \in PolicyObjs /\ b.ssl = None
      /\ b.role = ctx.role /\ b.policyMode = ctx.policyMode /\ b.verifyMode = ctx.verifyMode
  BY <1>1, <1>2 DEF PolicyObjs
<1> HIDE DEF b
<1>5. Careful => policyOk
  BY DEF CreatePolicyObj, MayUse
<1>6. Good(b)
  BY <1>4, <1>5 DEF Good, Checked, Copied, Kept
<1>7. QED
  BY <1>3, <1>6

\* Freeing an object leaves nothing of it.
LEMMA FreeGood ==
    ASSUME ConfigInv, NEW o \in Objs, FreePolicyObj(o)
    PROVE  \E b : Writes(o, b) /\ Good(b)
<1>1. NoObj \in PolicyObjs /\ NoObj.ssl = None /\ NoObj.made = FALSE
  BY DEF NoObj, PolicyObjs, Roles, PolicyModes, VerifyBits
<1>2. Good(NoObj)
  BY <1>1 DEF Good, Checked, Copied, Kept
<1>3. Writes(o, NoObj)
  BY DEF FreePolicyObj, Writes
<1>4. QED
  BY <1>2, <1>3

\* An SSL that is new is a copy of the SSL_CTX that was checked for a version
\* just now; for a careful application it agrees with the context, and so with
\* the object.
LEMMA SetFdGood ==
    ASSUME ConfigInv, NEW o \in Objs, SetFd(o)
    PROVE  \E b : Writes(o, b) /\ Good(b)
<1> DEFINE a == obj[o]
           s == IF a.ssl = None THEN ctx.ssl ELSE a.ssl
           b == [a EXCEPT !.ssl = s, !.fd = TRUE]
<1>1. a \in PolicyObjs /\ ctx \in Ctxs /\ Checked(a) /\ obj \in [Objs -> PolicyObjs]
  BY DEF ConfigInv, TypeOK, Negotiable
<1>2. /\ a.made
      /\ a.ssl = None => ctx.ssl # None /\ CheckVersion(ctx.ssl)
      /\ UNCHANGED <<ctx, policyOk, crashed>>
      /\ obj' = [obj EXCEPT ![o].ssl = IF @ = None THEN ctx.ssl ELSE @, ![o].fd = TRUE]
  BY DEF SetFd, FdAccepted
<1>3. obj' = [obj EXCEPT ![o] = b]
  BY <1>1, <1>2
<1>4. a.ssl \in SslCtxs \cup {None} /\ ctx.ssl \in SslCtxs \cup {None}
  BY <1>1 DEF PolicyObjs, Ctxs
<1>5. s \in SslCtxs
  BY <1>2, <1>4
<1> HIDE DEF s, a
<1>6. /\ b \in PolicyObjs /\ b.ssl = s /\ b.made = a.made /\ b.role = a.role
      /\ b.policyMode = a.policyMode /\ b.verifyMode = a.verifyMode
      /\ b.find = a.find /\ b.session = a.session
  BY <1>1, <1>5 DEF PolicyObjs
<1> HIDE DEF b
<1>7. Checked(b)
  <2>1. CASE a.ssl = None
    <3>1. s = ctx.ssl /\ ctx.ssl # None
      BY <1>2, <2>1 DEF s
    <3>2. QED
      BY <1>2, <1>6, <2>1, <3>1 DEF Checked
  <2>2. CASE a.ssl # None
    BY <1>1, <1>6, <2>2 DEF Checked, s
  <2>3. QED
    BY <2>1, <2>2
<1>8. ASSUME CarefulUse
      PROVE  Copied(b) /\ Kept(b)
  <2>1. Copied(a) /\ Kept(a) /\ (policyOk => Configured(ctx))
    BY <1>8 DEF CarefulUse, a
  <2>2. Copied(b)
    BY <1>6, <2>1 DEF Copied
  <2>3. CASE a.ssl = None
    <3>1. s = ctx.ssl
      BY <2>3 DEF s
    <3>2. policyOk /\ a.role = ctx.role /\ a.policyMode = ctx.policyMode
          /\ a.verifyMode = ctx.verifyMode
      BY <1>2, <2>1 DEF Copied
    <3>3. Agrees(s, a.role, a.policyMode) /\ s.verify = Demanded(a.verifyMode)
      BY <2>1, <3>1, <3>2 DEF Configured
    <3>4. QED
      BY <1>2, <1>6, <2>2, <3>3 DEF Kept
  <2>4. CASE a.ssl # None
    <3>1. s = a.ssl
      BY <2>4 DEF s
    <3>2. QED
      BY <1>6, <2>1, <2>2, <2>4, <3>1 DEF Kept
  <2>5. QED
    BY <2>3, <2>4
<1>9. Good(b)
  BY <1>6, <1>7, <1>8 DEF Good
<1>10. Writes(o, b)
  BY <1>2, <1>3 DEF Writes
<1>11. QED
  BY <1>9, <1>10

\* One call of SSL_accept: where it turns the verification off, the callback has
\* returned a session, if the application is careful.
LEMMA AcceptGood ==
    ASSUME ConfigInv, NEW o \in Objs, Accept(o)
    PROVE  \E b : Writes(o, b) /\ Good(b)
<1> DEFINE a == obj[o]
<1>1. a \in PolicyObjs /\ Checked(a) /\ obj \in [Objs -> PolicyObjs]
  BY DEF ConfigInv, TypeOK, Negotiable
<1>2. CarefulUse => Copied(a) /\ Kept(a)
  BY DEF CarefulUse
<1>3. /\ a.made /\ a.ssl # None /\ a.role = "SERVER"
      /\ UNCHANGED <<ctx, policyOk, crashed>>
  BY DEF Accept
<1>4. PICK h \in HandshakeOutcomes(o) :
         \/ obj' = [obj EXCEPT ![o].isSetRole = TRUE, ![o].handshake = h]
         \/ \E found \in PskFindSessionCbWrapper(o) :
              obj' = [obj EXCEPT ![o].isSetRole = TRUE, ![o].handshake = h,
                                 ![o].ssl.verify = {}, ![o].session = (found = "session")]
  BY DEF Accept
<1>5. h \in {"no", "done", "failed"}
  BY DEF HandshakeOutcomes
<1>6. CASE obj' = [obj EXCEPT ![o].isSetRole = TRUE, ![o].handshake = h]
  <2> DEFINE b == [a EXCEPT !.isSetRole = TRUE, !.handshake = h]
  <2>1. obj' = [obj EXCEPT ![o] = b]
    BY <1>1, <1>6
  <2> HIDE DEF a
  <2>2. /\ b \in PolicyObjs /\ b.ssl = a.ssl /\ b.made = a.made /\ b.role = a.role
        /\ b.policyMode = a.policyMode /\ b.verifyMode = a.verifyMode
        /\ b.find = a.find /\ b.session = a.session
    BY <1>1, <1>5 DEF PolicyObjs
  <2> HIDE DEF b
  <2>3. Good(b)
    BY <1>1, <1>2, <2>2 DEF Good, Checked, Copied, Kept
  <2>4. Writes(o, b)
    BY <1>3, <2>1 DEF Writes
  <2>5. QED
    BY <2>3, <2>4
<1>7. CASE \E found \in PskFindSessionCbWrapper(o) :
              obj' = [obj EXCEPT ![o].isSetRole = TRUE, ![o].handshake = h,
                                 ![o].ssl.verify = {}, ![o].session = (found = "session")]
  <2>1. PICK found \in PskFindSessionCbWrapper(o) :
              obj' = [obj EXCEPT ![o].isSetRole = TRUE, ![o].handshake = h,
                                 ![o].ssl.verify = {}, ![o].session = (found = "session")]
    BY <1>7
  <2>2. a.find /\ (Careful => found = "session")
    BY DEF PskFindSessionCbWrapper, CallbackResults
  <2> DEFINE session == (found = "session")
             s == [a.ssl EXCEPT !.verify = {}]
             b == [a EXCEPT !.isSetRole = TRUE, !.handshake = h, !.ssl = s, !.session = session]
  <2> HIDE DEF session
  <2>3. session \in BOOLEAN /\ (Careful => session)
    BY <2>2 DEF session
  <2>4. obj' = [obj EXCEPT ![o] = b]
    BY <1>1, <2>1 DEF session
  <2>5. a.ssl \in SslCtxs
    BY <1>1, <1>3 DEF PolicyObjs
  <2> HIDE DEF a
  <2>6. /\ s \in SslCtxs /\ s.min = a.ssl.min /\ s.max = a.ssl.max
        /\ s.no = a.ssl.no /\ s.method = a.ssl.method /\ s.level = a.ssl.level
    BY <2>5 DEF SslCtxs
  <2> HIDE DEF s
  <2>7. /\ b \in PolicyObjs /\ b.ssl = s /\ b.made = a.made /\ b.role = a.role
        /\ b.policyMode = a.policyMode /\ b.verifyMode = a.verifyMode
        /\ b.find = a.find /\ b.session = session
    BY <1>1, <1>5, <2>3, <2>6 DEF PolicyObjs
  <2> HIDE DEF b
  <2>8. Checked(b)
    BY <1>1, <1>3, <2>6, <2>7 DEF Checked, CheckVersion
  <2>9. ASSUME Careful, CarefulUse
        PROVE  Copied(b) /\ Kept(b)
    BY <1>2, <1>3, <2>2, <2>3, <2>6, <2>7, <2>9 DEF Copied, Kept, Agrees
  <2>10. Good(b)
    BY <2>7, <2>8, <2>9 DEF Good
  <2>11. Writes(o, b)
    BY <1>3, <2>4 DEF Writes
  <2>12. QED
    BY <2>10, <2>11
<1>8. QED
  BY <1>4, <1>6, <1>7

\* One call of SSL_connect leaves the SSL as it is.
LEMMA ConnectGood ==
    ASSUME ConfigInv, NEW o \in Objs, Connect(o)
    PROVE  \E b : Writes(o, b) /\ Good(b)
<1> DEFINE a == obj[o]
<1>1. a \in PolicyObjs /\ Checked(a) /\ obj \in [Objs -> PolicyObjs]
  BY DEF ConfigInv, TypeOK, Negotiable
<1>2. CarefulUse => Copied(a) /\ Kept(a)
  BY DEF CarefulUse
<1>3. a.made /\ a.role = "CLIENT" /\ UNCHANGED <<ctx, policyOk, crashed>>
  BY DEF Connect
<1>4. PICK h \in HandshakeOutcomes(o) :
         \E v \in {a.session} \cup
                  {TRUE : r \in IF a.ssl.use THEN PskUseSessionCbWrapper(o) ELSE {}} :
            obj' = [obj EXCEPT ![o].isSetRole = TRUE, ![o].handshake = h, ![o].session = v]
  BY DEF Connect
<1>5. h \in {"no", "done", "failed"}
  BY DEF HandshakeOutcomes
<1>6. PICK v \in {a.session} \cup
                 {TRUE : r \in IF a.ssl.use THEN PskUseSessionCbWrapper(o) ELSE {}} :
         obj' = [obj EXCEPT ![o].isSetRole = TRUE, ![o].handshake = h, ![o].session = v]
  BY <1>4
<1>7. v \in BOOLEAN
  BY <1>1 DEF PolicyObjs
<1> DEFINE b == [a EXCEPT !.isSetRole = TRUE, !.handshake = h, !.session = v]
<1>8. obj' = [obj EXCEPT ![o] = b]
  BY <1>1, <1>6
<1> HIDE DEF a
<1>9. /\ b \in PolicyObjs /\ b.ssl = a.ssl /\ b.made = a.made /\ b.role = a.role
      /\ b.policyMode = a.policyMode /\ b.verifyMode = a.verifyMode /\ b.find = a.find
  BY <1>1, <1>5, <1>7 DEF PolicyObjs
<1> HIDE DEF b
<1>10. Good(b)
  BY <1>1, <1>2, <1>3, <1>9 DEF Good, Checked, Copied, Kept
<1>11. Writes(o, b)
  BY <1>3, <1>8 DEF Writes
<1>12. QED
  BY <1>10, <1>11

-----------------------------------------------------------------------------
(* The invariant.                                                          *)

\* The context is made with nothing in it.
LEMMA InitConfig == Init => CarefulInv
<1> SUFFICES ASSUME Init PROVE CarefulInv
  OBVIOUS
<1>1. NoObj \in PolicyObjs /\ NoObj.ssl = None /\ NoObj.made = FALSE
  BY DEF NoObj, PolicyObjs, Roles, PolicyModes, VerifyBits
<1>2. \A o \in Objs : obj[o] = NoObj
  BY DEF Init
<1>3. ctx \in Ctxs /\ ctx.ssl = None
  BY DEF Init, Ctxs, Roles, PolicyModes
<1>4. TypeOK
  BY <1>1, <1>3 DEF TypeOK, Init
<1>5. Negotiable
  BY <1>1, <1>2, <1>3 DEF Negotiable, Checked
<1>6. CarefulUse
  BY <1>1, <1>2 DEF CarefulUse, Copied, Kept, Init
<1>7. QED
  BY <1>4, <1>5, <1>6 DEF CarefulInv, ConfigInv

\* A step that writes a good object keeps the invariant.
LEMMA WritesKeep ==
    ASSUME ConfigInv, NEW o \in Objs, NEW b, Writes(o, b), Good(b)
    PROVE  ConfigInv' /\ (Careful /\ CarefulUse => CarefulUse')
<1>1. obj \in [Objs -> PolicyObjs] /\ b \in PolicyObjs
  BY DEF ConfigInv, TypeOK, Good
<1>2. /\ obj' \in [Objs -> PolicyObjs]
      /\ \A p \in Objs : obj'[p] = IF p = o THEN b ELSE obj[p]
  BY <1>1 DEF Writes
<1>3. TypeOK'
  BY <1>2 DEF ConfigInv, TypeOK, Writes
<1>4. Negotiable'
  BY <1>2 DEF ConfigInv, Negotiable, Writes, Good, Checked
<1>5. ASSUME Careful, CarefulUse
      PROVE  CarefulUse'
  <2>1. Copied(b) /\ Kept(b)
    BY <1>5 DEF Good
  <2>2. \A p \in Objs : Copied(obj'[p]) /\ Kept(obj'[p])
    BY <1>2, <1>5, <2>1 DEF CarefulUse
  <2>3. \A p \in Objs : Copied(obj[p])' /\ Kept(obj[p])'
    BY <2>2 DEF Writes, Copied, Kept
  <2>4. QED
    BY <1>5, <2>3 DEF CarefulUse, Writes, Configured
<1>6. QED
  BY <1>3, <1>4, <1>5 DEF ConfigInv

\* A careful application sets the policy while there are no objects.
LEMMA SetPolicyKeeps ==
    ASSUME ConfigInv, NEW role \in Roles, NEW verifyMode \in VerifyModes,
           NEW policyMode \in PolicyModes, SetPolicy(role, verifyMode, policyMode)
    PROVE  ConfigInv' /\ (Careful /\ CarefulUse => CarefulUse')
<1>1. ctx \in Ctxs
  BY DEF ConfigInv, TypeOK
<1>2. /\ ctx' \in Ctxs
      /\ policyOk' \in BOOLEAN
      /\ policyOk' => Configured(ctx')
  BY <1>1, PolicySet
<1>3. UNCHANGED <<obj, crashed>> /\ (Careful => \A o \in Objs : ~obj[o].made)
  BY DEF SetPolicy
<1>4. TypeOK'
  BY <1>2, <1>3 DEF ConfigInv, TypeOK
<1>5. Negotiable'
  BY <1>2, <1>3 DEF ConfigInv, Negotiable, Checked
<1>6. ASSUME Careful, CarefulUse
      PROVE  CarefulUse'
  <2>1. \A o \in Objs : ~obj[o].made /\ obj[o].ssl = None
    BY <1>3, <1>6 DEF CarefulUse, Kept
  <2>2. \A o \in Objs : Copied(obj[o])' /\ Kept(obj[o])'
    BY <1>3, <2>1 DEF Copied, Kept
  <2>3. (policyOk => Configured(ctx))'
    BY <1>2
  <2>4. QED
    BY <1>3, <1>6, <2>2, <2>3 DEF CarefulUse
<1>7. QED
  BY <1>4, <1>5, <1>6 DEF ConfigInv

\* The other calls leave what SetPolicy made; a careful application makes them
\* only after one that succeeded, so that there is an SSL_CTX, and before any
\* object has an SSL.
LEMMA TuningKeeps ==
    ASSUME ConfigInv, MayConfigure, UNCHANGED <<obj, policyOk>>,
           \/ Tuned(ctx, ctx') /\ UNCHANGED crashed
           \/ UNCHANGED ctx /\ ctx.ssl = None /\ crashed' = "SSL_CTX"
    PROVE  ConfigInv' /\ (Careful /\ CarefulUse => CarefulUse')
<1>1. CASE Tuned(ctx, ctx') /\ UNCHANGED crashed
  <2>1. TypeOK'
    BY <1>1 DEF ConfigInv, TypeOK, Tuned
  <2>2. Negotiable'
    BY <1>1 DEF ConfigInv, Negotiable, Checked, Tuned
  <2>3. ASSUME Careful, CarefulUse
        PROVE  CarefulUse'
    <3>1. policyOk /\ Configured(ctx)
      BY <2>3 DEF MayConfigure, MayUse, CarefulUse
    <3>2. Configured(ctx')
      BY <1>1, <3>1 DEF Configured, Tuned, Fixed, Agrees
    <3>3. \A o \in Objs : Copied(obj[o])' /\ Kept(obj[o])'
      BY <1>1, <2>3 DEF CarefulUse, Copied, Kept, Tuned
    <3>4. (policyOk => Configured(ctx))'
      BY <3>2
    <3>5. QED
      BY <1>1, <2>3, <3>3, <3>4 DEF CarefulUse
  <2>4. QED
    BY <2>1, <2>2, <2>3 DEF ConfigInv
<1>2. CASE UNCHANGED ctx /\ ctx.ssl = None /\ crashed' = "SSL_CTX"
  <2>1. TypeOK' /\ Negotiable'
    BY <1>2 DEF ConfigInv, TypeOK, Negotiable, Checked
  <2>2. ~(Careful /\ CarefulUse)
    BY <1>2 DEF MayConfigure, MayUse, CarefulUse, Configured
  <2>3. QED
    BY <2>1, <2>2 DEF ConfigInv
<1>3. QED
  BY <1>1, <1>2

\* Every step keeps the invariant.
LEMMA NextConfig ==
    ASSUME ConfigInv, [Next]_vars
    PROVE  ConfigInv' /\ (Careful /\ CarefulUse => CarefulUse')
<1>1. CASE \E role \in Roles, verifyMode \in VerifyModes, policyMode \in PolicyModes :
              SetPolicy(role, verifyMode, policyMode)
  BY <1>1, SetPolicyKeeps
<1>2. CASE \/ \E min, max \in Bounds, forbid \in Forbids :
                 SCF_SetProtocolVersion(min, max, forbid)
           \/ \E suites \in Suites : SCF_SetCipherSuites(suites)
           \/ \E cb \in BOOLEAN :
                 \/ SetAppVerifyCallback(cb)
                 \/ SCF_SetPskFindSessionCallback(cb)
                 \/ SCF_SetPskUseSessionCallback(cb)
  <2>1. ctx \in Ctxs
    BY DEF ConfigInv, TypeOK
  <2>2. /\ MayConfigure
        /\ UNCHANGED <<obj, policyOk>>
        /\ \/ Tuned(ctx, ctx') /\ UNCHANGED crashed
           \/ UNCHANGED ctx /\ ctx.ssl = None /\ crashed' = "SSL_CTX"
    BY <1>2, <2>1, ContextTuned
  <2>3. QED
    BY <2>2, TuningKeeps
<1>3. ASSUME NEW o \in Objs,
             \/ CreatePolicyObj(o)
             \/ SetFd(o)
             \/ Accept(o)
             \/ Connect(o)
             \/ FreePolicyObj(o)
      PROVE  ConfigInv' /\ (Careful /\ CarefulUse => CarefulUse')
  <2>1. \E b : Writes(o, b) /\ Good(b)
    BY <1>3, CreateGood, SetFdGood, AcceptGood, ConnectGood, FreeGood
  <2>2. QED
    BY <2>1, WritesKeep
<1>4. ASSUME NEW o \in Objs, SetFdWithoutSsl(o)
      PROVE  ConfigInv' /\ (Careful /\ CarefulUse => CarefulUse')
  <2>1. UNCHANGED <<ctx, obj, policyOk>> /\ crashed' = "SSL"
    BY <1>4 DEF SetFdWithoutSsl
  <2>2. QED
    BY <2>1 DEF ConfigInv, TypeOK, Negotiable, Checked, CarefulUse, Copied, Kept, Configured
<1>5. CASE UNCHANGED vars
  BY <1>5 DEF vars, ConfigInv, TypeOK, Negotiable, Checked, CarefulUse, Copied, Kept,
              Configured
<1>6. QED
  BY <1>1, <1>2, <1>3, <1>4, <1>5 DEF Next

\* What holds for every application.
LEMMA ConfigInvariant == Spec => []ConfigInv
<1>1. Init => ConfigInv
  BY InitConfig DEF CarefulInv
<1>2. ConfigInv /\ [Next]_vars => ConfigInv'
  BY NextConfig
<1>3. QED
  BY <1>1, <1>2, PTL DEF Spec

\* What holds for a careful one.
LEMMA CarefulInvariant ==
    ASSUME Careful
    PROVE  Spec => []CarefulInv
<1>1. CarefulInv /\ [Next]_vars => CarefulInv'
  BY NextConfig DEF CarefulInv
<1>2. QED
  BY InitConfig, <1>1, PTL DEF Spec

-----------------------------------------------------------------------------
(* The theorems.                                                           *)

\* Contexts and objects always have their types, whatever the application calls.
THEOREM ConfigTypeCorrect == Spec => []TypeOK
<1>1. ConfigInv => TypeOK
  BY DEF ConfigInv
<1>2. QED
  BY <1>1, ConfigInvariant, PTL

\* Every SSL that is made under a bound has a supported version to negotiate,
\* whatever sequence of bounds and forbidden versions the application configures
\* and whatever call fails half way, since SCF_SetFd checks what was left; only a
\* list of suites without one of TLS 1.3 can still spoil an SSL that offers
\* nothing else.
THEOREM VersionUnderBounds == Spec => []ObjectCanNegotiate
<1>1. ASSUME ConfigInv
      PROVE  ObjectCanNegotiate
  <2> DEFINE Goal(s) == \/ Usable(s) # {}
                        \/ Offered(s) = {TLS13} /\ "tls13_suite" \notin s.suites
  <2> SUFFICES ASSUME NEW o \in Objs, obj[o].ssl # None,
                      obj[o].ssl.min # 0 \/ obj[o].ssl.max # 0
               PROVE  Goal(obj[o].ssl)
    BY DEF ObjectCanNegotiate
  <2>1. obj[o] \in PolicyObjs /\ Checked(obj[o])
    BY <1>1 DEF ConfigInv, TypeOK, Negotiable
  <2>2. obj[o].ssl \in SslCtxs
    BY <2>1 DEF PolicyObjs
  <2>3. PICK s \in SslCtxs : s = obj[o].ssl
    BY <2>2
  <2>4. Offered(s) \cap {3, 4} # {} /\ Offered(s) \subseteq {3, 4}
    BY <2>1, <2>2, <2>3, CheckedOffers DEF Checked
  <2>5. CASE 3 \in Offered(s)
    <3>1. 3 \in Usable(s)
      BY <2>5 DEF Usable, Mapped, TLS12, TLS13
    <3>2. QED
      BY <2>3, <3>1
  <2>6. CASE 3 \notin Offered(s)
    <3>1. Offered(s) = {4}
      BY <2>4, <2>6
    <3>2. "tls13_suite" \in s.suites => 4 \in Usable(s)
      BY <3>1 DEF Usable, Mapped, TLS12, TLS13
    <3>3. QED
      BY <2>3, <3>1, <3>2 DEF TLS13
  <2>7. QED
    BY <2>5, <2>6
<1>2. QED
  BY <1>1, ConfigInvariant, PTL

\* An application that sets the policy first, checks the result and configures
\* nothing once it is connected gets what the object says of itself: the method
\* of its role, TLS 1.3 alone in the high mode, and security level two outside
\* the customer mode.
THEOREM ModeKept ==
    ASSUME Careful
    PROVE  Spec => []ObjectKeepsMode
<1>1. ASSUME CarefulInv
      PROVE  ObjectKeepsMode
  <2> SUFFICES ASSUME NEW o \in Objs, obj[o].ssl # None
               PROVE  /\ obj[o].ssl.method = obj[o].role
                      /\ obj[o].policyMode = "HIGH" => Offered(obj[o].ssl) = {TLS13}
                      /\ obj[o].policyMode # "CUSTOMER" => obj[o].ssl.level = 2
    BY DEF ObjectKeepsMode
  <2>1. obj[o] \in PolicyObjs /\ Checked(obj[o]) /\ Kept(obj[o])
    BY <1>1 DEF CarefulInv, ConfigInv, TypeOK, Negotiable, CarefulUse
  <2>2. obj[o].ssl \in SslCtxs /\ CheckVersion(obj[o].ssl)
    BY <2>1 DEF PolicyObjs, Checked
  <2>3. Agrees(obj[o].ssl, obj[o].role, obj[o].policyMode)
    BY <2>1 DEF Kept
  <2>4. QED
    BY <2>2, <2>3, HighOffers DEF Agrees
<1>2. QED
  BY <1>1, CarefulInvariant, PTL

\* For such an application the verification an object was made with is in force
\* in its handshake, unless it is a server whose callback returned a PSK session.
THEOREM VerificationKept ==
    ASSUME Careful
    PROVE  Spec => []ObjectKeepsVerification
<1>1. CarefulInv => ObjectKeepsVerification
  BY DEF CarefulInv, CarefulUse, Kept, ObjectKeepsVerification
<1>2. QED
  BY <1>1, CarefulInvariant, PTL

\* Such an application never makes OpenSSL write to a null SSL_CTX, although
\* SCF_SetCipherSuites and SCF_SetAppVerifyCallback do not look at the pointer.
THEOREM NeverNullSslCtx ==
    ASSUME Careful
    PROVE  Spec => []NoNullSslCtx
<1>1. CarefulInv => NoNullSslCtx
  BY DEF CarefulInv, CarefulUse, NoNullSslCtx
<1>2. QED
  BY <1>1, CarefulInvariant, PTL
=============================================================================
