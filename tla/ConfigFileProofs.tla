-------------------------- MODULE ConfigFileProofs --------------------------
(***************************************************************************)
(* Proofs about certificates, keys and configuration files, for files of   *)
(* any length and any number of file contexts and sessions: the library's  *)
(* own copies of secrets are cleared, everything a call has made for       *)
(* itself is released, and success means that the file is in force.        *)
(*                                                                         *)
(* A call is made of functions from worlds to worlds.  Each has a lemma    *)
(* that says what it makes, releases and leaves alone, whether it succeeds *)
(* or fails; the lemmas are put together as the code puts together the     *)
(* functions.  The loop over the certificates of a file is by induction on *)
(* the number of certificates.                                             *)
(***************************************************************************)
EXTENDS ConfigFile, SequenceTheorems, WellFoundedInduction, TLAPS

-----------------------------------------------------------------------------
(* The inductive invariant.                                                *)

FileCtxs == [made : BOOLEAN, buf : Buffers \cup {None}, passwd : {"password", None}]

PskSessions == [made : BOOLEAN, version : {None, "TLSv1.2", "TLSv1.3"}]

Worlds ==
    [file : [Files -> FileCtxs], store : Stores, session : [Sessions -> PskSessions],
     buffers : {0, 1}, keyAuth : {"empty", "key_authentication", "zeros"}, tmp : Int,
     freed : SUBSET Secrets, readDangling : SUBSET {"key", "certificate"}]

\* In the middle of a call: no memory with a secret of the library's own has been
\* freed, no freed password read for a key, and there is no CRL that is not
\* checked.
Safe(w) ==
    /\ w \in Worlds
    /\ w.freed \subseteq {"unfinished_plaintext"}
    /\ "key" \notin w.readDangling
    /\ w.store.crl # {} => w.store.crlCheck

\* Between calls nothing is left of what a call has made for itself.
Idle(w) == Safe(w) /\ w.tmp = 0 /\ w.file[Tmp] = NoFile /\ w.keyAuth = "empty"

SslCtxs ==
    [method : Policy!Roles, min : Nat, max : Nat, no : SUBSET Policy!Mapped,
     verify : SUBSET {"PEER", "FAIL_IF_NO_PEER_CERT"}, level : {1, 2},
     suites : SUBSET Policy!NamedSuites, app : BOOLEAN, find : BOOLEAN, use : BOOLEAN]

Ctxs ==
    [role : Policy!Roles, policyMode : Policy!PolicyModes, verifyMode : SUBSET Policy!VerifyBits,
     isSetRole : BOOLEAN, find : BOOLEAN, use : BOOLEAN, ssl : SslCtxs]

\* The context has an SSL_CTX, in the high mode one for TLS 1.3 alone, outside
\* the customer mode one of security level two, and a cipher suite.
Tuned(c) ==
    /\ c \in Ctxs
    /\ c.policyMode = "HIGH" => c.ssl.min = Policy!TLS13 /\ c.ssl.max = Policy!TLS13
    /\ c.policyMode # "CUSTOMER" => c.ssl.level = 2
    /\ c.ssl.suites # {}

FileInv ==
    /\ Idle(world)
    /\ Tuned(ctx)
    /\ last \in Confs \cup {None}
    /\ SuccessMeansInForce

-----------------------------------------------------------------------------
(* Steps of a call.                                                        *)

\* CAs, CRLs and their check are not taken back.
Grows(t, s) ==
    /\ s.ca \subseteq t.ca
    /\ s.crl \subseteq t.crl
    /\ s.crlCheck => t.crlCheck

\* A part of a call leads from w to x, leaves behind n more objects than it has
\* found, and the file contexts and keyAuth as they were.
Step(x, w, n) ==
    /\ Safe(x)
    /\ x.tmp = w.tmp + n
    /\ x.file = w.file
    /\ x.keyAuth = w.keyAuth
    /\ Grows(x.store, w.store)

Result(r) == r.ok \in BOOLEAN /\ r = [w |-> r.w, ok |-> r.ok]

\* The result r of a function that makes n objects if it succeeds.
Returns(r, w, n) == Result(r) /\ Step(r.w, w, IF r.ok THEN n ELSE 0)

\* A world has its fields.
LEMMA WorldFields ==
    ASSUME NEW w \in Worlds
    PROVE  /\ w.file \in [Files -> FileCtxs]
           /\ w.store \in Stores
           /\ w.session \in [Sessions -> PskSessions]
           /\ w.buffers \in {0, 1}
           /\ w.tmp \in Int
           /\ w.freed \in SUBSET Secrets
           /\ w.readDangling \in SUBSET {"key", "certificate"}
           /\ w.keyAuth \in {"empty", "key_authentication", "zeros"}
BY DEF Worlds

\* To do nothing is a step.
LEMMA StepNone ==
    ASSUME NEW w, Safe(w)
    PROVE  Step(w, w, 0)
BY WorldFields DEF Safe, Step, Grows

\* One step after the other.
LEMMA StepTwice ==
    ASSUME NEW w, Safe(w), NEW x, NEW y, NEW m \in Int, NEW n \in Int, NEW k \in Int,
           Step(x, w, m), Step(y, x, n), k = m + n
    PROVE  Step(y, w, k)
<1>1. w.tmp \in Int
  BY WorldFields DEF Safe
<1>2. y.tmp = w.tmp + k
  BY <1>1 DEF Step
<1>3. Safe(y) /\ y.file = w.file /\ y.keyAuth = w.keyAuth /\ Grows(y.store, w.store)
  BY DEF Step, Grows
<1>4. QED
  BY <1>2, <1>3 DEF Step

\* A step that makes nothing after another one.
LEMMA StepOn ==
    ASSUME NEW w, Safe(w), NEW x, NEW y, NEW m \in Int, Step(x, w, m), Step(y, x, 0)
    PROVE  Step(y, w, m)
<1>1. 0 \in Int /\ m = m + 0
  OBVIOUS
<1>2. QED
  BY <1>1, StepTwice, Zenon

\* An object more.
LEMMA AcquireStep ==
    ASSUME NEW w, Safe(w)
    PROVE  Step(Acquire(w), w, 1) /\ Acquire(w).store = w.store
<1>1. Acquire(w) = [w EXCEPT !.tmp = w.tmp + 1]
  BY DEF Acquire
<1> DEFINE x == [w EXCEPT !.tmp = w.tmp + 1]
<1>2. /\ x \in Worlds /\ x.tmp = w.tmp + 1 /\ x.file = w.file /\ x.store = w.store
      /\ x.freed = w.freed /\ x.readDangling = w.readDangling /\ x.keyAuth = w.keyAuth
  BY DEF Safe, Worlds
<1> HIDE DEF x
<1>3. QED
  BY <1>1, <1>2 DEF x, Step, Safe, Grows

\* An object less.
LEMMA ReleaseStep ==
    ASSUME NEW w, Safe(w)
    PROVE  Step(Release(w), w, -1) /\ Release(w).store = w.store
<1>1. Release(w) = [w EXCEPT !.tmp = w.tmp - 1]
  BY DEF Release
<1> DEFINE x == [w EXCEPT !.tmp = w.tmp - 1]
<1>2. /\ x \in Worlds /\ x.tmp = w.tmp + (-1) /\ x.file = w.file /\ x.store = w.store
      /\ x.freed = w.freed /\ x.readDangling = w.readDangling /\ x.keyAuth = w.keyAuth
  BY DEF Safe, Worlds
<1> HIDE DEF x
<1>3. QED
  BY <1>1, <1>2 DEF x, Step, Safe, Grows

\* The SSL_CTX gets something more.
LEMMA StoreStep ==
    ASSUME NEW w, Safe(w), NEW s \in Stores, s.crl # {} => s.crlCheck, Grows(s, w.store)
    PROVE  /\ Step([w EXCEPT !.store = s], w, 0)
           /\ [w EXCEPT !.store = s].store = s
<1> DEFINE x == [w EXCEPT !.store = s]
<1>1. /\ x \in Worlds /\ x.tmp = w.tmp /\ x.file = w.file /\ x.store = s
      /\ x.freed = w.freed /\ x.readDangling = w.readDangling /\ x.keyAuth = w.keyAuth
  BY DEF Safe, Worlds
<1> HIDE DEF x
<1>2. x.tmp = w.tmp + 0
  BY <1>1, WorldFields DEF Safe
<1>3. QED
  BY <1>1, <1>2 DEF x, Step, Safe

\* Something is added to the store of an SSL_CTX.
LEMMA MarkStep ==
    ASSUME NEW w, Safe(w), NEW text \in Texts
    PROVE  /\ LET x == AddCa(w, text)
              IN  Step(x, w, 0) /\ text \in x.store.ca /\ x.store.ee = w.store.ee
           /\ LET x == [w EXCEPT !.store.key = TRUE]
              IN  Step(x, w, 0) /\ x.store.key /\ x.store.ee = w.store.ee
           /\ LET x == [w EXCEPT !.store.crl = @ \cup {text}]
              IN  w.store.crlCheck => /\ Step(x, w, 0)
                                      /\ text \in x.store.crl /\ x.store.crlCheck
                                      /\ x.store.ee = w.store.ee
<1>1. w.store \in Stores /\ (w.store.crl # {} => w.store.crlCheck)
  BY WorldFields DEF Safe
<1>2. LET x == AddCa(w, text)
      IN  Step(x, w, 0) /\ text \in x.store.ca /\ x.store.ee = w.store.ee
  <2> DEFINE s == [w.store EXCEPT !.ca = @ \cup {text}]
  <2>1. s \in Stores /\ (s.crl # {} => s.crlCheck) /\ Grows(s, w.store) /\ text \in s.ca /\ s.ee = w.store.ee
    BY <1>1 DEF Stores, Grows
  <2> HIDE DEF s
  <2>2. LET x == [w EXCEPT !.store = s] IN Step(x, w, 0) /\ x.store = s
    BY <2>1, StoreStep
  <2>3. QED
    BY <2>1, <2>2 DEF s, AddCa
<1>3. LET x == [w EXCEPT !.store.key = TRUE]
      IN  Step(x, w, 0) /\ x.store.key /\ x.store.ee = w.store.ee
  <2> DEFINE s == [w.store EXCEPT !.key = TRUE]
  <2>1. s \in Stores /\ (s.crl # {} => s.crlCheck) /\ Grows(s, w.store) /\ s.key /\ s.ee = w.store.ee
    BY <1>1 DEF Stores, Grows
  <2> HIDE DEF s
  <2>2. LET x == [w EXCEPT !.store = s] IN Step(x, w, 0) /\ x.store = s
    BY <2>1, StoreStep
  <2>3. QED
    BY <2>1, <2>2 DEF s
<1>4. ASSUME w.store.crlCheck
      PROVE  LET x == [w EXCEPT !.store.crl = @ \cup {text}]
             IN  /\ Step(x, w, 0)
                 /\ text \in x.store.crl /\ x.store.crlCheck
                 /\ x.store.ee = w.store.ee
  <2> DEFINE s == [w.store EXCEPT !.crl = @ \cup {text}]
  <2>1. s \in Stores /\ (s.crl # {} => s.crlCheck) /\ Grows(s, w.store) /\ text \in s.crl /\ s.crlCheck /\ s.ee = w.store.ee
    BY <1>1, <1>4 DEF Stores, Grows
  <2> HIDE DEF s
  <2>2. LET x == [w EXCEPT !.store = s] IN Step(x, w, 0) /\ x.store = s
    BY <2>1, StoreStep
  <2>3. QED
    BY <2>1, <2>2 DEF s
<1>5. QED
  BY <1>2, <1>3, <1>4

\* The check of CRLs is turned on.
LEMMA CheckStep ==
    ASSUME NEW w, Safe(w)
    PROVE  LET x == [w EXCEPT !.store.crlCheck = TRUE]
           IN  Step(x, w, 0) /\ x.store.crlCheck /\ x.store.ee = w.store.ee
<1>1. w.store \in Stores
  BY WorldFields DEF Safe
<1> DEFINE s == [w.store EXCEPT !.crlCheck = TRUE]
<1>2. s \in Stores /\ s.crlCheck /\ Grows(s, w.store) /\ s.ee = w.store.ee
  BY <1>1 DEF Stores, Grows
<1> HIDE DEF s
<1>3. LET x == [w EXCEPT !.store = s] IN Step(x, w, 0) /\ x.store = s
  BY <1>2, StoreStep
<1>4. QED
  BY <1>2, <1>3 DEF s

\* A certificate takes the place of the one before, with or without the key.
LEMMA UseStep ==
    ASSUME NEW w, Safe(w), NEW text \in Certs, NEW x \in UseCertificate(w, text)
    PROVE  Step(x, w, 0) /\ x.store.ee = text
<1>1. w.store \in Stores /\ (w.store.crl # {} => w.store.crlCheck)
  BY WorldFields DEF Safe
<1> DEFINE s == [w.store EXCEPT !.ee = text]
           t == [s EXCEPT !.key = FALSE]
<1>2. s \in Stores /\ (s.crl # {} => s.crlCheck) /\ Grows(s, w.store) /\ s.ee = text
  BY <1>1 DEF Stores, Grows
<1>3. t \in Stores /\ (t.crl # {} => t.crlCheck) /\ Grows(t, w.store) /\ t.ee = text
  BY <1>1 DEF Stores, Grows
<1>4. x = [w EXCEPT !.store = s] \/ x = [w EXCEPT !.store = t]
  <2>1. w.store = w.store /\ w \in Worlds
    BY DEF Safe
  <2>2. [[w EXCEPT !.store.ee = text] EXCEPT !.store.key = FALSE] = [w EXCEPT !.store = t]
    BY <2>1 DEF Worlds
  <2>3. QED
    BY <2>2 DEF UseCertificate
<1> HIDE DEF s, t
<1>5. CASE x = [w EXCEPT !.store = s]
  BY <1>2, <1>5, StoreStep
<1>6. CASE x = [w EXCEPT !.store = t]
  BY <1>3, <1>6, StoreStep
<1>7. QED
  BY <1>4, <1>5, <1>6

-----------------------------------------------------------------------------
(* Reading and giving away.                                                *)

\* CertBuffer2X509, ReadCrl and KeyBuffer2Evp.
ReadWithBio(w, text, wanted) == Then(OpenBio(w), LAMBDA b : CloseBio(ReadOne(b, text, wanted)))

\* An object is read with a BIO or a FILE, which is closed in any case.
LEMMA ReadKeeps ==
    ASSUME NEW w, Safe(w), NEW text, NEW wanted, NEW r \in ReadWithBio(w, text, wanted)
    PROVE  Returns(r, w, 1) /\ r.w.store = w.store /\ (r.ok => text \in wanted)
<1>1. \/ r = [w |-> w, ok |-> FALSE]
      \/ r = [w |-> Release(Acquire(w)), ok |-> FALSE]
      \/ text \in wanted /\ r = [w |-> Release(Acquire(Acquire(w))), ok |-> TRUE]
  BY DEF ReadWithBio, Then, OpenBio, CloseBio, ReadOne, Ok, Fail
<1>2. Step(Acquire(w), w, 1) /\ Safe(Acquire(w)) /\ Acquire(w).store = w.store
  BY AcquireStep DEF Step
<1>3. Step(Release(Acquire(w)), w, 0) /\ Release(Acquire(w)).store = w.store
  BY <1>2, ReleaseStep, StepTwice
<1>4. /\ Step(Acquire(Acquire(w)), w, 2) /\ Safe(Acquire(Acquire(w)))
      /\ Acquire(Acquire(w)).store = w.store
  BY <1>2, AcquireStep, StepTwice DEF Step
<1>5. /\ Step(Release(Acquire(Acquire(w))), w, 1)
      /\ Release(Acquire(Acquire(w))).store = w.store
  BY <1>4, ReleaseStep, StepTwice
<1>6. CASE r = [w |-> w, ok |-> FALSE]
  BY <1>6, StepNone DEF Returns, Result
<1>7. CASE r = [w |-> Release(Acquire(w)), ok |-> FALSE]
  BY <1>3, <1>7 DEF Returns, Result
<1>8. CASE text \in wanted /\ r = [w |-> Release(Acquire(Acquire(w))), ok |-> TRUE]
  BY <1>5, <1>8 DEF Returns, Result
<1>9. QED
  BY <1>1, <1>6, <1>7, <1>8

\* What was read is given to OpenSSL, as x, or refused, and freed.
LEMMA GiveKeeps ==
    ASSUME NEW w, Safe(w), NEW x, Step(x, w, 0), NEW r \in GiveOne(w, x)
    PROVE  /\ Result(r) /\ Step(r.w, w, -1)
           /\ r.ok => r.w.store = x.store
<1>1. Safe(x) /\ Step(Release(x), w, -1)
  <2>1. Safe(x)
    BY DEF Step
  <2>2. Step(Release(x), x, -1)
    BY <2>1, ReleaseStep
  <2>3. QED
    BY <2>1, <2>2, StepTwice
<1>2. Release(x).store = x.store
  BY <1>1 DEF Release, Safe, Worlds
<1>3. r = [w |-> Release(w), ok |-> FALSE] \/ r = [w |-> Release(x), ok |-> TRUE]
  BY DEF GiveOne, Ok, Fail
<1>4. Step(Release(w), w, -1)
  BY ReleaseStep
<1>5. CASE r = [w |-> Release(w), ok |-> FALSE]
  BY <1>4, <1>5 DEF Result
<1>6. CASE r = [w |-> Release(x), ok |-> TRUE]
  BY <1>1, <1>2, <1>6 DEF Result
<1>7. QED
  BY <1>3, <1>5, <1>6

\* A function that is called with an open BIO, which is closed in any case.
LEMMA BioKeeps ==
    ASSUME NEW w, Safe(w), NEW q, Returns(q, Acquire(w), 0), NEW r, r = [q EXCEPT !.w = Release(@)]
    PROVE  Returns(r, w, 0) /\ r.ok = q.ok /\ r.w.store = q.w.store
<1>1. Step(Acquire(w), w, 1)
  BY AcquireStep
<1>2. Step(q.w, Acquire(w), 0) /\ Safe(q.w) /\ Result(q)
  BY DEF Returns, Step
<1>3. Step(q.w, w, 1)
  BY <1>1, <1>2, StepOn
<1>4. Step(Release(q.w), w, 0)
  <2>1. Step(Release(q.w), q.w, -1)
    BY <1>2, ReleaseStep
  <2>2. QED
    BY <1>3, <2>1, StepTwice
<1>5. r = [w |-> Release(q.w), ok |-> q.ok]
  BY <1>2 DEF Result
<1>6. Release(q.w).store = q.w.store
  BY <1>2 DEF Release, Safe, Worlds
<1>7. QED
  BY <1>2, <1>4, <1>5, <1>6 DEF Returns, Result

\* What was read is given away: together nothing is made.
LEMMA ReadGiveKeeps ==
    ASSUME NEW w, Safe(w), NEW q, Returns(q, w, 1), q.ok,
           NEW x, Step(x, q.w, 0), NEW r \in GiveOne(q.w, x)
    PROVE  Returns(r, w, 0) /\ (r.ok => r.w.store = x.store)
<1>1. Step(q.w, w, 1) /\ Safe(q.w)
  BY DEF Returns, Step
<1>2. Result(r) /\ Step(r.w, q.w, -1) /\ (r.ok => r.w.store = x.store)
  BY <1>1, GiveKeeps
<1>3. Step(r.w, w, 0)
  BY <1>1, <1>2, StepTwice
<1>4. QED
  BY <1>2, <1>3 DEF Returns

\* A function that has failed returns what it has been passed on.
LEMMA FailedReturns ==
    ASSUME NEW w, NEW q, NEW n, Returns(q, w, n), ~q.ok
    PROVE  Returns(q, w, 0)
BY DEF Returns

\* A function that changes nothing, or one mark of the SSL_CTX.
LEMMA PlainReturns ==
    ASSUME NEW w, Safe(w), NEW x, Step(x, w, 0), NEW r, r \in Fail(w) \cup Ok(x)
    PROVE  Returns(r, w, 0) /\ (r.ok => r.w = x)
<1>1. CASE r = [w |-> w, ok |-> FALSE]
  BY <1>1, StepNone DEF Returns, Result
<1>2. CASE r = [w |-> x, ok |-> TRUE]
  BY <1>2 DEF Returns, Result
<1>3. QED
  BY <1>1, <1>2 DEF Ok, Fail

-----------------------------------------------------------------------------
(* Certificates.                                                           *)

\* A CA certificate from a buffer, in every outcome.
LEMMA AddCaCertByBufferKeeps ==
    ASSUME NEW w, Safe(w), NEW text \in Texts, NEW r \in AddCaCertByBuffer(w, text)
    PROVE  Returns(r, w, 0) /\ (r.ok => text \in r.w.store.ca /\ r.w.store.ee = w.store.ee)
<1>1. PICK q \in CertBuffer2X509(w, text) :
        r \in IF q.ok THEN GiveOne(q.w, AddCa(q.w, text)) ELSE {q}
  BY DEF AddCaCertByBuffer, Then
<1>2. Returns(q, w, 1) /\ q.w.store = w.store
  <2>1. q \in ReadWithBio(w, text, Certs)
    BY DEF CertBuffer2X509, ReadWithBio, Then
  <2>2. QED
    BY <2>1, ReadKeeps
<1>3. CASE q.ok
  <2>1. Safe(q.w)
    BY <1>2 DEF Returns, Step
  <2> DEFINE x == AddCa(q.w, text)
  <2>2. Step(x, q.w, 0) /\ text \in x.store.ca /\ x.store.ee = q.w.store.ee
    BY <2>1, MarkStep
  <2>3. r \in GiveOne(q.w, x)
    BY <1>1, <1>3
  <2> HIDE DEF x
  <2>4. QED
    BY <1>2, <1>3, <2>2, <2>3, ReadGiveKeeps
<1>4. CASE ~q.ok
  BY <1>1, <1>2, <1>4, FailedReturns
<1>5. QED
  BY <1>3, <1>4

\* A CA certificate that OpenSSL reads from a file.
LEMMA AddCaCertByFileKeeps ==
    ASSUME NEW w, Safe(w), NEW text \in Texts, NEW r \in AddCaCertByFile(w, text)
    PROVE  Returns(r, w, 0) /\ (r.ok => text \in r.w.store.ca /\ r.w.store.ee = w.store.ee)
<1> DEFINE x == AddCa(w, text)
<1>1. Step(x, w, 0) /\ text \in x.store.ca /\ x.store.ee = w.store.ee
  BY MarkStep
<1>2. r \in Fail(w) \cup Ok(x)
  BY DEF AddCaCertByFile
<1> HIDE DEF x
<1>3. QED
  BY <1>1, <1>2, PlainReturns

\* A certificate that is encrypted is read with the password the SSL_CTX points
\* to, alive or not.
LEMMA CertificatePassword ==
    ASSUME NEW w, Safe(w), NEW x \in {w, DefaultPemPasswordCb(w, "certificate")}
    PROVE  Step(x, w, 0) /\ Safe(x) /\ x.store = w.store
<1>1. CASE x = w
  BY <1>1, StepNone
<1>2. CASE x # w
  <2> DEFINE d == IF w.store.userdata = Dangling THEN w.readDangling \cup {"certificate"}
                  ELSE w.readDangling
  <2>1. x = [w EXCEPT !.readDangling = d]
    BY <1>2 DEF DefaultPemPasswordCb
  <2>2. d \in SUBSET {"key", "certificate"} /\ "key" \notin d
    BY WorldFields DEF Safe
  <2> HIDE DEF d
  <2>3. /\ x \in Worlds /\ x.tmp = w.tmp /\ x.file = w.file /\ x.store = w.store
        /\ x.freed = w.freed /\ x.readDangling = d /\ x.keyAuth = w.keyAuth
    BY <2>1, <2>2 DEF Safe, Worlds
  <2>4. x.tmp = w.tmp + 0
    BY <2>3, WorldFields DEF Safe
  <2>5. QED
    BY <2>2, <2>3, <2>4 DEF Step, Safe, Grows
<1>3. QED
  BY <1>1, <1>2

\* A certificate of the context that OpenSSL reads from a file.
LEMMA AddEeCertByFileKeeps ==
    ASSUME NEW w, Safe(w), NEW text, NEW r \in AddEeCertByFile(w, text)
    PROVE  Returns(r, w, 0) /\ (r.ok => r.w.store.ee = text)
<1>1. PICK x \in {w, DefaultPemPasswordCb(w, "certificate")} :
        r \in Fail(x) \cup (IF text \in Certs THEN UNION {Ok(y) : y \in UseCertificate(x, text)} ELSE {})
  BY DEF AddEeCertByFile
<1>2. Step(x, w, 0) /\ Safe(x)
  BY CertificatePassword
<1>3. CASE r = [w |-> x, ok |-> FALSE]
  BY <1>2, <1>3 DEF Returns, Result
<1>4. ASSUME text \in Certs, NEW y \in UseCertificate(x, text), r = [w |-> y, ok |-> TRUE]
      PROVE  Returns(r, w, 0) /\ (r.ok => r.w.store.ee = text)
  <2>1. Step(y, x, 0) /\ y.store.ee = text
    BY <1>2, <1>4, UseStep
  <2>2. Step(y, w, 0)
    BY <1>2, <2>1, StepOn
  <2>3. QED
    BY <1>4, <2>1, <2>2 DEF Returns, Result
<1>5. QED
  BY <1>1, <1>3, <1>4 DEF Ok, Fail

\* A certificate read from an open BIO is given to the SSL_CTX and freed.
LEMMA LoadEeCertKeeps ==
    ASSUME NEW w, Safe(w), NEW text, NEW r \in LoadEeCert(w, text)
    PROVE  Returns(r, w, 0) /\ (r.ok => r.w.store.ee = text /\ text \in Certs)
<1>1. PICK q \in ReadOne(w, text, Certs) :
        r \in IF q.ok THEN UNION {GiveOne(q.w, y) : y \in UseCertificate(q.w, text)} ELSE {q}
  BY DEF LoadEeCert, Then
<1>2. q = [w |-> w, ok |-> FALSE] \/ (text \in Certs /\ q = [w |-> Acquire(w), ok |-> TRUE])
  BY DEF ReadOne, Ok, Fail
<1>3. Returns(q, w, 1)
  <2>1. CASE q = [w |-> w, ok |-> FALSE]
    BY <2>1, StepNone DEF Returns, Result
  <2>2. CASE q = [w |-> Acquire(w), ok |-> TRUE]
    BY <2>2, AcquireStep DEF Returns, Result
  <2>3. QED
    BY <1>2, <2>1, <2>2
<1>4. CASE q.ok
  <2>1. Safe(q.w) /\ text \in Certs
    BY <1>2, <1>3, <1>4 DEF Returns, Step
  <2>2. PICK x \in UseCertificate(q.w, text) : r \in GiveOne(q.w, x)
    BY <1>1, <1>4
  <2>3. Step(x, q.w, 0) /\ x.store.ee = text
    BY <2>1, UseStep
  <2>4. QED
    BY <1>3, <1>4, <2>1, <2>2, <2>3, ReadGiveKeeps
<1>5. CASE ~q.ok
  BY <1>1, <1>3, <1>5, FailedReturns
<1>6. QED
  BY <1>4, <1>5

\* OpenBio fails, or what follows has an open BIO.
LEMMA OpenBioThen ==
    ASSUME NEW w, NEW q \in OpenBio(w)
    PROVE  q = [w |-> w, ok |-> FALSE] \/ q = [w |-> Acquire(w), ok |-> TRUE]
BY DEF OpenBio, Ok, Fail

\* A certificate of the context from a buffer; the BIO is closed.
LEMMA AddEeCertByBufferKeeps ==
    ASSUME NEW w, Safe(w), NEW text, NEW r \in AddEeCertByBuffer(w, text)
    PROVE  Returns(r, w, 0) /\ (r.ok => r.w.store.ee = text)
<1>1. PICK q \in OpenBio(w) : r \in IF q.ok THEN CloseBio(LoadEeCert(q.w, text)) ELSE {q}
  BY DEF AddEeCertByBuffer, Then
<1>2. CASE q = [w |-> w, ok |-> FALSE]
  <2>1. r = [w |-> w, ok |-> FALSE]
    BY <1>1, <1>2
  <2>2. QED
    BY <2>1, StepNone DEF Returns, Result
<1>3. CASE q = [w |-> Acquire(w), ok |-> TRUE]
  <2>1. PICK p \in LoadEeCert(Acquire(w), text) : r = [p EXCEPT !.w = Release(@)]
    BY <1>1, <1>3 DEF CloseBio
  <2>2. Safe(Acquire(w))
    BY AcquireStep DEF Step
  <2>3. Returns(p, Acquire(w), 0) /\ (p.ok => p.w.store.ee = text)
    BY <2>2, LoadEeCertKeeps
  <2>4. QED
    BY <2>1, <2>3, BioKeeps
<1>4. QED
  BY <1>2, <1>3, OpenBioThen

\* The chain of an SSL_CTX stays one when certificates are added up to its bound.
LEMMA ChainGrows ==
    ASSUME NEW w \in Worlds, NEW n \in Nat, n = 0 \/ n <= MaxChain - Len(w.store.extra)
    PROVE  [w.store EXCEPT !.extra = @ \o [i \in 1..n |-> 1 - 1]] \in Stores
<1> DEFINE s == w.store.extra
           t == [i \in 1..n |-> 1 - 1]
<1>1. w.store \in Stores /\ MaxChain \in Nat
  BY WorldFields, CredentialsAssumption
<1>2. PICK m \in 0..MaxChain : s \in [1..m -> {0, 1}]
  BY <1>1 DEF Stores
<1>3. s \in Seq({0, 1}) /\ Len(s) = m
  BY <1>2
<1>4. t \in Seq({0, 1}) /\ Len(t) = n
  OBVIOUS
<1>5. n + m \in 0..MaxChain
  BY <1>1, <1>2, <1>3
<1> HIDE DEF s, t
<1>6. s \o t \in Seq({0, 1}) /\ Len(s \o t) = m + n
  BY <1>3, <1>4, ConcatProperties
<1>7. s \o t \in [1..(m + n) -> {0, 1}]
  BY <1>6, LenProperties
<1>8. s \o t \in UNION {[1..k -> {0, 1}] : k \in 0..MaxChain}
  BY <1>2, <1>5, <1>7
<1>9. QED
  BY <1>1, <1>8 DEF s, t, Stores

\* The rest of a chain, read as far as it can be.
LEMMA LoadCaChainKeeps ==
    ASSUME NEW w, Safe(w), NEW text, NEW r \in LoadCaChain(w, text)
    PROVE  Returns(r, w, 0) /\ r.w.store.ee = w.store.ee
<1> DEFINE counts == IF text = "chain" THEN 0..(MaxChain - Len(w.store.extra)) ELSE {0}
           added(n) == [w EXCEPT !.store.extra = @ \o [i \in 1..n |-> 1 - 1]]
<1>1. PICK n \in counts : r \in Ok(added(n)) \cup Fail(added(n))
  BY DEF LoadCaChain
<1> DEFINE s == [w.store EXCEPT !.extra = @ \o [i \in 1..n |-> 1 - 1]]
           x == [w EXCEPT !.store = s]
<1>2. s \in Stores
  <2>1. n \in Nat /\ (n = 0 \/ n <= MaxChain - Len(w.store.extra))
    OBVIOUS
  <2>2. QED
    BY <2>1, ChainGrows DEF Safe
<1>3. (s.crl # {} => s.crlCheck) /\ Grows(s, w.store) /\ s.ee = w.store.ee
  BY WorldFields DEF Safe, Stores, Grows
<1>4. r = [w |-> x, ok |-> TRUE] \/ r = [w |-> x, ok |-> FALSE]
  BY <1>1 DEF Ok, Fail
<1> HIDE DEF s
<1>5. Step(x, w, 0) /\ x.store.ee = w.store.ee
  BY <1>2, <1>3, StoreStep
<1> HIDE DEF x
<1>6. CASE r = [w |-> x, ok |-> TRUE]
  BY <1>5, <1>6 DEF Returns, Result
<1>7. CASE r = [w |-> x, ok |-> FALSE]
  BY <1>5, <1>7 DEF Returns, Result
<1>8. QED
  BY <1>4, <1>6, <1>7

\* A chain that OpenSSL reads from a file; its first certificate can be in use
\* when it fails.
LEMMA AddEeChainByFileKeeps ==
    ASSUME NEW w, Safe(w), NEW text, NEW r \in AddEeChainByFile(w, text)
    PROVE  Returns(r, w, 0) /\ (r.ok => r.w.store.ee = text)
<1>1. PICK x \in {w, DefaultPemPasswordCb(w, "certificate")} :
        r \in Fail(x) \cup
              (IF text \in Certs THEN UNION {Ok(y) \cup Fail(y) : y \in UseCertificate(x, text)} ELSE {})
  BY DEF AddEeChainByFile
<1>2. Step(x, w, 0) /\ Safe(x)
  BY CertificatePassword
<1>3. CASE r = [w |-> x, ok |-> FALSE]
  BY <1>2, <1>3 DEF Returns, Result
<1>4. ASSUME text \in Certs, NEW y \in UseCertificate(x, text),
             r = [w |-> y, ok |-> TRUE] \/ r = [w |-> y, ok |-> FALSE]
      PROVE  Returns(r, w, 0) /\ (r.ok => r.w.store.ee = text)
  <2>1. Step(y, x, 0) /\ y.store.ee = text
    BY <1>2, <1>4, UseStep
  <2>2. Step(y, w, 0)
    BY <1>2, <2>1, StepOn
  <2>3. CASE r = [w |-> y, ok |-> TRUE]
    BY <2>1, <2>2, <2>3 DEF Returns, Result
  <2>4. CASE r = [w |-> y, ok |-> FALSE]
    BY <2>2, <2>4 DEF Returns, Result
  <2>5. QED
    BY <1>4, <2>3, <2>4
<1>5. QED
  BY <1>1, <1>3, <1>4 DEF Ok, Fail

\* What has been given to the SSL_CTX is still there after a function returns.
LEMMA ReturnsTwice ==
    ASSUME NEW w, Safe(w), NEW q, NEW r, Returns(q, w, 0), Returns(r, q.w, 0)
    PROVE  Returns(r, w, 0) /\ Grows(r.w.store, q.w.store)
<1>1. Step(q.w, w, 0) /\ Step(r.w, q.w, 0)
  BY DEF Returns
<1>2. Step(r.w, w, 0)
  BY <1>1, StepOn
<1>3. QED
  BY <1>1, <1>2 DEF Returns, Step

\* A certificate and then its chain.
LEMMA LoadBothKeeps ==
    ASSUME NEW w, Safe(w), NEW text,
           NEW q \in LoadEeCert(w, text), NEW r \in IF q.ok THEN LoadCaChain(q.w, text) ELSE {q}
    PROVE  Returns(r, w, 0) /\ (r.ok => r.w.store.ee = text)
<1>1. Returns(q, w, 0) /\ (q.ok => q.w.store.ee = text)
  BY LoadEeCertKeeps
<1>2. CASE q.ok
  <2>1. Safe(q.w)
    BY <1>1 DEF Returns, Step
  <2>2. Returns(r, q.w, 0) /\ r.w.store.ee = q.w.store.ee
    BY <1>2, <2>1, LoadCaChainKeeps
  <2>3. Returns(r, w, 0) /\ Grows(r.w.store, q.w.store)
    BY <1>1, <2>2, ReturnsTwice
  <2>4. QED
    BY <1>1, <1>2, <2>2, <2>3
<1>3. CASE ~q.ok
  BY <1>1, <1>3
<1>4. QED
  BY <1>2, <1>3

\* A chain from a buffer; the certificate stays when the rest fails.
LEMMA AddEeChainByBufferKeeps ==
    ASSUME NEW w, Safe(w), NEW text, NEW r \in AddEeChainByBuffer(w, text)
    PROVE  Returns(r, w, 0) /\ (r.ok => r.w.store.ee = text)
<1>1. PICK q \in OpenBio(w) :
        r \in IF q.ok
              THEN CloseBio(UNION {IF p.ok THEN LoadCaChain(p.w, text) ELSE {p}
                                   : p \in LoadEeCert(q.w, text)})
              ELSE {q}
  BY DEF AddEeChainByBuffer, Then
<1>2. CASE q = [w |-> w, ok |-> FALSE]
  <2>1. r = [w |-> w, ok |-> FALSE]
    BY <1>1, <1>2
  <2>2. QED
    BY <2>1, StepNone DEF Returns, Result
<1>3. CASE q = [w |-> Acquire(w), ok |-> TRUE]
  <2>1. PICK p \in LoadEeCert(Acquire(w), text) :
          \E o \in IF p.ok THEN LoadCaChain(p.w, text) ELSE {p} : r = [o EXCEPT !.w = Release(@)]
    BY <1>1, <1>3 DEF CloseBio
  <2>2. PICK o \in IF p.ok THEN LoadCaChain(p.w, text) ELSE {p} : r = [o EXCEPT !.w = Release(@)]
    BY <2>1
  <2>3. Safe(Acquire(w))
    BY AcquireStep DEF Step
  <2>4. Returns(o, Acquire(w), 0) /\ (o.ok => o.w.store.ee = text)
    BY <2>3, LoadBothKeeps
  <2>5. QED
    BY <2>2, <2>4, BioKeeps
<1>4. QED
  BY <1>2, <1>3, OpenBioThen

\* Checking is on before the CRL is read, and stays on.
LEMMA AddCrlKeeps ==
    ASSUME NEW w, Safe(w), NEW text \in Texts, NEW r \in AddCrl(w, text)
    PROVE  /\ Returns(r, w, 0)
           /\ r.ok => text \in r.w.store.crl /\ r.w.store.crlCheck /\ r.w.store.ee = w.store.ee
<1> DEFINE v == [w EXCEPT !.store.crlCheck = TRUE]
           Given(x) == [x EXCEPT !.store.crl = @ \cup {text}]
<1>1. Step(v, w, 0) /\ v.store.crlCheck /\ v.store.ee = w.store.ee /\ Safe(v)
  BY CheckStep DEF Step
<1>2. r \in Fail(w) \/ \E q \in ReadCrl(v, text) :
                         r \in IF q.ok THEN GiveOne(q.w, Given(q.w)) ELSE {q}
  BY DEF AddCrl, Then
<1> HIDE DEF v
<1>3. CASE r \in Fail(w)
  <2>1. r = [w |-> w, ok |-> FALSE]
    BY <1>3 DEF Fail
  <2>2. QED
    BY <2>1, StepNone DEF Returns, Result
<1>4. ASSUME NEW q \in ReadCrl(v, text), r \in IF q.ok THEN GiveOne(q.w, Given(q.w)) ELSE {q}
      PROVE  /\ Returns(r, w, 0)
             /\ r.ok => text \in r.w.store.crl /\ r.w.store.crlCheck /\ r.w.store.ee = w.store.ee
  <2>1. Returns(q, v, 1) /\ q.w.store = v.store
    <3>1. q \in ReadWithBio(v, text, {"crl"})
      BY DEF ReadCrl, ReadWithBio, Then
    <3>2. QED
      BY <1>1, <3>1, ReadKeeps
  <2>2. /\ Returns(r, v, 0)
        /\ r.ok => text \in r.w.store.crl /\ r.w.store.crlCheck /\ r.w.store.ee = w.store.ee
    <3>1. CASE q.ok
      <4>1. Safe(q.w) /\ q.w.store.crlCheck /\ q.w.store.ee = w.store.ee
        BY <1>1, <2>1 DEF Returns, Step
      <4> DEFINE x == Given(q.w)
      <4>2. /\ Step(x, q.w, 0) /\ text \in x.store.crl /\ x.store.crlCheck
            /\ x.store.ee = w.store.ee
        BY <4>1, MarkStep
      <4>3. r \in GiveOne(q.w, x)
        BY <1>4, <3>1
      <4> HIDE DEF x
      <4>4. QED
        BY <1>1, <2>1, <3>1, <4>2, <4>3, ReadGiveKeeps
    <3>2. CASE ~q.ok
      BY <1>4, <2>1, <3>2, FailedReturns
    <3>3. QED
      BY <3>1, <3>2
  <2>3. Step(r.w, v, 0)
    BY <2>2 DEF Returns
  <2>4. Step(r.w, w, 0)
    BY <1>1, <2>3, StepOn
  <2>5. QED
    BY <2>2, <2>4 DEF Returns
<1>5. QED
  BY <1>2, <1>3, <1>4

\* A certificate of this type and text has been added to the store s, which has
\* become t: a CA and a CRL leave the certificate in use alone.
Loaded(t, s, type, text) ==
    /\ type = "CA" => text \in t.ca /\ t.ee = s.ee
    /\ type = "CRL" => text \in t.crl /\ t.crlCheck /\ t.ee = s.ee
    /\ type \in OwnCertTypes => t.ee = text

\* Whatever the type and the place of a certificate: success means that it is
\* loaded, and a failure leaves nothing behind but what the type turns on.
LEMMA AddCertKeeps ==
    ASSUME NEW w, Safe(w), NEW buf \in Buffers \cup {None}, NEW type \in CertTypes,
           NEW r \in AddCert(w, buf, type)
    PROVE  /\ Returns(r, w, 0)
           /\ r.ok /\ buf # None => Loaded(r.w.store, w.store, type, buf.text)
<1>1. CASE buf = None /\ type = "CRL"
  <2> DEFINE x == [w EXCEPT !.store.crlCheck = TRUE]
  <2>1. r = [w |-> x, ok |-> FALSE]
    BY <1>1 DEF AddCert, Fail
  <2>2. Step(x, w, 0)
    BY CheckStep
  <2> HIDE DEF x
  <2>3. QED
    BY <1>1, <2>1, <2>2 DEF Returns, Result
<1>2. CASE buf = None /\ type # "CRL"
  <2>1. r = [w |-> w, ok |-> FALSE]
    BY <1>2 DEF AddCert, Fail
  <2>2. QED
    BY <1>2, <2>1, StepNone DEF Returns, Result
<1>3. CASE buf # None
  <2>1. (buf.storeType = "FILE_PATH" \/ buf.storeType = "BUFFER") /\ buf.text \in Texts
    BY <1>3 DEF Buffers
  <2>2. CASE type = "CRL"
    <3>1. r \in AddCrl(w, buf.text)
      BY <1>3, <2>2 DEF AddCert
    <3>2. QED
      BY <2>1, <2>2, <3>1, AddCrlKeeps DEF Loaded, OwnCertTypes
  <2>3. CASE type = "CA" /\ buf.storeType = "FILE_PATH"
    <3>1. r \in AddCaCertByFile(w, buf.text)
      BY <1>3, <2>3 DEF AddCert
    <3>2. QED
      BY <2>1, <2>3, <3>1, AddCaCertByFileKeeps DEF Loaded, OwnCertTypes
  <2>4. CASE type = "CA" /\ buf.storeType = "BUFFER"
    <3>1. r \in AddCaCertByBuffer(w, buf.text)
      BY <1>3, <2>4 DEF AddCert
    <3>2. QED
      BY <2>1, <2>4, <3>1, AddCaCertByBufferKeeps DEF Loaded, OwnCertTypes
  <2>5. CASE type = "EE" /\ buf.storeType = "FILE_PATH"
    <3>1. r \in AddEeCertByFile(w, buf.text)
      BY <1>3, <2>5 DEF AddCert
    <3>2. QED
      BY <2>1, <2>5, <3>1, AddEeCertByFileKeeps DEF Loaded, OwnCertTypes
  <2>6. CASE type = "EE" /\ buf.storeType = "BUFFER"
    <3>1. r \in AddEeCertByBuffer(w, buf.text)
      BY <1>3, <2>6 DEF AddCert
    <3>2. QED
      BY <2>1, <2>6, <3>1, AddEeCertByBufferKeeps DEF Loaded, OwnCertTypes
  <2>7. CASE type = "EE_CHAIN" /\ buf.storeType = "FILE_PATH"
    <3>1. r \in AddEeChainByFile(w, buf.text)
      BY <1>3, <2>7 DEF AddCert
    <3>2. QED
      BY <2>1, <2>7, <3>1, AddEeChainByFileKeeps DEF Loaded, OwnCertTypes
  <2>8. CASE type = "EE_CHAIN" /\ buf.storeType = "BUFFER"
    <3>1. r \in AddEeChainByBuffer(w, buf.text)
      BY <1>3, <2>8 DEF AddCert
    <3>2. QED
      BY <2>1, <2>8, <3>1, AddEeChainByBufferKeeps DEF Loaded, OwnCertTypes
  <2>9. QED
    BY <2>1, <2>2, <2>3, <2>4, <2>5, <2>6, <2>7, <2>8 DEF CertTypes
<1>4. QED
  BY <1>1, <1>2, <1>3

-----------------------------------------------------------------------------
(* The private key.                                                        *)

\* SetKey first replaces the pointer to the last password, which may be
\* dangling, by one to the password of f or by null.
LEMMA PointKeeps ==
    ASSUME NEW w, Safe(w), NEW f \in Files
    PROVE  LET x == PointToPassword(w, f)
           IN  Step(x, w, 0) /\ x.store.userdata # Dangling /\ x.store.ee = w.store.ee
<1> DEFINE u == IF w.file[f].passwd = None THEN None ELSE f
           s == [w.store EXCEPT !.userdata = u]
           x == [w EXCEPT !.store = s]
<1>1. u \in Files \cup {None, Dangling} /\ u # Dangling
  BY CredentialsAssumption
<1>2. PointToPassword(w, f) = x
  BY DEF PointToPassword
<1> HIDE DEF u
<1>3. w.store \in Stores /\ (w.store.crl # {} => w.store.crlCheck)
  BY WorldFields DEF Safe
<1>4. /\ s \in Stores /\ (s.crl # {} => s.crlCheck) /\ Grows(s, w.store)
      /\ s.userdata = u /\ s.ee = w.store.ee
  BY <1>1, <1>3 DEF Stores, Grows
<1> HIDE DEF s
<1>5. Step(x, w, 0) /\ x.store = s
  BY <1>4, StoreStep
<1> HIDE DEF x
<1>6. QED
  BY <1>1, <1>2, <1>4, <1>5

\* The callback reads a password that is there.
LEMMA PasswordRead ==
    ASSUME NEW w, Safe(w), w.store.userdata # Dangling
    PROVE  DefaultPemPasswordCb(w, "key") = w
BY DEF DefaultPemPasswordCb, Safe, Worlds

\* A key that is refused can cost the certificate, and nothing else.
LEMMA UseKeyKeeps ==
    ASSUME NEW w, Safe(w), NEW r \in UseKey(w)
    PROVE  Returns(r, w, 0) /\ (r.ok => r.w.store.key /\ r.w.store.ee = w.store.ee)
<1>1. w.store \in Stores /\ (w.store.crl # {} => w.store.crlCheck)
  BY WorldFields DEF Safe
<1> DEFINE s == [w.store EXCEPT !.ee = None]
           x == [w EXCEPT !.store = s]
           y == [w EXCEPT !.store.key = TRUE]
<1>2. s \in Stores /\ (s.crl # {} => s.crlCheck) /\ Grows(s, w.store)
  BY <1>1 DEF Stores, Grows
<1>3. Step(y, w, 0) /\ y.store.key /\ y.store.ee = w.store.ee
  <2>1. "ca" \in Texts
    BY DEF Texts, Certs
  <2>2. QED
    BY <2>1, MarkStep
<1>4. r \in Fail(w) \/ r \in Fail(x) \/ r \in Ok(y)
  BY DEF UseKey
<1> HIDE DEF s, y
<1>5. Step(x, w, 0)
  BY <1>2, StoreStep
<1> HIDE DEF x
<1>6. CASE r = [w |-> w, ok |-> FALSE]
  BY <1>6, StepNone DEF Returns, Result
<1>7. CASE r = [w |-> x, ok |-> FALSE]
  BY <1>5, <1>7 DEF Returns, Result
<1>8. CASE r = [w |-> y, ok |-> TRUE]
  BY <1>3, <1>8 DEF Returns, Result
<1>9. QED
  BY <1>4, <1>6, <1>7, <1>8, Zenon DEF Ok, Fail

\* A key from a file: the password that OpenSSL may ask for is alive.
LEMMA SetKeyByFileKeeps ==
    ASSUME NEW w, Safe(w), w.store.userdata # Dangling, NEW text, NEW r \in SetKeyByFile(w, text)
    PROVE  Returns(r, w, 0) /\ (r.ok => r.w.store.key /\ r.w.store.ee = w.store.ee)
<1>1. DefaultPemPasswordCb(w, "key") = w
  BY PasswordRead
<1>2. r \in Fail(w) \/ r \in UseKey(w)
  BY <1>1 DEF SetKeyByFile
<1>3. CASE r \in UseKey(w)
  BY <1>3, UseKeyKeeps
<1>4. CASE r = [w |-> w, ok |-> FALSE]
  BY <1>4, StepNone DEF Returns, Result
<1>5. QED
  BY <1>2, <1>3, <1>4, Zenon DEF Fail

\* A key from a buffer, freed whether OpenSSL takes it or not.
LEMMA SetKeyByBufferKeeps ==
    ASSUME NEW w, Safe(w), NEW text, NEW r \in SetKeyByBuffer(w, text)
    PROVE  Returns(r, w, 0) /\ (r.ok => r.w.store.key /\ r.w.store.ee = w.store.ee)
<1>1. PICK q \in KeyBuffer2Evp(w, text) :
        r \in IF q.ok THEN {[p EXCEPT !.w = Release(@)] : p \in UseKey(q.w)} ELSE {q}
  BY DEF SetKeyByBuffer, Then
<1>2. Returns(q, w, 1) /\ q.w.store = w.store
  <2>1. q \in ReadWithBio(w, text, {"private_key"})
    BY DEF KeyBuffer2Evp, ReadWithBio, Then
  <2>2. QED
    BY <2>1, ReadKeeps
<1>3. CASE q.ok
  <2>1. Safe(q.w) /\ Step(q.w, w, 1)
    BY <1>2, <1>3 DEF Returns, Step
  <2>2. PICK p \in UseKey(q.w) : r = [p EXCEPT !.w = Release(@)]
    BY <1>1, <1>3
  <2>3. /\ Result(p) /\ Step(p.w, q.w, 0)
        /\ p.ok => p.w.store.key /\ p.w.store.ee = q.w.store.ee
    BY <2>1, UseKeyKeeps DEF Returns
  <2>4. Step(p.w, w, 1) /\ Safe(p.w)
    BY <2>1, <2>3, StepOn DEF Step
  <2>5. Step(Release(p.w), p.w, -1) /\ Release(p.w).store = p.w.store
    BY <2>4, ReleaseStep
  <2>6. Step(Release(p.w), w, 0)
    BY <2>4, <2>5, StepTwice
  <2>7. r = [w |-> Release(p.w), ok |-> p.ok]
    BY <2>2, <2>3 DEF Result
  <2>8. QED
    BY <1>2, <2>3, <2>5, <2>6, <2>7 DEF Returns, Result
<1>4. CASE ~q.ok
  BY <1>1, <1>2, <1>4, FailedReturns
<1>5. QED
  BY <1>3, <1>4

\* A key is set from whatever the file context holds, and the password is only
\* read while it is there.
LEMMA SetKeyKeeps ==
    ASSUME NEW w, Safe(w), NEW f \in Files, NEW r \in SetKey(w, f)
    PROVE  Returns(r, w, 0) /\ (r.ok => r.w.store.key /\ r.w.store.ee = w.store.ee)
<1> DEFINE x == PointToPassword(w, f)
           buf == w.file[f].buf
<1>1. Step(x, w, 0) /\ x.store.userdata # Dangling /\ x.store.ee = w.store.ee
  BY PointKeeps
<1>2. Safe(x)
  BY <1>1 DEF Step
<1>3. \/ r \in Fail(x)
      \/ r \in SetKeyByFile(x, buf.text)
      \/ r \in SetKeyByBuffer(x, buf.text)
  BY DEF SetKey
<1> HIDE DEF x, buf
<1>4. Returns(r, x, 0) /\ (r.ok => r.w.store.key /\ r.w.store.ee = x.store.ee)
  <2>1. CASE r \in Fail(x)
    <3>1. r = [w |-> x, ok |-> FALSE]
      BY <2>1 DEF Fail
    <3>2. QED
      BY <1>2, <3>1, StepNone DEF Returns, Result
  <2>2. CASE r \in SetKeyByFile(x, buf.text)
    BY <1>1, <1>2, <2>2, SetKeyByFileKeeps
  <2>3. CASE r \in SetKeyByBuffer(x, buf.text)
    BY <1>2, <2>3, SetKeyByBufferKeeps
  <2>4. QED
    BY <1>3, <2>1, <2>2, <2>3
<1>5. Step(r.w, x, 0)
  BY <1>4 DEF Returns
<1>6. Step(r.w, w, 0)
  BY <1>1, <1>5, StepOn
<1>7. QED
  BY <1>1, <1>4, <1>6 DEF Returns

-----------------------------------------------------------------------------
(* File contexts.                                                          *)

\* A function of the file context f leads from w to x.
FileStep(x, w, f) ==
    /\ Safe(x)
    /\ x.tmp = w.tmp
    /\ \A g \in Files \ {f} : x.file[g] = w.file[g]
    /\ x.keyAuth = w.keyAuth
    /\ Grows(x.store, w.store)
    /\ x.store.ee = w.store.ee /\ x.store.key = w.store.key

\* Memory that is cleared before it is freed shows nothing.
LEMMA ClearedMemory ==
    ASSUME NEW w, Safe(w), NEW content
    PROVE  Delete(w, Zeroed(content)) = w
<1>1. {"zeros"} \cap Secrets = {}
  BY DEF Secrets
<1>2. QED
  BY <1>1 DEF Delete, Zeroed, Safe, Worlds

\* The file context f becomes k.
LEMMA FileChange ==
    ASSUME NEW w, Safe(w), NEW f \in Files, NEW k \in FileCtxs
    PROVE  LET x == [w EXCEPT !.file = [w.file EXCEPT ![f] = k]]
           IN  FileStep(x, w, f) /\ x.file[f] = k
<1> DEFINE x == [w EXCEPT !.file = [w.file EXCEPT ![f] = k]]
<1>1. w \in Worlds /\ w.file \in [Files -> FileCtxs]
  BY WorldFields DEF Safe
<1>2. /\ x \in Worlds /\ x.tmp = w.tmp /\ x.store = w.store
      /\ x.freed = w.freed /\ x.readDangling = w.readDangling /\ x.keyAuth = w.keyAuth
      /\ x.file = [w.file EXCEPT ![f] = k]
  BY <1>1 DEF Worlds
<1> HIDE DEF x
<1>3. x.file[f] = k /\ \A g \in Files \ {f} : x.file[g] = w.file[g]
  BY <1>1, <1>2
<1>4. QED
  BY <1>2, <1>3 DEF x, FileStep, Safe, Grows

\* One function of f after the other.
LEMMA FileTwice ==
    ASSUME NEW w, NEW x, NEW y, NEW f, FileStep(x, w, f), FileStep(y, x, f)
    PROVE  FileStep(y, w, f)
BY DEF FileStep, Grows

\* A function of f that changes nothing.
LEMMA FileNone ==
    ASSUME NEW w, Safe(w), NEW f
    PROVE  FileStep(w, w, f)
BY DEF FileStep, Grows

\* The buffer of a file context is cleared before it is freed.
LEMMA FreeBufKeeps ==
    ASSUME NEW w, Safe(w), NEW f
    PROVE  FreeBuf(w, f) = w
BY ClearedMemory DEF FreeBuf

\* The SSL_CTX may still point to the password: then the pointer dangles.
LEMMA FreePasswdKeeps ==
    ASSUME NEW w, Safe(w), NEW f \in Files
    PROVE  LET x == FreePasswd(w, f)
           IN  FileStep(x, w, f) /\ x.file = w.file
<1>1. CASE w.file[f].passwd = None
  BY <1>1, FileNone DEF FreePasswd
<1>2. CASE w.file[f].passwd # None
  <2> DEFINE s == [w.store EXCEPT !.userdata = IF @ = f THEN Dangling ELSE @]
             x == [w EXCEPT !.store = s]
  <2>1. w.store \in Stores /\ (w.store.crl # {} => w.store.crlCheck)
    BY WorldFields DEF Safe
  <2>2. /\ s \in Stores /\ (s.crl # {} => s.crlCheck) /\ Grows(s, w.store)
        /\ s.ee = w.store.ee /\ s.key = w.store.key
    BY <2>1 DEF Stores, Grows
  <2>3. FreePasswd(w, f) = Delete(x, Zeroed(w.file[f].passwd))
    BY <1>2 DEF FreePasswd
  <2> HIDE DEF s
  <2>4. Step(x, w, 0) /\ x.store = s
    BY <2>2, StoreStep
  <2> HIDE DEF x
  <2>5. Safe(x) /\ FreePasswd(w, f) = x
    BY <2>3, <2>4, ClearedMemory DEF Step
  <2>6. /\ x.tmp = w.tmp /\ x.file = w.file /\ x.keyAuth = w.keyAuth
        /\ Grows(x.store, w.store) /\ x.store.ee = w.store.ee /\ x.store.key = w.store.key
    BY <2>2, <2>4, WorldFields DEF Step, Safe
  <2>7. QED
    BY <2>5, <2>6 DEF FileStep
<1>3. QED
  BY <1>1, <1>2

\* SCF_FileCtxFree: the password that the SSL_CTX points to may go.
LEMMA FileCtxFreeKeeps ==
    ASSUME NEW w, Safe(w), NEW f \in Files
    PROVE  LET x == FileCtxFree(w, f)
           IN  FileStep(x, w, f) /\ x.file[f] = NoFile
<1> DEFINE y == FreePasswd(w, f)
<1>1. FileStep(y, w, f) /\ Safe(y)
  BY FreePasswdKeeps DEF FileStep
<1>2. FileCtxFree(w, f) = [y EXCEPT !.file = [y.file EXCEPT ![f] = NoFile]]
  BY FreeBufKeeps DEF FileCtxFree
<1>3. NoFile \in FileCtxs
  BY DEF NoFile, FileCtxs
<1> HIDE DEF y
<1> DEFINE x == [y EXCEPT !.file = [y.file EXCEPT ![f] = NoFile]]
<1>4. FileStep(x, y, f) /\ x.file[f] = NoFile
  BY <1>1, <1>3, FileChange
<1> HIDE DEF x
<1>5. QED
  BY <1>1, <1>2, <1>4, FileTwice DEF x

\* The result r of a function of the file context f.
FileReturns(r, w, f) == Result(r) /\ FileStep(r.w, w, f)

\* A function of f that fails and changes nothing, or succeeds and leaves x.
LEMMA PlainFileReturns ==
    ASSUME NEW w, Safe(w), NEW f, NEW x, FileStep(x, w, f), NEW r, r \in Fail(w) \cup Ok(x)
    PROVE  FileReturns(r, w, f) /\ (r.ok => r.w = x)
<1>1. CASE r = [w |-> w, ok |-> FALSE]
  BY <1>1, FileNone DEF FileReturns, Result
<1>2. CASE r = [w |-> x, ok |-> TRUE]
  BY <1>2 DEF FileReturns, Result
<1>3. QED
  BY <1>1, <1>2 DEF Ok, Fail

\* SCF_FileCtxNew.
LEMMA FileCtxNewKeeps ==
    ASSUME NEW w, Safe(w), NEW f \in Files, NEW r \in FileCtxNew(w, f)
    PROVE  FileReturns(r, w, f) /\ (~r.ok => r.w = w)
<1> DEFINE k == [NoFile EXCEPT !.made = TRUE]
           x == [w EXCEPT !.file = [w.file EXCEPT ![f] = k]]
<1>1. k \in FileCtxs
  BY DEF NoFile, FileCtxs
<1>2. r = [w |-> w, ok |-> FALSE] \/ r = [w |-> x, ok |-> TRUE]
  BY DEF FileCtxNew, Ok, Fail
<1> HIDE DEF k
<1>3. FileStep(x, w, f)
  BY <1>1, FileChange
<1> HIDE DEF x
<1>4. r \in Fail(w) \cup Ok(x)
  BY <1>2 DEF Ok, Fail
<1>5. FileReturns(r, w, f)
  BY <1>3, <1>4, PlainFileReturns
<1>6. CASE r = [w |-> w, ok |-> FALSE]
  BY <1>5, <1>6
<1>7. CASE r = [w |-> x, ok |-> TRUE]
  BY <1>5, <1>7
<1>8. QED
  BY <1>2, <1>6, <1>7

\* SCF_FileCtxSetBuf.
LEMMA FileCtxSetBufKeeps ==
    ASSUME NEW w, Safe(w), NEW f \in Files, NEW buf \in Buffers, NEW r \in FileCtxSetBuf(w, f, buf)
    PROVE  FileReturns(r, w, f) /\ (r.ok => r.w.file[f].buf = buf)
<1> DEFINE k == [w.file[f] EXCEPT !.buf = buf]
           x == [w EXCEPT !.file = [w.file EXCEPT ![f] = k]]
<1>1. k \in FileCtxs /\ k.buf = buf
  BY WorldFields DEF Safe, FileCtxs
<1>2. r \in Fail(w) \cup Ok(x)
  BY FreeBufKeeps DEF FileCtxSetBuf
<1> HIDE DEF k
<1>3. FileStep(x, w, f) /\ x.file[f] = k
  BY <1>1, FileChange
<1> HIDE DEF x
<1>4. QED
  BY <1>1, <1>2, <1>3, PlainFileReturns

\* What a decryption that fails has written is freed as it is.
LEMMA DecryptFailsKeeps ==
    ASSUME NEW w, Safe(w), NEW f, NEW r \in DecryptFails(w)
    PROVE  FileReturns(r, w, f) /\ ~r.ok /\ Step(r.w, w, 0)
<1> DEFINE d == w.freed \cup ({"unfinished_plaintext"} \cap Secrets)
           x == [w EXCEPT !.freed = d]
<1>1. d \in SUBSET Secrets /\ d \subseteq {"unfinished_plaintext"}
  BY WorldFields DEF Safe
<1>2. r \in Fail(w) \/ r \in Fail(x)
  BY DEF DecryptFails, Delete
<1> HIDE DEF d
<1>3. /\ x \in Worlds /\ x.tmp = w.tmp /\ x.file = w.file /\ x.store = w.store
      /\ x.freed = d /\ x.readDangling = w.readDangling /\ x.keyAuth = w.keyAuth
  BY <1>1 DEF Safe, Worlds
<1> HIDE DEF x
<1>4. Safe(x) /\ x.tmp = w.tmp + 0 /\ w.tmp = w.tmp + 0
  BY <1>1, <1>3, WorldFields DEF Safe
<1>5. FileStep(x, w, f) /\ Step(x, w, 0)
  BY <1>3, <1>4 DEF FileStep, Step, Grows
<1>6. CASE r = [w |-> w, ok |-> FALSE]
  BY <1>6, FileNone, StepNone DEF FileReturns, Result
<1>7. CASE r = [w |-> x, ok |-> FALSE]
  BY <1>5, <1>7 DEF FileReturns, Result
<1>8. QED
  BY <1>2, <1>6, <1>7, Zenon DEF Fail

\* The old password is freed when a new one is stored, and the copies of the
\* new one are cleared on every way out.
LEMMA FileCtxSetPwdKeeps ==
    ASSUME NEW w, Safe(w), NEW f \in Files, NEW isCipher, NEW r \in FileCtxSetPwd(w, f, isCipher)
    PROVE  FileReturns(r, w, f)
<1> DEFINE y == FreePasswd(w, f)
           k == [y.file[f] EXCEPT !.passwd = "password"]
           x == [y EXCEPT !.file = [y.file EXCEPT ![f] = k]]
<1>1. FileStep(y, w, f) /\ Safe(y)
  BY FreePasswdKeeps DEF FileStep
<1>2. r \in DecryptFails(w) \/ r \in Fail(w) \cup Ok(x)
  <2>1. Delete(w, Zeroed("password")) = w
    BY ClearedMemory
  <2>2. QED
    BY <2>1 DEF FileCtxSetPwd
<1> HIDE DEF y
<1>3. k \in FileCtxs
  BY <1>1, WorldFields DEF Safe, FileCtxs
<1> HIDE DEF k
<1>4. FileStep(x, y, f)
  BY <1>1, <1>3, FileChange
<1> HIDE DEF x
<1>5. FileStep(x, w, f)
  BY <1>1, <1>4, FileTwice
<1>6. CASE r \in DecryptFails(w)
  BY <1>6, DecryptFailsKeeps
<1>7. CASE r \in Fail(w) \cup Ok(x)
  BY <1>5, <1>7, PlainFileReturns
<1>8. QED
  BY <1>2, <1>6, <1>7

-----------------------------------------------------------------------------
(* The parts of a configuration file.                                      *)

\* A part of SCF_SetConfigFile leads from w to x and leaves n more objects; it
\* may use the temporary file context and clear keyAuth.
Part(x, w, n) ==
    /\ Safe(x)
    /\ x.tmp = w.tmp + n
    /\ x.keyAuth \in {w.keyAuth, "empty", "zeros"}
    /\ Grows(x.store, w.store)

\* A part that has returned: what it made for itself has been released.
Done(r, w) == Result(r) /\ Part(r.w, w, 0) /\ r.w.file[Tmp] = NoFile

\* One part after the other.
LEMMA PartTwice ==
    ASSUME NEW w, Safe(w), NEW x, NEW y, NEW m \in Int, NEW n \in Int, NEW k \in Int,
           Part(x, w, m), Part(y, x, n), k = m + n
    PROVE  Part(y, w, k)
<1>1. w.tmp \in Int
  BY WorldFields DEF Safe
<1>2. y.tmp = w.tmp + k
  BY <1>1 DEF Part
<1>3. Safe(y) /\ y.keyAuth \in {w.keyAuth, "empty", "zeros"} /\ Grows(y.store, w.store)
  BY DEF Part, Grows
<1>4. QED
  BY <1>2, <1>3 DEF Part

\* A part that makes nothing after another one.
LEMMA PartOn ==
    ASSUME NEW w, Safe(w), NEW x, NEW y, NEW m \in Int, Part(x, w, m), Part(y, x, 0)
    PROVE  Part(y, w, m)
<1>1. 0 \in Int /\ m = m + 0
  OBVIOUS
<1>2. QED
  BY <1>1, PartTwice, Zenon

\* To do nothing is a part.
LEMMA PartNone ==
    ASSUME NEW w, Safe(w)
    PROVE  Part(w, w, 0)
BY StepNone DEF Part, Step

\* Steps of the adaptor and of file contexts are parts.
LEMMA StepIsPart ==
    ASSUME NEW w, NEW x, NEW n, Step(x, w, n)
    PROVE  Part(x, w, n)
BY DEF Step, Part

\* A change of a file context is a part.
LEMMA FileStepIsPart ==
    ASSUME NEW w, Safe(w), NEW x, NEW f, FileStep(x, w, f)
    PROVE  Part(x, w, 0)
BY WorldFields DEF FileStep, Part, Safe

\* The temporary file context is a file context.
LEMMA TmpIsFile == Tmp \in Files
BY ConfsAssumption

\* The temporary file context is freed.
LEMMA FreeTmp ==
    ASSUME NEW w, Safe(w)
    PROVE  LET x == FileCtxFree(w, Tmp)
           IN  /\ Safe(x) /\ Part(x, w, 0) /\ x.file[Tmp] = NoFile
               /\ x.store.ee = w.store.ee /\ x.store.key = w.store.key
<1> DEFINE x == FileCtxFree(w, Tmp)
<1>1. FileStep(x, w, Tmp) /\ x.file[Tmp] = NoFile
  BY TmpIsFile, FileCtxFreeKeeps
<1> HIDE DEF x
<1>2. Safe(x) /\ Part(x, w, 0) /\ x.store.ee = w.store.ee /\ x.store.key = w.store.key
  BY <1>1, FileStepIsPart DEF FileStep
<1>3. QED
  BY <1>1, <1>2 DEF x

\* The temporary file context is made, and a string for the path: two objects
\* or, after a failure, none.
LEMMA CreateKeeps ==
    ASSUME NEW w, Safe(w), w.file[Tmp] = NoFile, NEW r \in CreateAndInitializeFileCtx(w)
    PROVE  /\ Result(r)
           /\ r.ok => Part(r.w, w, 2) /\ r.w.store.ee = w.store.ee
           /\ ~r.ok => Part(r.w, w, 0) /\ r.w.file[Tmp] = NoFile
<1> DEFINE v == Acquire(w)
<1>1. Safe(v) /\ Part(v, w, 1) /\ v.store = w.store
  BY AcquireStep DEF Step, Part
<1>2. PICK q \in FileCtxNew(v, Tmp) :
        r \in IF q.ok THEN Fail(Release(FileCtxFree(q.w, Tmp))) \cup Ok(Acquire(q.w)) ELSE Fail(w)
  BY DEF CreateAndInitializeFileCtx
<1> HIDE DEF v
<1>3. FileReturns(q, v, Tmp)
  BY <1>1, TmpIsFile, FileCtxNewKeeps
<1>4. Safe(q.w) /\ Part(q.w, v, 0) /\ q.w.store.ee = w.store.ee
  BY <1>1, <1>3, FileStepIsPart DEF FileReturns, FileStep
<1>5. Part(q.w, w, 1)
  BY <1>1, <1>4, PartOn
<1> DEFINE y == FileCtxFree(q.w, Tmp)
           x == Release(y)
           z == Acquire(q.w)
<1>6. Safe(y) /\ Part(y, q.w, 0) /\ y.file[Tmp] = NoFile
  BY <1>4, FreeTmp
<1>7. Part(y, w, 1)
  BY <1>5, <1>6, PartOn
<1>8. Part(x, y, -1) /\ x.file = y.file
  BY <1>6, ReleaseStep DEF Step, Part
<1>9. Part(x, w, 0)
  BY <1>7, <1>8, PartTwice
<1>10. Part(z, q.w, 1) /\ z.store = q.w.store
  BY <1>4, AcquireStep DEF Step, Part
<1>11. Part(z, w, 2) /\ z.store.ee = w.store.ee
  BY <1>4, <1>5, <1>10, PartTwice
<1>12. \/ r = [w |-> x, ok |-> FALSE]
       \/ r = [w |-> z, ok |-> TRUE]
       \/ r = [w |-> w, ok |-> FALSE]
  BY <1>2 DEF Ok, Fail
<1> HIDE DEF x, y, z
<1>13. CASE r = [w |-> x, ok |-> FALSE]
  BY <1>6, <1>8, <1>9, <1>13 DEF Result
<1>14. CASE r = [w |-> z, ok |-> TRUE]
  BY <1>11, <1>14 DEF Result
<1>15. CASE r = [w |-> w, ok |-> FALSE]
  BY <1>15, PartNone DEF Result
<1>16. QED
  BY <1>12, <1>13, <1>14, <1>15

\* Both are released whatever came out of their use.
LEMMA CleanKeeps ==
    ASSUME NEW w, Safe(w), NEW q, Result(q), Part(q.w, w, 2),
           NEW r, r = [q EXCEPT !.w = Release(Release(FileCtxFree(@, Tmp)))]
    PROVE  /\ Done(r, w) /\ r.ok = q.ok /\ Grows(r.w.store, q.w.store)
           /\ r.w.store.ee = q.w.store.ee /\ r.w.store.key = q.w.store.key
<1> DEFINE x == FileCtxFree(q.w, Tmp)
           y == Release(x)
           z == Release(y)
<1>1. Safe(q.w)
  BY DEF Part
<1>2. /\ Safe(x) /\ Part(x, q.w, 0) /\ x.file[Tmp] = NoFile
      /\ x.store.ee = q.w.store.ee /\ x.store.key = q.w.store.key
  BY <1>1, FreeTmp
<1>3. Safe(y) /\ Part(y, x, -1) /\ y.file = x.file /\ y.store = x.store
  BY <1>2, ReleaseStep DEF Step, Part
<1>4. Part(z, y, -1) /\ z.file = y.file /\ z.store = y.store
  BY <1>3, ReleaseStep DEF Step, Part
<1>5. r = [w |-> z, ok |-> q.ok]
  BY DEF Result
<1> HIDE DEF x, y, z
<1>6. Part(x, w, 2)
  BY <1>2, PartOn
<1>7. Part(y, w, 1)
  BY <1>3, <1>6, PartTwice
<1>8. Part(z, w, 0)
  BY <1>4, <1>7, PartTwice
<1>9. Grows(z.store, q.w.store)
  BY <1>2, <1>3, <1>4 DEF Part, Grows
<1>10. z.file[Tmp] = NoFile /\ z.store.ee = q.w.store.ee /\ z.store.key = q.w.store.key
  BY <1>2, <1>3, <1>4
<1>11. QED
  BY <1>5, <1>8, <1>9, <1>10 DEF Done, Result

\* A certificate of a file: on success it is loaded.
LEMMA AddCertInnerKeeps ==
    ASSUME NEW w, Safe(w), NEW cert, cert.text \in Texts, cert.certType \in CertTypes,
           NEW r \in AddCertInner(w, cert)
    PROVE  /\ Result(r) /\ Part(r.w, w, 0)
           /\ r.ok => Loaded(r.w.store, w.store, cert.certType, cert.text)
<1> DEFINE buf == [storeType |-> "FILE_PATH", text |-> cert.text]
<1>1. PICK q \in FileCtxSetBuf(w, Tmp, buf) :
        r \in IF q.ok THEN AddCert(q.w, q.w.file[Tmp].buf, cert.certType) ELSE {q}
  BY DEF AddCertInner, Then
<1>2. buf \in Buffers /\ buf.text = cert.text
  BY DEF Buffers
<1> HIDE DEF buf
<1>3. FileReturns(q, w, Tmp) /\ (q.ok => q.w.file[Tmp].buf = buf)
  BY <1>2, TmpIsFile, FileCtxSetBufKeeps
<1>4. Result(q) /\ Safe(q.w) /\ Part(q.w, w, 0) /\ q.w.store.ee = w.store.ee
  BY <1>3, FileStepIsPart DEF FileReturns, FileStep
<1>5. CASE q.ok
  <2>1. r \in AddCert(q.w, buf, cert.certType) /\ buf \in Buffers \cup {None}
    BY <1>1, <1>2, <1>3, <1>5
  <2>2. /\ Returns(r, q.w, 0)
        /\ r.ok /\ buf # None => Loaded(r.w.store, q.w.store, cert.certType, cert.text)
    BY <1>2, <1>4, <2>1, AddCertKeeps
  <2>3. Result(r) /\ Part(r.w, q.w, 0)
    BY <2>2, StepIsPart DEF Returns
  <2>4. r.ok => buf # None
    BY <2>1 DEF AddCert, Fail
  <2>5. Part(r.w, w, 0)
    BY <1>4, <2>3, PartOn
  <2>6. QED
    BY <1>4, <2>2, <2>3, <2>4, <2>5 DEF Loaded
<1>6. CASE ~q.ok
  BY <1>1, <1>4, <1>6
<1>7. QED
  BY <1>5, <1>6

\* The body of the loop in AddCert2PolicyCtx.
AddOne(w, cert) ==
    Then(CreateAndInitializeFileCtx(w), LAMBDA x : CleanResource(AddCertInner(x, cert)))

\* A certificate of a configuration file: the temporary file context and the path
\* are released whatever happened.
LEMMA AddOneKeeps ==
    ASSUME NEW w, Safe(w), w.file[Tmp] = NoFile,
           NEW cert, cert.text \in Texts, cert.certType \in CertTypes,
           NEW r \in AddOne(w, cert)
    PROVE  Done(r, w) /\ (r.ok => Loaded(r.w.store, w.store, cert.certType, cert.text))
<1>1. PICK q \in CreateAndInitializeFileCtx(w) :
        r \in IF q.ok THEN CleanResource(AddCertInner(q.w, cert)) ELSE {q}
  BY DEF AddOne, Then
<1>2. /\ Result(q)
      /\ q.ok => Part(q.w, w, 2) /\ q.w.store.ee = w.store.ee
      /\ ~q.ok => Part(q.w, w, 0) /\ q.w.file[Tmp] = NoFile
  BY CreateKeeps
<1>3. CASE q.ok
  <2>1. PICK p \in AddCertInner(q.w, cert) :
          r = [p EXCEPT !.w = Release(Release(FileCtxFree(@, Tmp)))]
    BY <1>1, <1>3 DEF CleanResource
  <2>2. Part(q.w, w, 2) /\ Safe(q.w) /\ q.w.store.ee = w.store.ee
    BY <1>2, <1>3 DEF Part
  <2>3. /\ Result(p) /\ Part(p.w, q.w, 0)
        /\ p.ok => Loaded(p.w.store, q.w.store, cert.certType, cert.text)
    BY <2>2, AddCertInnerKeeps
  <2>4. Part(p.w, w, 2)
    BY <2>2, <2>3, PartOn
  <2>5. /\ Done(r, w) /\ r.ok = p.ok /\ Grows(r.w.store, p.w.store)
        /\ r.w.store.ee = p.w.store.ee
    BY <2>1, <2>3, <2>4, CleanKeeps
  <2>6. QED
    BY <2>2, <2>3, <2>5 DEF Loaded, Grows
<1>4. CASE ~q.ok
  BY <1>1, <1>2, <1>4 DEF Done
<1>5. QED
  BY <1>3, <1>4

-----------------------------------------------------------------------------
(* The loop over the certificates.                                         *)

\* A set of natural numbers that is not empty has a least member.
LEMMA LeastMember ==
    ASSUME NEW T \in SUBSET Nat, T # {}
    PROVE  \E m \in T : \A n \in T : m <= n
<1> DEFINE R == OpToRel(<, Nat)
<1>1. IsWellFoundedOn(R, Nat)
  BY NatLessThanWellFounded, Zenon
<1>2. \A a, b \in Nat : a < b => <<a, b>> \in R
  BY DEF OpToRel
<1> HIDE DEF R
<1>3. PICK m \in T : \A n \in T : ~(<<n, m>> \in R)
  BY <1>1, WFMin
<1>4. ASSUME NEW n \in T PROVE m <= n
  <2>1. m \in Nat /\ n \in Nat
    OBVIOUS
  <2>2. ~(n < m)
    BY <1>2, <1>3, <2>1
  <2>3. QED
    BY <2>1, <2>2
<1>5. QED
  BY <1>4

\* Induction for sets: what holds of 0 and goes on holds of all numbers.
LEMMA SetInduction ==
    ASSUME NEW S, 0 \in S, \A n \in Nat : n \in S => n + 1 \in S
    PROVE  Nat \subseteq S
<1> SUFFICES ASSUME NEW k \in Nat, k \notin S PROVE FALSE
  OBVIOUS
<1> DEFINE T == {n \in Nat : n \notin S}
<1>1. PICK m \in T : \A n \in T : m <= n
  BY LeastMember
<1>2. m \in Nat /\ m # 0 /\ m \notin S
  BY <1>1
<1>3. m - 1 \in Nat /\ m - 1 \notin T
  BY <1>1, <1>2
<1>4. m - 1 \in S /\ (m - 1) + 1 = m
  BY <1>2, <1>3
<1>5. QED
  BY <1>2, <1>3, <1>4

\* f gives the results after each of the first n certificates.
IsLoop(f, n, w, certs) ==
    f = [i \in 0..n |-> IF i = 0 THEN Ok(w) ELSE AddCertAt(certs, i, f[i - 1])]

\* Recursion is well founded: there is such an f for every n.
LEMMA LoopExists ==
    ASSUME NEW w, NEW certs
    PROVE  \A n \in Nat : \E f : IsLoop(f, n, w, certs)
<1> DEFINE S == {n \in Nat : \E f : IsLoop(f, n, w, certs)}
<1>1. 0 \in S
  <2> DEFINE f == [i \in 0..0 |-> Ok(w)]
  <2>1. IsLoop(f, 0, w, certs)
    BY DEF IsLoop
  <2>2. QED
    BY <2>1
<1>2. ASSUME NEW n \in Nat, n \in S PROVE n + 1 \in S
  <2>1. PICK f : IsLoop(f, n, w, certs)
    BY <1>2
  <2> DEFINE g == [i \in 0..(n + 1) |-> IF i <= n THEN f[i] ELSE AddCertAt(certs, i, f[n])]
  <2>2. ASSUME NEW i \in 0..(n + 1)
        PROVE  g[i] = IF i = 0 THEN Ok(w) ELSE AddCertAt(certs, i, g[i - 1])
    <3>1. CASE i = 0
      <4>1. 0 \in 0..n /\ 0 <= n
        OBVIOUS
      <4>2. f[0] = Ok(w)
        BY <2>1, <4>1 DEF IsLoop
      <4>3. QED
        BY <3>1, <4>1, <4>2
    <3>2. CASE i # 0 /\ i <= n
      <4>1. i \in 0..n /\ i - 1 \in 0..n /\ i - 1 \in 0..(n + 1) /\ i - 1 <= n
        BY <3>2
      <4>2. f[i] = AddCertAt(certs, i, f[i - 1])
        BY <2>1, <3>2, <4>1 DEF IsLoop
      <4>3. g[i] = f[i] /\ g[i - 1] = f[i - 1]
        BY <3>2, <4>1
      <4> HIDE DEF g
      <4>4. QED
        BY <3>2, <4>2, <4>3
    <3>3. CASE i = n + 1
      <4>1. i # 0 /\ ~(i <= n) /\ i - 1 = n /\ n \in 0..(n + 1) /\ n <= n
        BY <3>3
      <4>2. g[i] = AddCertAt(certs, i, f[n]) /\ g[n] = f[n]
        BY <4>1
      <4> HIDE DEF g
      <4>3. QED
        BY <4>1, <4>2
    <3>4. QED
      BY <3>1, <3>2, <3>3
  <2>3. g = [i \in 0..(n + 1) |-> g[i]]
    OBVIOUS
  <2> HIDE DEF g
  <2>4. IsLoop(g, n + 1, w, certs)
    BY <2>2, <2>3 DEF IsLoop
  <2>5. QED
    BY <2>4
<1>3. Nat \subseteq S
  BY <1>1, <1>2, SetInduction
<1>4. QED
  BY <1>3

\* The function that AddCert2PolicyCtx defines is one.
LEMMA LoopUnfolds ==
    ASSUME NEW w, NEW certs, Len(certs) \in Nat
    PROVE  \E f : IsLoop(f, Len(certs), w, certs) /\ AddCert2PolicyCtx(w, certs) = f[Len(certs)]
<1> DEFINE f == CHOOSE g : IsLoop(g, Len(certs), w, certs)
<1>1. AddCert2PolicyCtx(w, certs) = f[Len(certs)]
  BY DEF AddCert2PolicyCtx, IsLoop
<1>2. IsLoop(f, Len(certs), w, certs)
  BY LoopExists
<1> HIDE DEF f
<1>3. QED
  BY <1>1, <1>2

\* The first i certificates are in the store s: every CA, every CRL and its check,
\* and of the certificates for the context itself the last.
UpTo(s, certs, i) ==
    \A j \in 1..i :
        /\ certs[j].certType = "CA" => certs[j].text \in s.ca
        /\ certs[j].certType = "CRL" => certs[j].text \in s.crl /\ s.crlCheck
        /\ /\ certs[j].certType \in OwnCertTypes
           /\ \A k \in (j + 1)..i : certs[k].certType \notin OwnCertTypes
           => s.ee = certs[j].text

\* Another certificate is loaded.
LEMMA UpToNext ==
    ASSUME NEW s, NEW t, NEW certs, NEW i \in Nat, i # 0, certs[i].certType \in CertTypes,
           UpTo(s, certs, i - 1), Grows(t, s), Loaded(t, s, certs[i].certType, certs[i].text)
    PROVE  UpTo(t, certs, i)
<1> SUFFICES ASSUME NEW j \in 1..i
             PROVE  /\ certs[j].certType = "CA" => certs[j].text \in t.ca
                    /\ certs[j].certType = "CRL" => certs[j].text \in t.crl /\ t.crlCheck
                    /\ /\ certs[j].certType \in OwnCertTypes
                       /\ \A k \in (j + 1)..i : certs[k].certType \notin OwnCertTypes
                       => t.ee = certs[j].text
  BY DEF UpTo
<1>1. CASE j = i
  BY <1>1 DEF Loaded
<1>2. CASE j # i
  <2>1. j \in 1..(i - 1) /\ i \in (j + 1)..i /\ \A k \in (j + 1)..(i - 1) : k \in (j + 1)..i
    BY <1>2
  <2>2. /\ certs[j].certType = "CA" => certs[j].text \in s.ca
        /\ certs[j].certType = "CRL" => certs[j].text \in s.crl /\ s.crlCheck
        /\ /\ certs[j].certType \in OwnCertTypes
           /\ \A k \in (j + 1)..(i - 1) : certs[k].certType \notin OwnCertTypes
           => s.ee = certs[j].text
    BY <2>1 DEF UpTo
  <2>3. certs[i].certType \notin OwnCertTypes => t.ee = s.ee
    BY DEF Loaded, CertTypes, OwnCertTypes
  <2>4. QED
    BY <2>1, <2>2, <2>3 DEF Grows
<1>3. QED
  BY <1>1, <1>2

\* A store that has grown and uses the same certificate.
LEMMA UpToGrows ==
    ASSUME NEW s, NEW t, NEW certs, NEW i, UpTo(s, certs, i), Grows(t, s), t.ee = s.ee
    PROVE  UpTo(t, certs, i)
BY DEF UpTo, Grows

\* The result r after i certificates: if it is a success, all are loaded.
Advanced(r, w, certs, i) == Done(r, w) /\ (r.ok => UpTo(r.w.store, certs, i))

\* One more certificate.
LEMMA LoopAdvances ==
    ASSUME NEW w, Safe(w), w.file[Tmp] = NoFile, NEW certs, NEW i \in Nat, i # 0,
           certs[i].text \in Texts, certs[i].certType \in CertTypes,
           NEW results, \A q \in results : Advanced(q, w, certs, i - 1),
           NEW r \in AddCertAt(certs, i, results)
    PROVE  Advanced(r, w, certs, i)
<1>1. PICK q \in results : r \in IF q.ok THEN AddOne(q.w, certs[i]) ELSE {q}
  BY DEF AddCertAt, AddOne, Then
<1>2. Done(q, w) /\ (q.ok => UpTo(q.w.store, certs, i - 1))
  BY DEF Advanced
<1>3. Result(q) /\ Part(q.w, w, 0) /\ Safe(q.w) /\ q.w.file[Tmp] = NoFile
  BY <1>2 DEF Done, Part
<1>4. CASE q.ok
  <2>1. /\ Done(r, q.w)
        /\ r.ok => Loaded(r.w.store, q.w.store, certs[i].certType, certs[i].text)
    BY <1>1, <1>3, <1>4, AddOneKeeps
  <2>2. Result(r) /\ Part(r.w, q.w, 0) /\ r.w.file[Tmp] = NoFile
    BY <2>1 DEF Done
  <2>3. Done(r, w) /\ Grows(r.w.store, q.w.store)
    BY <1>3, <2>2, PartOn DEF Done, Part
  <2>4. r.ok => UpTo(r.w.store, certs, i)
    BY <1>2, <1>4, <2>1, <2>3, UpToNext
  <2>5. QED
    BY <2>3, <2>4 DEF Advanced
<1>5. CASE ~q.ok
  BY <1>1, <1>2, <1>5 DEF Advanced
<1>6. QED
  BY <1>4, <1>5

\* All certificates of a file, however many.
LEMMA AddCert2PolicyCtxKeeps ==
    ASSUME NEW w, Safe(w), w.file[Tmp] = NoFile, NEW certs, Len(certs) \in Nat,
           \A i \in 1..Len(certs) : certs[i].text \in Texts /\ certs[i].certType \in CertTypes,
           NEW r \in AddCert2PolicyCtx(w, certs)
    PROVE  Advanced(r, w, certs, Len(certs))
<1> DEFINE n == Len(certs)
<1>1. PICK f : IsLoop(f, n, w, certs) /\ AddCert2PolicyCtx(w, certs) = f[n]
  BY LoopUnfolds
<1> HIDE DEF n
<1>2. n \in Nat /\ \A i \in 1..n : certs[i].text \in Texts /\ certs[i].certType \in CertTypes
  BY DEF n
<1> DEFINE S == {i \in Nat : i <= n => \A q \in f[i] : Advanced(q, w, certs, i)}
<1>3. 0 \in S
  <2>1. f[0] = Ok(w)
    BY <1>1, <1>2 DEF IsLoop
  <2>2. ASSUME NEW q \in Ok(w) PROVE Advanced(q, w, certs, 0)
    <3>1. q = [w |-> w, ok |-> TRUE]
      BY DEF Ok
    <3>2. Done(q, w)
      BY <3>1, PartNone DEF Done, Result
    <3>3. QED
      BY <3>2 DEF Advanced, UpTo
  <2>3. QED
    BY <2>1, <2>2
<1>4. ASSUME NEW i \in Nat, i \in S PROVE i + 1 \in S
  <2> SUFFICES ASSUME i + 1 <= n, NEW q \in f[i + 1] PROVE Advanced(q, w, certs, i + 1)
    OBVIOUS
  <2>1. /\ i + 1 \in 0..n /\ i + 1 # 0 /\ (i + 1) - 1 = i /\ i + 1 \in 1..n /\ i <= n
        /\ i + 1 \in Nat
    BY <1>2
  <2>2. f[i + 1] = AddCertAt(certs, i + 1, f[i])
    BY <1>1, <2>1 DEF IsLoop
  <2>3. \A p \in f[i] : Advanced(p, w, certs, (i + 1) - 1)
    BY <1>4, <2>1
  <2> DEFINE k == i + 1
  <2>4. /\ k \in Nat /\ k # 0 /\ certs[k].text \in Texts /\ certs[k].certType \in CertTypes
        /\ \A p \in f[i] : Advanced(p, w, certs, k - 1)
        /\ q \in AddCertAt(certs, k, f[i])
    BY <1>2, <2>1, <2>2, <2>3
  <2> HIDE DEF k
  <2>5. Advanced(q, w, certs, k)
    BY <2>4, LoopAdvances
  <2>6. QED
    BY <2>5 DEF k
<1>5. n \in S
  BY <1>2, <1>3, <1>4, SetInduction
<1>6. QED
  BY <1>1, <1>2, <1>5 DEF n

-----------------------------------------------------------------------------
(* The private key of a file.                                              *)

\* keyAuth is filled with zeros if there is anything in it.
LEMMA FillKeeps ==
    ASSUME NEW w, Safe(w)
    PROVE  LET x == FillKeyAuth(w)
           IN  /\ Part(x, w, 0) /\ x.store = w.store /\ x.file = w.file
               /\ x.keyAuth \in {"empty", "zeros"}
<1> DEFINE a == IF w.keyAuth = "empty" THEN w.keyAuth ELSE "zeros"
           x == [w EXCEPT !.keyAuth = a]
<1>1. a \in {"empty", "zeros"}
  OBVIOUS
<1>2. FillKeyAuth(w) = x
  BY DEF FillKeyAuth
<1> HIDE DEF a
<1>3. /\ x \in Worlds /\ x.tmp = w.tmp + 0 /\ x.file = w.file /\ x.store = w.store
      /\ x.freed = w.freed /\ x.readDangling = w.readDangling /\ x.keyAuth = a
  BY <1>1 DEF Safe, Worlds
<1> HIDE DEF x
<1>4. QED
  BY <1>1, <1>2, <1>3 DEF Part, Safe, Grows

\* The password of the temporary file context.
LEMMA SetFileCtxPasswordKeeps ==
    ASSUME NEW w, Safe(w), NEW auth, NEW r \in SetFileCtxPassword(w, auth)
    PROVE  Result(r) /\ Part(r.w, w, 0) /\ (r.ok => r.w.store.ee = w.store.ee)
<1>1. CASE r \in Fail(w)
  <2>1. r = [w |-> w, ok |-> FALSE]
    BY <1>1 DEF Fail
  <2>2. QED
    BY <2>1, PartNone DEF Result
<1>2. ASSUME NEW q \in FileCtxSetPwd(w, Tmp, TRUE),
             r = IF q.ok THEN q ELSE [q EXCEPT !.w = FillKeyAuth(@)]
      PROVE  Result(r) /\ Part(r.w, w, 0) /\ (r.ok => r.w.store.ee = w.store.ee)
  <2>1. FileReturns(q, w, Tmp)
    BY TmpIsFile, FileCtxSetPwdKeeps
  <2>2. Result(q) /\ Safe(q.w) /\ Part(q.w, w, 0) /\ q.w.store.ee = w.store.ee
    BY <2>1, FileStepIsPart DEF FileReturns, FileStep
  <2>3. CASE q.ok
    BY <1>2, <2>2, <2>3
  <2>4. CASE ~q.ok
    <3> DEFINE x == FillKeyAuth(q.w)
    <3>1. Part(x, q.w, 0)
      BY <2>2, FillKeeps
    <3>2. r = [w |-> x, ok |-> FALSE]
      BY <1>2, <2>2, <2>4 DEF Result
    <3> HIDE DEF x
    <3>3. Part(x, w, 0)
      BY <2>2, <3>1, PartOn
    <3>4. QED
      BY <3>2, <3>3 DEF Result
  <2>5. QED
    BY <2>3, <2>4
<1>3. QED
  BY <1>1, <1>2 DEF SetFileCtxPassword

\* Path, password and key, each after the success of the one before.
LEMMA SetKeyAndPwdKeeps ==
    ASSUME NEW w, Safe(w), NEW privKey, privKey.text \in Texts, NEW r \in SetKeyAndPwd(w, privKey)
    PROVE  /\ Result(r) /\ Part(r.w, w, 0)
           /\ r.ok => r.w.store.key /\ r.w.store.ee = w.store.ee
<1> DEFINE buf == [storeType |-> "FILE_PATH", text |-> privKey.text]
<1>1. PICK q \in FileCtxSetBuf(w, Tmp, buf) :
        r \in IF q.ok
              THEN UNION {IF p.ok THEN SetKey(p.w, Tmp) ELSE {p}
                          : p \in SetFileCtxPassword(q.w, privKey.auth)}
              ELSE {q}
  BY DEF SetKeyAndPwd, Then
<1>2. buf \in Buffers
  BY DEF Buffers
<1> HIDE DEF buf
<1>3. FileReturns(q, w, Tmp)
  BY <1>2, TmpIsFile, FileCtxSetBufKeeps
<1>4. Result(q) /\ Safe(q.w) /\ Part(q.w, w, 0) /\ q.w.store.ee = w.store.ee
  BY <1>3, FileStepIsPart DEF FileReturns, FileStep
<1>5. CASE q.ok
  <2>1. PICK p \in SetFileCtxPassword(q.w, privKey.auth) :
          r \in IF p.ok THEN SetKey(p.w, Tmp) ELSE {p}
    BY <1>1, <1>5
  <2>2. /\ Result(p) /\ Part(p.w, q.w, 0) /\ Safe(p.w)
        /\ p.ok => p.w.store.ee = q.w.store.ee
    BY <1>4, SetFileCtxPasswordKeeps DEF Part
  <2>3. Part(p.w, w, 0)
    BY <1>4, <2>2, PartOn
  <2>4. CASE p.ok
    <3>1. Returns(r, p.w, 0) /\ (r.ok => r.w.store.key /\ r.w.store.ee = p.w.store.ee)
      BY <2>1, <2>2, <2>4, TmpIsFile, SetKeyKeeps
    <3>2. Result(r) /\ Part(r.w, p.w, 0)
      BY <3>1, StepIsPart DEF Returns
    <3>3. QED
      BY <1>4, <2>2, <2>3, <2>4, <3>1, <3>2, PartOn
  <2>5. CASE ~p.ok
    BY <2>1, <2>2, <2>3, <2>5
  <2>6. QED
    BY <2>4, <2>5
<1>6. CASE ~q.ok
  BY <1>1, <1>4, <1>6
<1>7. QED
  BY <1>5, <1>6

\* The body of SetPrivKeyAndPwd4Ctx.
SetOneKey(w, privKey) ==
    Then(CreateAndInitializeFileCtx(w), LAMBDA x : CleanResource(SetKeyAndPwd(x, privKey)))

\* The temporary file context of the key is released whatever happened.
LEMMA SetOneKeyKeeps ==
    ASSUME NEW w, Safe(w), w.file[Tmp] = NoFile, NEW privKey, privKey.text \in Texts,
           NEW r \in SetOneKey(w, privKey)
    PROVE  Done(r, w) /\ (r.ok => r.w.store.key /\ r.w.store.ee = w.store.ee)
<1>1. PICK q \in CreateAndInitializeFileCtx(w) :
        r \in IF q.ok THEN CleanResource(SetKeyAndPwd(q.w, privKey)) ELSE {q}
  BY DEF SetOneKey, Then
<1>2. /\ Result(q)
      /\ q.ok => Part(q.w, w, 2) /\ q.w.store.ee = w.store.ee
      /\ ~q.ok => Part(q.w, w, 0) /\ q.w.file[Tmp] = NoFile
  BY CreateKeeps
<1>3. CASE q.ok
  <2>1. PICK p \in SetKeyAndPwd(q.w, privKey) :
          r = [p EXCEPT !.w = Release(Release(FileCtxFree(@, Tmp)))]
    BY <1>1, <1>3 DEF CleanResource
  <2>2. Part(q.w, w, 2) /\ Safe(q.w) /\ q.w.store.ee = w.store.ee
    BY <1>2, <1>3 DEF Part
  <2>3. /\ Result(p) /\ Part(p.w, q.w, 0)
        /\ p.ok => p.w.store.key /\ p.w.store.ee = q.w.store.ee
    BY <2>2, SetKeyAndPwdKeeps
  <2>4. Part(p.w, w, 2)
    BY <2>2, <2>3, PartOn
  <2>5. /\ Done(r, w) /\ r.ok = p.ok
        /\ r.w.store.ee = p.w.store.ee /\ r.w.store.key = p.w.store.key
    BY <2>1, <2>3, <2>4, CleanKeeps
  <2>6. QED
    BY <2>2, <2>3, <2>5
<1>4. CASE ~q.ok
  BY <1>1, <1>2, <1>4 DEF Done
<1>5. QED
  BY <1>3, <1>4

\* The private key of a configuration file: on success it is in force, the
\* certificate in use is the same, and keyAuth has been cleared.
LEMMA SetPrivKeyKeeps ==
    ASSUME NEW w, Safe(w), w.file[Tmp] = NoFile,
           NEW privKey, privKey = None \/ privKey.text \in Texts,
           NEW r \in SetPrivKeyAndPwd4Ctx(w, privKey)
    PROVE  /\ Done(r, w)
           /\ r.ok => r.w.store.ee = w.store.ee
           /\ r.ok /\ privKey # None => r.w.store.key /\ r.w.keyAuth \in {"empty", "zeros"}
           /\ r.ok /\ privKey = None => r.w.keyAuth = w.keyAuth
<1>1. CASE privKey = None
  <2>1. r = [w |-> w, ok |-> TRUE]
    BY <1>1 DEF SetPrivKeyAndPwd4Ctx, Ok
  <2>2. QED
    BY <1>1, <2>1, PartNone DEF Done, Result
<1>2. CASE privKey # None
  <2>1. PICK q \in SetOneKey(w, privKey) : r \in IF q.ok THEN Ok(FillKeyAuth(q.w)) ELSE {q}
    <3>1. r \in Then(SetOneKey(w, privKey), LAMBDA y : Ok(FillKeyAuth(y)))
      BY <1>2, Zenon DEF SetPrivKeyAndPwd4Ctx, SetOneKey
    <3>2. QED
      BY <3>1 DEF Then
  <2>2. Done(q, w) /\ (q.ok => q.w.store.key /\ q.w.store.ee = w.store.ee)
    BY <1>2, SetOneKeyKeeps
  <2>3. CASE q.ok
    <3> DEFINE x == FillKeyAuth(q.w)
    <3>1. Result(q) /\ Part(q.w, w, 0) /\ Safe(q.w) /\ q.w.file[Tmp] = NoFile
      BY <2>2 DEF Done, Part
    <3>2. /\ Part(x, q.w, 0) /\ x.store = q.w.store /\ x.file = q.w.file
          /\ x.keyAuth \in {"empty", "zeros"}
      BY <3>1, FillKeeps
    <3>3. r = [w |-> x, ok |-> TRUE]
      BY <2>1, <2>3 DEF Ok
    <3> HIDE DEF x
    <3>4. Part(x, w, 0)
      BY <3>1, <3>2, PartOn
    <3>5. QED
      BY <1>2, <2>2, <2>3, <3>1, <3>2, <3>3, <3>4 DEF Done, Result
  <2>4. CASE ~q.ok
    BY <2>1, <2>2, <2>4
  <2>5. QED
    BY <2>3, <2>4
<1>3. QED
  BY <1>1, <1>2

\* What a file says of certificates and of the key is in force in the store s.
CertsInForce(s, conf) ==
    /\ UpTo(s, conf.certs, Len(conf.certs))
    /\ conf.privKey # None => s.key

\* The elements of a sequence of certificates.
LEMMA ElementsOf ==
    ASSUME NEW S, NEW s \in Seq(S)
    PROVE  /\ Len(s) \in Nat /\ DOMAIN s = 1..Len(s)
           /\ \A i \in 1..Len(s) : s[i] \in S
<1>1. Len(s) \in Nat /\ DOMAIN s = 1..Len(s)
  BY LenProperties
<1>2. ASSUME NEW i \in 1..Len(s)
      PROVE  s[i] \in S
  BY ElementOfSeq
<1>3. QED
  BY <1>1, <1>2

\* The certificates and the key of a file.
LEMMA SetCertAndKeyKeeps ==
    ASSUME NEW c, NEW w, Safe(w), w.file[Tmp] = NoFile, NEW conf \in Confs, ParseConfig(conf),
           conf.privKey = None => w.keyAuth = "empty",
           NEW r \in SetCertAndKey(c, w, conf)
    PROVE  /\ r = [c |-> c, w |-> r.w, ok |-> r.ok] /\ r.ok \in BOOLEAN
           /\ Part(r.w, w, 0) /\ r.w.file[Tmp] = NoFile
           /\ r.ok => CertsInForce(r.w.store, conf) /\ r.w.keyAuth \in {"empty", "zeros"}
<1>1. /\ Len(conf.certs) \in Nat
      /\ \A i \in 1..Len(conf.certs) :
           conf.certs[i].text \in Texts /\ conf.certs[i].certType \in CertTypes
      /\ conf.privKey = None \/ conf.privKey.text \in Texts
  <2>1. /\ conf.certs \in Seq([certType : STRING, text : Texts])
        /\ conf.privKey = None \/ conf.privKey.text \in Texts
    BY ConfsAssumption
  <2>2. /\ Len(conf.certs) \in Nat /\ DOMAIN conf.certs = 1..Len(conf.certs)
        /\ \A i \in 1..Len(conf.certs) : conf.certs[i] \in [certType : STRING, text : Texts]
    BY <2>1, ElementsOf, Zenon
  <2>3. \A i \in 1..Len(conf.certs) : conf.certs[i].certType \in CertTypes
    BY <2>2 DEF ParseConfig, ParseCertsJson
  <2>4. QED
    BY <2>1, <2>2, <2>3
<1>2. PICK q \in AddCert2PolicyCtx(w, conf.certs) :
        \E o \in IF q.ok THEN SetPrivKeyAndPwd4Ctx(q.w, conf.privKey) ELSE {q} :
          r = [c |-> c, w |-> o.w, ok |-> o.ok]
  BY DEF SetCertAndKey, OnWorld, Then
<1>3. PICK o \in IF q.ok THEN SetPrivKeyAndPwd4Ctx(q.w, conf.privKey) ELSE {q} :
        r = [c |-> c, w |-> o.w, ok |-> o.ok]
  BY <1>2
<1>4. Advanced(q, w, conf.certs, Len(conf.certs))
  BY <1>1, AddCert2PolicyCtxKeeps
<1>5. /\ Done(q, w)
      /\ q.ok => UpTo(q.w.store, conf.certs, Len(conf.certs))
  BY <1>4 DEF Advanced
<1>6. /\ Result(q) /\ Part(q.w, w, 0) /\ Safe(q.w) /\ q.w.file[Tmp] = NoFile
      /\ conf.privKey = None => q.w.keyAuth \in {"empty", "zeros"}
  BY <1>5 DEF Done, Part
<1>7. CASE q.ok
  <2>1. /\ Done(o, q.w)
        /\ o.ok => o.w.store.ee = q.w.store.ee
        /\ o.ok /\ conf.privKey # None => o.w.store.key /\ o.w.keyAuth \in {"empty", "zeros"}
        /\ o.ok /\ conf.privKey = None => o.w.keyAuth = q.w.keyAuth
    BY <1>1, <1>3, <1>6, <1>7, SetPrivKeyKeeps
  <2>2. Result(o) /\ Part(o.w, q.w, 0) /\ o.w.file[Tmp] = NoFile
    BY <2>1 DEF Done
  <2>3. Part(o.w, w, 0) /\ Grows(o.w.store, q.w.store)
    BY <1>6, <2>2, PartOn DEF Part
  <2>4. o.ok => CertsInForce(o.w.store, conf) /\ o.w.keyAuth \in {"empty", "zeros"}
    BY <1>5, <1>6, <1>7, <2>1, <2>3, UpToGrows DEF CertsInForce
  <2>5. QED
    BY <1>3, <2>2, <2>3, <2>4 DEF Result
<1>8. CASE ~q.ok
  BY <1>3, <1>6, <1>8 DEF Result
<1>9. QED
  BY <1>7, <1>8

-----------------------------------------------------------------------------
(* The TLS settings of a file.                                             *)

\* The version bounds that a file asks for are in force, and its suites.
VersionInForce(s, v) ==
    v # None => s.min = v.min /\ s.max = v.max /\ ToSet(v.forbid) \subseteq s.no

SuitesInForce(s, suites) == suites # None => s.suites = ToSet(suites)

\* In the high mode nothing but TLS 1.3 is let through.  A failure can leave
\* the lower bound set and the upper one not.
LEMMA SetProtocolVersionKeeps ==
    ASSUME Tuned(ctx), NEW w, NEW v, v # None => ParseTLSVersion(v),
           NEW r \in SetProtocolVersion4PolicyCtx(ctx, w, v)
    PROVE  /\ r = [c |-> r.c, w |-> w, ok |-> r.ok] /\ r.ok \in BOOLEAN
           /\ Tuned(r.c)
           /\ r.ok => VersionInForce(r.c.ssl, v)
<1>1. CASE v = None
  <2>1. r = [c |-> ctx, w |-> w, ok |-> TRUE]
    BY <1>1 DEF SetProtocolVersion4PolicyCtx, Yes
  <2>2. QED
    BY <1>1, <2>1 DEF VersionInForce
<1>2. CASE v # None /\ ~Policy!VersionAllowed(v.min, v.max)
  <2>1. r = [c |-> ctx, w |-> w, ok |-> FALSE]
    BY <1>2 DEF SetProtocolVersion4PolicyCtx, No
  <2>2. QED
    BY <2>1
<1>3. CASE v # None /\ Policy!VersionAllowed(v.min, v.max)
  <2> DEFINE a == v.min
             b == v.max
             F == ToSet(v.forbid)
             c1 == [ctx EXCEPT !.ssl.min = a]
             c2 == [c1 EXCEPT !.ssl.max = b]
             c3 == [c2 EXCEPT !.ssl.no = @ \cup F]
  <2>1. PICK q \in Policy!SetProtocolVersion(ctx, a, b, F) : r = [c |-> q.c, w |-> w, ok |-> q.ok]
    BY <1>3 DEF SetProtocolVersion4PolicyCtx, OnContext
  <2>2. \/ q = [c |-> ctx, ok |-> FALSE]
        \/ q = [c |-> c1, ok |-> FALSE]
        \/ q = [c |-> c2, ok |-> FALSE]
        \/ q = [c |-> c3, ok |-> TRUE]
    BY DEF Policy!SetProtocolVersion, Policy!Ok, Policy!Fail
  <2>3. /\ a \in {3, 4} /\ b \in {3, 4} /\ F \subseteq {3, 4}
        /\ ctx.policyMode = "HIGH" => a = 4 /\ b = 4
    BY <1>3 DEF ParseTLSVersion, ToSet, Policy!Mapped, Policy!TLS12, Policy!TLS13, Policy!VersionAllowed
  <2> HIDE DEF a, b, F
  <2>4. Tuned(c1) /\ c1.ssl.min = a
    BY <2>3 DEF Tuned, Ctxs, SslCtxs, Policy!TLS13
  <2> HIDE DEF c1
  <2>5. Tuned(c2) /\ c2.ssl.min = a /\ c2.ssl.max = b
    <3>1. c1.policyMode = ctx.policyMode
      BY DEF c1, Tuned, Ctxs
    <3>2. QED
      BY <2>3, <2>4, <3>1 DEF Tuned, Ctxs, SslCtxs, Policy!TLS13
  <2> HIDE DEF c2
  <2>6. Tuned(c3) /\ c3.ssl.min = a /\ c3.ssl.max = b /\ F \subseteq c3.ssl.no
    BY <2>3, <2>5 DEF Tuned, Ctxs, SslCtxs, Policy!Mapped, Policy!TLS12, Policy!TLS13
  <2> HIDE DEF c3
  <2>7. CASE q = [c |-> ctx, ok |-> FALSE]
    BY <2>1, <2>7
  <2>8. CASE q = [c |-> c1, ok |-> FALSE]
    BY <2>1, <2>4, <2>8
  <2>9. CASE q = [c |-> c2, ok |-> FALSE]
    BY <2>1, <2>5, <2>9
  <2>10. CASE q = [c |-> c3, ok |-> TRUE]
    BY <2>1, <2>6, <2>10 DEF VersionInForce, a, b, F
  <2>11. QED
    BY <2>2, <2>7, <2>8, <2>9, <2>10
<1>4. QED
  BY <1>1, <1>2, <1>3

\* A context of which only the suites have changed.
SameVersions(s, t) == s.min = t.min /\ s.max = t.max /\ s.no = t.no

\* The cipher suites of a configuration file leave the versions alone.
LEMMA SetCipherSuitesKeeps ==
    ASSUME NEW c, Tuned(c), NEW w, NEW suites, suites # None => ParseTLSCiphersuites(suites),
           NEW r \in SetCipherSuites4PolicyCtx(c, w, suites)
    PROVE  /\ r = [c |-> r.c, w |-> w, ok |-> r.ok] /\ r.ok \in BOOLEAN
           /\ Tuned(r.c) /\ SameVersions(r.c.ssl, c.ssl)
           /\ r.ok => SuitesInForce(r.c.ssl, suites)
<1>1. CASE suites = None
  <2>1. r = [c |-> c, w |-> w, ok |-> TRUE]
    BY <1>1 DEF SetCipherSuites4PolicyCtx, Yes
  <2>2. QED
    BY <1>1, <2>1 DEF SuitesInForce, SameVersions
<1>2. CASE suites # None
  <2> DEFINE S == ToSet(suites)
             x == [c EXCEPT !.ssl.suites = S \cap Policy!NamedSuites]
  <2>1. PICK q \in Policy!SetCipherSuites(c, S) : r = [c |-> q.c, w |-> w, ok |-> q.ok]
    BY <1>2 DEF SetCipherSuites4PolicyCtx, OnContext
  <2>2. S \subseteq Policy!NamedSuites
    BY <1>2 DEF ParseTLSCiphersuites, ToSet
  <2>3. \/ q = [c |-> c, ok |-> FALSE]
        \/ S \cap Policy!NamedSuites # {} /\ q = [c |-> x, ok |-> TRUE]
    BY DEF Policy!SetCipherSuites, Policy!Ok, Policy!Fail
  <2>4. S \cap Policy!NamedSuites = S
    BY <2>2
  <2> HIDE DEF S
  <2>5. CASE q = [c |-> c, ok |-> FALSE]
    BY <2>1, <2>5 DEF SameVersions
  <2>6. CASE S # {} /\ q = [c |-> x, ok |-> TRUE]
    <3>1. Tuned(x) /\ SameVersions(x.ssl, c.ssl) /\ x.ssl.suites = S
      BY <2>2, <2>4, <2>6 DEF Tuned, Ctxs, SslCtxs, SameVersions
    <3> HIDE DEF x
    <3>2. QED
      BY <2>1, <2>6, <3>1 DEF SuitesInForce, S
  <2>7. QED
    BY <2>3, <2>4, <2>5, <2>6
<1>3. QED
  BY <1>1, <1>2

\* Versions, then suites.
LEMMA SetTLSKeeps ==
    ASSUME Tuned(ctx), NEW w, NEW conf, ParseConfig(conf), NEW r \in SetTLS(ctx, w, conf)
    PROVE  /\ r = [c |-> r.c, w |-> w, ok |-> r.ok] /\ r.ok \in BOOLEAN
           /\ Tuned(r.c)
           /\ r.ok => VersionInForce(r.c.ssl, conf.version) /\ SuitesInForce(r.c.ssl, conf.suites)
<1>1. PICK q \in SetProtocolVersion4PolicyCtx(ctx, w, conf.version) :
        r \in IF q.ok THEN SetCipherSuites4PolicyCtx(q.c, q.w, conf.suites) ELSE {q}
  BY DEF SetTLS, AndThen
<1>2. /\ q = [c |-> q.c, w |-> w, ok |-> q.ok] /\ q.ok \in BOOLEAN
      /\ Tuned(q.c)
      /\ q.ok => VersionInForce(q.c.ssl, conf.version)
  BY SetProtocolVersionKeeps DEF ParseConfig
<1>3. q.w = w
  BY <1>2
<1>4. CASE q.ok
  <2>1. /\ r = [c |-> r.c, w |-> w, ok |-> r.ok] /\ r.ok \in BOOLEAN
        /\ Tuned(r.c) /\ SameVersions(r.c.ssl, q.c.ssl)
        /\ r.ok => SuitesInForce(r.c.ssl, conf.suites)
    BY <1>1, <1>2, <1>3, <1>4, SetCipherSuitesKeeps DEF ParseConfig
  <2>2. QED
    BY <1>2, <1>4, <2>1 DEF VersionInForce, SameVersions
<1>5. CASE ~q.ok
  BY <1>1, <1>2, <1>5
<1>6. QED
  BY <1>4, <1>5

\* A call of SCF_SetConfigFile with nothing of its own left but the Config.
Applied(w) == Safe(w) /\ w.tmp = 0 /\ w.file[Tmp] = NoFile

\* The whole file: on success all of it is in force and keyAuth has been cleared,
\* and a failure anywhere leaves nothing outstanding but the Config.
LEMMA SetConfigKeeps ==
    ASSUME Tuned(ctx), NEW w, Applied(w), NEW conf \in Confs, ParseConfig(conf),
           conf.privKey = None => w.keyAuth = "empty",
           NEW r \in SetConfig(ctx, w, conf)
    PROVE  /\ Tuned(r.c) /\ Applied(r.w) /\ Grows(r.w.store, w.store) /\ r.ok \in BOOLEAN
           /\ r.ok => /\ VersionInForce(r.c.ssl, conf.version)
                      /\ SuitesInForce(r.c.ssl, conf.suites)
                      /\ CertsInForce(r.w.store, conf)
                      /\ r.w.keyAuth \in {"empty", "zeros"}
<1>1. PICK q \in SetTLS(ctx, w, conf) :
        r \in IF q.ok THEN SetCertAndKey(q.c, q.w, conf) ELSE {q}
  BY DEF SetConfig, AndThen
<1>2. /\ q = [c |-> q.c, w |-> w, ok |-> q.ok] /\ q.ok \in BOOLEAN
      /\ Tuned(q.c)
      /\ q.ok => VersionInForce(q.c.ssl, conf.version) /\ SuitesInForce(q.c.ssl, conf.suites)
  BY SetTLSKeeps
<1>3. q.w = w /\ Safe(w) /\ w.tmp = 0 /\ w.file[Tmp] = NoFile
  BY <1>2 DEF Applied
<1>4. CASE q.ok
  <2>1. /\ r = [c |-> q.c, w |-> r.w, ok |-> r.ok] /\ r.ok \in BOOLEAN
        /\ Part(r.w, w, 0) /\ r.w.file[Tmp] = NoFile
        /\ r.ok => CertsInForce(r.w.store, conf) /\ r.w.keyAuth \in {"empty", "zeros"}
    BY <1>1, <1>3, <1>4, SetCertAndKeyKeeps
  <2>2. Applied(r.w) /\ Grows(r.w.store, w.store)
    BY <1>3, <2>1 DEF Applied, Part
  <2>3. r.c = q.c
    BY <2>1
  <2>4. QED
    BY <1>2, <1>4, <2>1, <2>2, <2>3
<1>5. CASE ~q.ok
  BY <1>1, <1>2, <1>3, <1>5 DEF Applied, Grows
<1>6. QED
  BY <1>4, <1>5

\* A world that differs in the copy of keyAuth.
LEMMA KeyAuthChange ==
    ASSUME NEW w, Applied(w), NEW a \in {"empty", "key_authentication", "zeros"}
    PROVE  LET x == [w EXCEPT !.keyAuth = a]
           IN  Applied(x) /\ x.store = w.store /\ x.keyAuth = a
<1> DEFINE x == [w EXCEPT !.keyAuth = a]
<1>1. /\ x \in Worlds /\ x.tmp = w.tmp /\ x.file = w.file /\ x.store = w.store
      /\ x.freed = w.freed /\ x.readDangling = w.readDangling /\ x.keyAuth = a
  BY DEF Applied, Safe, Worlds
<1> HIDE DEF x
<1>2. QED
  BY <1>1 DEF x, Applied, Safe

\* The parser fills keyAuth only if there is a private key.
LEMMA ParsedKeeps ==
    ASSUME NEW w, Idle(w), NEW conf
    PROVE  LET x == ParsedInto(w, conf)
           IN  Applied(x) /\ x.store = w.store /\ (conf.privKey = None => x.keyAuth = "empty")
<1> DEFINE a == IF conf.privKey = None \/ conf.privKey.auth.storeBuf = None
                THEN "empty" ELSE "key_authentication"
<1>1. a \in {"empty", "key_authentication", "zeros"} /\ (conf.privKey = None => a = "empty")
  OBVIOUS
<1>2. ParsedInto(w, conf) = [w EXCEPT !.keyAuth = a]
  BY DEF ParsedInto
<1>3. Applied(w)
  BY DEF Applied, Idle
<1> HIDE DEF a
<1> DEFINE x == [w EXCEPT !.keyAuth = a]
<1>4. Applied(x) /\ x.store = w.store /\ x.keyAuth = a
  BY <1>1, <1>3, KeyAuthChange
<1> HIDE DEF x
<1>5. QED
  BY <1>1, <1>2, <1>4 DEF x

\* After a failure keyAuth is cleared.
LEMMA CleanConfigKeeps ==
    ASSUME NEW w, Applied(w)
    PROVE  LET x == CleanConfig(w)
           IN  Applied(x) /\ x.store = w.store /\ x.keyAuth \in {"empty", "zeros"}
<1> DEFINE x == CleanConfig(w)
<1>1. Safe(w) /\ w.tmp = 0
  BY DEF Applied
<1>2. /\ Part(x, w, 0) /\ x.store = w.store /\ x.file = w.file
      /\ x.keyAuth \in {"empty", "zeros"}
  BY <1>1, FillKeeps DEF CleanConfig
<1> HIDE DEF x
<1>3. x.tmp = 0 + 0 /\ Safe(x)
  BY <1>1, <1>2 DEF Part
<1>4. QED
  BY <1>2, <1>3 DEF x, Applied

\* A Config whose keyAuth has been cleared shows nothing when it is destroyed.
LEMMA DestroyKeeps ==
    ASSUME NEW w, Applied(w), w.keyAuth \in {"empty", "zeros"}
    PROVE  Idle(DestroyConfig(w)) /\ DestroyConfig(w).store = w.store
<1>1. {w.keyAuth} \cap Secrets = {}
  BY DEF Secrets
<1>2. Delete(w, w.keyAuth) = w
  BY <1>1 DEF Delete, Applied, Safe, Worlds
<1>3. DestroyConfig(w) = [w EXCEPT !.keyAuth = "empty"]
  BY <1>2 DEF DestroyConfig
<1> DEFINE x == [w EXCEPT !.keyAuth = "empty"]
<1>4. Applied(x) /\ x.store = w.store /\ x.keyAuth = "empty"
  BY KeyAuthChange
<1> HIDE DEF x
<1>5. QED
  BY <1>3, <1>4 DEF x, Applied, Idle

\* What is said of the certificates of a file, as InForce says it.
CertsOf(s, conf) ==
    \A i \in DOMAIN conf.certs :
        /\ conf.certs[i].certType = "CA" => conf.certs[i].text \in s.ca
        /\ conf.certs[i].certType = "CRL" => conf.certs[i].text \in s.crl /\ s.crlCheck
        /\ IsLastOwnCert(conf.certs, i) => s.ee = conf.certs[i].text

\* It follows from what the loop has done.
LEMMA AllLoaded ==
    ASSUME NEW conf \in Confs, NEW s, CertsInForce(s, conf)
    PROVE  CertsOf(s, conf)
<1>1. conf.certs \in Seq([certType : STRING, text : Texts])
  BY ConfsAssumption
<1> DEFINE certs == conf.certs
           n == Len(certs)
<1>2. n \in Nat /\ DOMAIN certs = 1..n
  BY <1>1, ElementsOf, Zenon
<1>3. UpTo(s, certs, n)
  BY DEF CertsInForce
<1> HIDE DEF n
<1>4. ASSUME NEW i \in 1..n
      PROVE  /\ certs[i].certType = "CA" => certs[i].text \in s.ca
             /\ certs[i].certType = "CRL" => certs[i].text \in s.crl /\ s.crlCheck
             /\ IsLastOwnCert(certs, i) => s.ee = certs[i].text
  <2>1. /\ certs[i].certType = "CA" => certs[i].text \in s.ca
        /\ certs[i].certType = "CRL" => certs[i].text \in s.crl /\ s.crlCheck
        /\ /\ certs[i].certType \in OwnCertTypes
           /\ \A k \in (i + 1)..n : certs[k].certType \notin OwnCertTypes
           => s.ee = certs[i].text
    BY <1>3 DEF UpTo
  <2>2. ASSUME IsLastOwnCert(certs, i)
        PROVE  /\ certs[i].certType \in OwnCertTypes
               /\ \A k \in (i + 1)..n : certs[k].certType \notin OwnCertTypes
    <3>1. \A k \in (i + 1)..n : k \in 1..n /\ k > i
      BY <1>2
    <3>2. QED
      BY <1>2, <2>2, <3>1 DEF IsLastOwnCert
  <2>3. QED
    BY <2>1, <2>2
<1>5. QED
  BY <1>2, <1>4 DEF CertsOf

-----------------------------------------------------------------------------
(* The initial states.                                                     *)

\* An SSL_CTX that has just been made.
LEMMA NewSslCtx ==
    ASSUME NEW role \in Policy!Roles
    PROVE  /\ Policy!SslCtxNew(role) \in SslCtxs
           /\ Policy!SslCtxNew(role).suites = Policy!NamedSuites
           /\ Policy!NamedSuites # {}
BY DEF Policy!SslCtxNew, SslCtxs, Policy!NamedSuites, Policy!Mapped, Policy!TLS12, Policy!TLS13

\* An SSL_CTX of security level two, when its versions have been set.
LEMMA InitSslTuned ==
    ASSUME NEW c \in Ctxs, NEW min \in {3, 4}, c.policyMode = "HIGH" => min = 4,
           c.ssl.suites # {}, c.ssl.level = 2,
           NEW r \in Policy!SetProtocolVersion(c, min, 4, {}), r.ok
    PROVE  Tuned(r.c)
<1> DEFINE c1 == [c EXCEPT !.ssl.min = min]
           c2 == [c1 EXCEPT !.ssl.max = 4]
           c3 == [c2 EXCEPT !.ssl.no = @ \cup {}]
<1>1. r.c = c3
  BY DEF Policy!SetProtocolVersion, Policy!Ok, Policy!Fail
<1>2. /\ c1 \in Ctxs /\ c1.policyMode = c.policyMode /\ c1.ssl.min = min
      /\ c1.ssl.suites # {} /\ c1.ssl.level = 2
  BY DEF Ctxs, SslCtxs
<1> HIDE DEF c1
<1>3. /\ c2 \in Ctxs /\ c2.policyMode = c.policyMode /\ c2.ssl.min = min /\ c2.ssl.max = 4
      /\ c2.ssl.suites # {} /\ c2.ssl.level = 2
  BY <1>2 DEF Ctxs, SslCtxs
<1> HIDE DEF c2
<1>4. c3 = c2
  BY <1>3 DEF Ctxs, SslCtxs
<1>5. QED
  BY <1>1, <1>3, <1>4 DEF Tuned, Policy!TLS13

\* An SSL_CTX of the customer mode.
LEMMA InitSslCustomerTuned ==
    ASSUME NEW c \in Ctxs, c.policyMode = "CUSTOMER", c.ssl.suites # {}
    PROVE  Tuned(c)
BY DEF Tuned

\* A context whose policy has been set is tuned as its mode asks.
LEMMA InitPolicyTuned ==
    ASSUME NEW mode \in Policy!PolicyModes, NEW c,
           c = [role |-> "SERVER", policyMode |-> mode, verifyMode |-> {"DEFAULT"},
                isSetRole |-> FALSE, find |-> FALSE, use |-> FALSE, ssl |-> None],
           NEW r \in Policy!InitPolicyByMode(c), r.ok
    PROVE  Tuned(r.c)
<1>1. /\ "SERVER" \in Policy!Roles /\ {"DEFAULT"} \in SUBSET Policy!VerifyBits
      /\ c.policyMode = mode /\ c.role = "SERVER"
  BY DEF Policy!Roles, Policy!VerifyBits
<1>2. r \notin Policy!Fail(c)
  <2>1. ASSUME r = [c |-> c, ok |-> FALSE]
        PROVE  FALSE
    BY <2>1
  <2>2. QED
    BY <2>1, Zenon DEF Policy!Fail
<1>3. ASSUME NEW s \in SslCtxs
      PROVE  /\ [c EXCEPT !.ssl = s] \in Ctxs
             /\ [c EXCEPT !.ssl = s].ssl = s
             /\ [c EXCEPT !.ssl = s].policyMode = mode
  BY <1>1 DEF Ctxs
<1>4. ASSUME NEW min \in {3, 4}, mode = "HIGH" => min = 4, r \in Policy!InitSsl(c, min)
      PROVE  Tuned(r.c)
  <2> DEFINE s == [Policy!SslCtxNew(c.role) EXCEPT !.level = 2]
             d == [c EXCEPT !.ssl = s]
  <2>1. s \in SslCtxs /\ s.suites # {} /\ s.level = 2
    <3>1. /\ Policy!SslCtxNew(c.role) \in SslCtxs
          /\ Policy!SslCtxNew(c.role).suites # {}
      BY <1>1, NewSslCtx
    <3>2. QED
      BY <3>1 DEF SslCtxs
  <2> HIDE DEF s
  <2>2. d \in Ctxs /\ d.ssl = s /\ d.policyMode = mode
    BY <1>3, <2>1
  <2>3. PICK q \in Policy!SetProtocolVersion(d, min, 4, {}) :
          r \in IF q.ok THEN Policy!Ok(q.c) ELSE Policy!Fail([q.c EXCEPT !.ssl = None])
    BY <1>2, <1>4, Zenon DEF Policy!InitSsl, Policy!TLS13, s
  <2>4. q.ok /\ r.c = q.c
    BY <2>3 DEF Policy!Ok, Policy!Fail
  <2> HIDE DEF d
  <2>5. Tuned(q.c)
    BY <1>4, <2>1, <2>2, <2>3, <2>4, InitSslTuned
  <2>6. QED
    BY <2>4, <2>5
<1>5. CASE mode = "HIGH"
  <2>1. r \in Policy!InitSsl(c, 4)
    BY <1>1, <1>5 DEF Policy!InitPolicyByMode, Policy!TLS13
  <2>2. QED
    BY <1>4, <2>1
<1>6. CASE mode = "MIDDLE"
  <2>1. r \in Policy!InitSsl(c, 3)
    BY <1>1, <1>6 DEF Policy!InitPolicyByMode, Policy!TLS12
  <2>2. QED
    BY <1>4, <1>6, <2>1
<1>7. CASE mode = "CUSTOMER"
  <2>1. r \in Policy!InitSslCustomer(c)
    BY <1>1, <1>7 DEF Policy!InitPolicyByMode
  <2> DEFINE s == Policy!SslCtxNew(c.role)
  <2>2. s \in SslCtxs /\ s.suites # {}
    BY <1>1, NewSslCtx
  <2>3. r.c = [c EXCEPT !.ssl = s]
    <3>1. r \in Policy!Ok([c EXCEPT !.ssl = s])
      BY <1>2, <2>1, Zenon DEF Policy!InitSslCustomer
    <3>2. r = [c |-> [c EXCEPT !.ssl = s], ok |-> TRUE]
      BY <3>1, Zenon DEF Policy!Ok
    <3>3. QED
      BY <3>2
  <2> HIDE DEF s
  <2>4. /\ [c EXCEPT !.ssl = s] \in Ctxs /\ [c EXCEPT !.ssl = s].ssl = s
        /\ [c EXCEPT !.ssl = s].policyMode = mode
    BY <1>3, <2>2
  <2>5. QED
    BY <1>7, <2>2, <2>3, <2>4, InitSslCustomerTuned
<1>8. QED
  BY <1>5, <1>6, <1>7 DEF Policy!PolicyModes

\* The verify mode touches nothing else.
LEMMA SetVerifyModeTuned ==
    ASSUME NEW c, Tuned(c), NEW mode, NEW r \in Policy!SetVerifyMode(c, mode)
    PROVE  Tuned(r.c)
<1>1. c \in Ctxs /\ c.ssl \in SslCtxs
  BY DEF Tuned, Ctxs
<1> DEFINE v == mode \cap {"PEER", "FAIL_IF_NO_PEER_CERT"}
<1>2. r.c = c \/ r.c = [c EXCEPT !.ssl.verify = v]
  BY DEF Policy!SetVerifyMode, Policy!Ok, Policy!Fail
<1>3. v \in SUBSET {"PEER", "FAIL_IF_NO_PEER_CERT"}
  OBVIOUS
<1> HIDE DEF v
<1> DEFINE s == [c.ssl EXCEPT !.verify = v]
           d == [c EXCEPT !.ssl = s]
<1>4. /\ s \in SslCtxs /\ s.min = c.ssl.min /\ s.max = c.ssl.max
      /\ s.level = c.ssl.level /\ s.suites = c.ssl.suites
  BY <1>1, <1>3 DEF SslCtxs
<1>5. [c EXCEPT !.ssl.verify = v] = d
  OBVIOUS
<1> HIDE DEF s
<1>6. d \in Ctxs /\ d.ssl = s /\ d.policyMode = c.policyMode
  BY <1>1, <1>4 DEF Ctxs
<1> HIDE DEF d
<1>7. Tuned(d)
  BY <1>4, <1>6 DEF Tuned
<1>8. QED
  BY <1>2, <1>5, <1>7

\* Nothing has been made yet.
LEMMA EmptyIdle == Idle(EmptyWorld)
<1>1. NewStore \in Stores
  <2>1. <<>> \in UNION {[1..n -> {0, 1}] : n \in 0..MaxChain}
    <3>1. 0 \in 0..MaxChain
      BY CredentialsAssumption
    <3>2. <<>> \in [1..0 -> {0, 1}]
      OBVIOUS
    <3>3. QED
      BY <3>1, <3>2
  <2>2. QED
    BY <2>1 DEF NewStore, Stores
<1>2. NoFile \in FileCtxs /\ NoSession \in PskSessions
  BY DEF NoFile, FileCtxs, NoSession, PskSessions
<1>3. NewStore.crl = {}
  BY DEF NewStore
<1> DEFINE w == EmptyWorld
<1>4. /\ w \in Worlds /\ w.freed = {} /\ w.readDangling = {} /\ w.tmp = 0
      /\ w.store = NewStore /\ w.keyAuth = "empty" /\ w.file = [f \in Files |-> NoFile]
  BY <1>1, <1>2 DEF EmptyWorld, Worlds
<1>5. QED
  BY <1>3, <1>4, TmpIsFile DEF Idle, Safe

\* A context whose policy has just been set fulfils the invariant.
LEMMA InitConfigFile == Init => FileInv
<1> SUFFICES ASSUME Init PROVE FileInv
  OBVIOUS
<1>1. PICK mode \in Policy!PolicyModes :
        LET new == [role |-> "SERVER", policyMode |-> mode, verifyMode |-> {"DEFAULT"},
                    isSetRole |-> FALSE, find |-> FALSE, use |-> FALSE, ssl |-> None]
        IN \E r \in Policy!InitPolicyByMode(new) :
             /\ r.ok
             /\ \E v \in Policy!SetVerifyMode(r.c, Policy!PassedVerifyMode({"DEFAULT"})) : ctx = v.c
  BY DEF Init
<1> DEFINE new == [role |-> "SERVER", policyMode |-> mode, verifyMode |-> {"DEFAULT"},
                   isSetRole |-> FALSE, find |-> FALSE, use |-> FALSE, ssl |-> None]
<1>2. PICK r \in Policy!InitPolicyByMode(new) :
        /\ r.ok
        /\ \E v \in Policy!SetVerifyMode(r.c, Policy!PassedVerifyMode({"DEFAULT"})) : ctx = v.c
  BY <1>1
<1>3. Tuned(r.c)
  BY <1>2, InitPolicyTuned
<1>4. Tuned(ctx)
  BY <1>2, <1>3, SetVerifyModeTuned
<1>5. Idle(world)
  BY EmptyIdle DEF Init
<1>6. last = None
  BY DEF Init
<1>7. QED
  BY <1>4, <1>5, <1>6 DEF FileInv, SuccessMeansInForce

-----------------------------------------------------------------------------
(* The steps.                                                              *)

\* A whole call leads from w to x.
After(x, w) == Idle(x) /\ Grows(x.store, w.store)

\* A step keeps the invariant, and the SSL_CTX its CAs and CRLs.
Kept == FileInv' /\ Grows(world'.store, world.store)

\* A call that does nothing.
LEMMA AfterNone ==
    ASSUME NEW w, Idle(w)
    PROVE  After(w, w)
BY DEF After, Grows

\* A call that works with a file context as it is.
LEMMA AfterReturns ==
    ASSUME NEW w, Idle(w), NEW r, Returns(r, w, 0)
    PROVE  After(r.w, w)
<1>1. Step(r.w, w, 0)
  BY DEF Returns
<1>2. /\ r.w.tmp = 0 + 0 /\ r.w.file = w.file /\ Safe(r.w) /\ Grows(r.w.store, w.store)
      /\ r.w.keyAuth = w.keyAuth
  BY <1>1 DEF Step, Idle
<1>3. QED
  BY <1>2 DEF After, Idle

\* A call that changes a file context of the application.
LEMMA AfterFileStep ==
    ASSUME NEW w, Idle(w), NEW f \in Files \ {Tmp}, NEW x, FileStep(x, w, f)
    PROVE  After(x, w)
<1>1. x.file[Tmp] = w.file[Tmp]
  BY TmpIsFile DEF FileStep
<1>2. QED
  BY <1>1 DEF FileStep, After, Idle

\* A call that changes the sessions or the buffers of the application.
LEMMA AfterSession ==
    ASSUME NEW w, Idle(w), NEW s \in Sessions, NEW k \in PskSessions
    PROVE  After([w EXCEPT !.session = [w.session EXCEPT ![s] = k]], w)
<1> DEFINE p == [w.session EXCEPT ![s] = k]
           x == [w EXCEPT !.session = p]
<1>1. p \in [Sessions -> PskSessions]
  BY WorldFields DEF Idle, Safe
<1> HIDE DEF p
<1>2. /\ x \in Worlds /\ x.tmp = w.tmp /\ x.file = w.file /\ x.store = w.store
      /\ x.freed = w.freed /\ x.readDangling = w.readDangling /\ x.keyAuth = w.keyAuth
  BY <1>1 DEF Idle, Safe, Worlds
<1> HIDE DEF x
<1>3. After(x, w)
  BY <1>2 DEF After, Idle, Safe, Grows
<1>4. QED
  BY <1>3 DEF x, p

\* The buffer with the name of a version is made and freed.
LEMMA AfterBuffers ==
    ASSUME NEW w, Idle(w), NEW n \in {0, 1}
    PROVE  After([w EXCEPT !.buffers = n], w)
<1> DEFINE x == [w EXCEPT !.buffers = n]
<1>1. /\ x \in Worlds /\ x.tmp = w.tmp /\ x.file = w.file /\ x.store = w.store
      /\ x.freed = w.freed /\ x.readDangling = w.readDangling /\ x.keyAuth = w.keyAuth
  BY DEF Idle, Safe, Worlds
<1> HIDE DEF x
<1>2. After(x, w)
  BY <1>1 DEF After, Idle, Safe, Grows
<1>3. QED
  BY <1>2 DEF x

\* A step is one whole call of the application.
LEMMA CallKeeps ==
    ASSUME FileInv, NEW results, \A r \in results : After(r.w, world), Call(results)
    PROVE  Kept
<1>1. After(world', world) /\ last' = None /\ ctx' = ctx
  BY DEF Call
<1>2. Idle(world') /\ Tuned(ctx') /\ Grows(world'.store, world.store)
  BY <1>1 DEF After, FileInv
<1>3. QED
  BY <1>1, <1>2 DEF Kept, FileInv, SuccessMeansInForce, Idle, Safe, Tuned

\* Failing without a trace, or leaving x behind.
LEMMA PlainAfter ==
    ASSUME NEW w, Idle(w), NEW x, After(x, w), NEW r \in Fail(w) \cup Ok(x)
    PROVE  After(r.w, w)
<1>1. r.w = w \/ r.w = x
  BY DEF Fail, Ok
<1>2. QED
  BY <1>1, AfterNone

\* Every call of the application that concerns a file context of its own.
LEMMA FileCallKeeps ==
    ASSUME FileInv, NEW f \in Files \ {Tmp}, FileCall(f)
    PROVE  Kept
<1>1. Idle(world) /\ Safe(world) /\ f \in Files
  BY DEF FileInv, Idle
<1>2. world.file[f].buf \in Buffers \cup {None}
  BY <1>1, WorldFields DEF Safe, FileCtxs
<1>3. CASE Call(FileCtxNew(world, f))
  BY <1>1, <1>3, FileCtxNewKeeps, AfterFileStep, CallKeeps DEF FileReturns
<1>4. CASE Call(Ok(FileCtxFree(world, f)))
  <2>1. ASSUME NEW r \in Ok(FileCtxFree(world, f))
        PROVE  After(r.w, world)
    BY <1>1, FileCtxFreeKeeps, AfterFileStep DEF Ok
  <2>2. QED
    BY <1>4, <2>1, CallKeeps
<1>5. ASSUME NEW buf \in Buffers, Call(FileCtxSetBuf(world, f, buf))
      PROVE  Kept
  BY <1>1, <1>5, FileCtxSetBufKeeps, AfterFileStep, CallKeeps DEF FileReturns
<1>6. ASSUME NEW isCipher \in BOOLEAN, Call(FileCtxSetPwd(world, f, isCipher))
      PROVE  Kept
  BY <1>1, <1>6, FileCtxSetPwdKeeps, AfterFileStep, CallKeeps DEF FileReturns
<1>7. ASSUME NEW type \in CertTypes, Call(AddCert(world, world.file[f].buf, type))
      PROVE  Kept
  BY <1>1, <1>2, <1>7, AddCertKeeps, AfterReturns, CallKeeps
<1>8. CASE Call(SetKey(world, f))
  BY <1>1, <1>8, SetKeyKeeps, AfterReturns, CallKeeps
<1>9. QED
  BY <1>3, <1>4, <1>5, <1>6, <1>7, <1>8 DEF FileCall

\* Every call that concerns a PSK session.
LEMMA SessionCallKeeps ==
    ASSUME FileInv, NEW s \in Sessions, SessionCall(s)
    PROVE  Kept
<1>1. Idle(world) /\ Safe(world)
  BY DEF FileInv, Idle
<1> DEFINE p == world.session[s]
<1>2. p \in PskSessions
  BY <1>1, WorldFields DEF Safe
<1>3. ASSUME NEW k \in PskSessions
      PROVE  /\ After([world EXCEPT !.session[s] = k], world)
             /\ \A r \in Fail(world) \cup Ok([world EXCEPT !.session[s] = k]) : After(r.w, world)
  <2>1. After([world EXCEPT !.session[s] = k], world)
    BY <1>1, AfterSession
  <2>2. QED
    BY <1>1, <2>1, PlainAfter
<1>4. CASE Call(Ok([world EXCEPT !.session[s].made = TRUE]))
  <2>1. [p EXCEPT !.made = TRUE] \in PskSessions
    BY <1>2 DEF PskSessions
  <2> DEFINE x == [world EXCEPT !.session[s].made = TRUE]
  <2>2. After(x, world)
    BY <1>3, <2>1
  <2> HIDE DEF x
  <2>3. \A r \in Ok(x) : After(r.w, world)
    BY <2>2 DEF Ok
  <2>4. QED
    BY <1>4, <2>3, CallKeeps DEF x
<1>5. CASE Call(Ok([world EXCEPT !.session[s] = NoSession]))
  <2>1. NoSession \in PskSessions
    BY DEF NoSession, PskSessions
  <2>2. After([world EXCEPT !.session[s] = NoSession], world)
    BY <1>3, <2>1
  <2>3. QED
    BY <1>5, <2>2, CallKeeps DEF Ok
<1>6. ASSUME NEW isCipher \in BOOLEAN, Call(SessionSetMasterKey(world, s, isCipher))
      PROVE  Kept
  <2>1. Delete(world, Zeroed("master_key")) = world
    BY <1>1, ClearedMemory
  <2>2. ASSUME NEW r \in SessionSetMasterKey(world, s, isCipher)
        PROVE  After(r.w, world)
    <3>1. r \in DecryptFails(world) \/ r \in Fail(world) \cup Ok(world)
      BY <2>1, Zenon DEF SessionSetMasterKey
    <3>2. CASE r \in DecryptFails(world)
      <4>1. FileReturns(r, world, Tmp) /\ ~r.ok /\ Step(r.w, world, 0)
        BY <1>1, <3>2, DecryptFailsKeeps
      <4>2. Returns(r, world, 0)
        BY <4>1 DEF FileReturns, Returns
      <4>3. QED
        BY <1>1, <4>2, AfterReturns
    <3>3. CASE r \in Fail(world) \cup Ok(world)
      BY <1>1, <3>3, AfterNone, PlainAfter
    <3>4. QED
      BY <3>1, <3>2, <3>3
  <2>3. QED
    BY <1>6, <2>2, CallKeeps
<1>7. CASE Call(SessionSetCipher(world, s))
  <2>1. \A r \in SessionSetCipher(world, s) : After(r.w, world)
    BY <1>1, AfterNone, PlainAfter DEF SessionSetCipher
  <2>2. QED
    BY <1>7, <2>1, CallKeeps
<1>8. ASSUME NEW v, Call(SessionSetProtocolVersion(world, s, v))
      PROVE  Kept
  <2>1. ASSUME v \in {"TLSv1.2", "TLSv1.3"}
        PROVE  [p EXCEPT !.version = v] \in PskSessions
    BY <1>2, <2>1 DEF PskSessions
  <2>2. \A r \in SessionSetProtocolVersion(world, s, v) : After(r.w, world)
    <3>1. CASE v \in {"TLSv1.2", "TLSv1.3"}
      BY <1>3, <2>1, <3>1 DEF SessionSetProtocolVersion
    <3>2. CASE v \notin {"TLSv1.2", "TLSv1.3"}
      BY <1>1, <3>2, AfterNone DEF SessionSetProtocolVersion, Fail
    <3>3. QED
      BY <3>1, <3>2
  <2>3. QED
    BY <1>8, <2>2, CallKeeps
<1>9. CASE world.buffers = 0 /\ Call(SessionGetProtocolVersion(world, s))
  <2>1. [world EXCEPT !.buffers = @ + 1] = [world EXCEPT !.buffers = 1]
    BY <1>9
  <2>2. After([world EXCEPT !.buffers = @ + 1], world)
    BY <1>1, <2>1, AfterBuffers
  <2>3. \A r \in SessionGetProtocolVersion(world, s) : After(r.w, world)
    BY <1>1, <2>2, AfterNone DEF SessionGetProtocolVersion, Fail, Ok
  <2>4. QED
    BY <1>9, <2>3, CallKeeps
<1>10. QED
  BY <1>4, <1>5, <1>6, <1>7, <1>8, <1>9 DEF SessionCall

\* The application frees the name of a version it was given.
LEMMA FreeBufferKeeps ==
    ASSUME FileInv, world.buffers > 0, Call(Ok(FreeBuffer(world)))
    PROVE  Kept
<1>1. Idle(world) /\ world.buffers \in {0, 1}
  BY WorldFields DEF FileInv, Idle, Safe
<1> DEFINE x == [world EXCEPT !.buffers = @ - 1]
<1>2. x = [world EXCEPT !.buffers = 0]
  BY <1>1
<1>3. After(x, world)
  BY <1>1, <1>2, AfterBuffers
<1> HIDE DEF x
<1>4. FreeBuffer(world) = x
  <2>1. Safe(x)
    BY <1>3 DEF After, Idle
  <2>2. QED
    BY <2>1, ClearedMemory DEF FreeBuffer, x
<1>5. QED
  BY <1>3, <1>4, CallKeeps DEF Ok

\* A configuration file is applied as far as its parts succeed.
LEMMA SetConfigFileKeeps ==
    ASSUME FileInv, NEW conf \in Confs, SetConfigFile(conf)
    PROVE  Kept
<1>1. Idle(world) /\ Safe(world) /\ Tuned(ctx)
  BY DEF FileInv, Idle
<1> DEFINE start == ParsedInto(world, conf)
<1>2. PICK r \in No(ctx, world) \cup (IF ParseConfig(conf) THEN SetConfig(ctx, start, conf) ELSE {}) :
        /\ ctx' = r.c
        /\ world' = DestroyConfig(IF r.ok THEN r.w ELSE CleanConfig(r.w))
        /\ last' = IF r.ok THEN conf ELSE None
  BY DEF SetConfigFile
<1>3. /\ Applied(start) /\ start.store = world.store
      /\ conf.privKey = None => start.keyAuth = "empty"
  BY <1>1, ParsedKeeps
<1> HIDE DEF start
<1>4. CASE r \in No(ctx, world)
  <2>1. r.c = ctx /\ r.w = world /\ ~r.ok
    BY <1>4 DEF No
  <2>2. Applied(world)
    BY <1>1 DEF Idle, Applied
  <2> DEFINE x == CleanConfig(world)
  <2>3. Applied(x) /\ x.store = world.store /\ x.keyAuth \in {"empty", "zeros"}
    BY <2>2, CleanConfigKeeps
  <2>4. world' = DestroyConfig(x) /\ ctx' = ctx /\ last' = None
    BY <1>2, <2>1
  <2> HIDE DEF x
  <2>5. Idle(world') /\ world'.store = world.store
    BY <2>3, <2>4, DestroyKeeps
  <2>6. Grows(world'.store, world.store)
    BY <2>5 DEF Grows
  <2>7. QED
    BY <1>1, <2>4, <2>5, <2>6 DEF Kept, FileInv, SuccessMeansInForce, Idle, Safe, Tuned
<1>5. CASE ParseConfig(conf) /\ r \in SetConfig(ctx, start, conf)
  <2>1. /\ Tuned(r.c) /\ Applied(r.w) /\ Grows(r.w.store, world.store) /\ r.ok \in BOOLEAN
        /\ r.ok => /\ VersionInForce(r.c.ssl, conf.version)
                   /\ SuitesInForce(r.c.ssl, conf.suites)
                   /\ CertsInForce(r.w.store, conf)
                   /\ r.w.keyAuth \in {"empty", "zeros"}
    BY <1>1, <1>3, <1>5, SetConfigKeeps
  <2> DEFINE x == IF r.ok THEN r.w ELSE CleanConfig(r.w)
  <2>2. Applied(x) /\ x.store = r.w.store /\ x.keyAuth \in {"empty", "zeros"}
    <3>1. CASE r.ok
      BY <2>1, <3>1
    <3>2. CASE ~r.ok
      BY <2>1, <3>2, CleanConfigKeeps
    <3>3. QED
      BY <2>1, <3>1, <3>2
  <2>3. world' = DestroyConfig(x) /\ ctx' = r.c
    BY <1>2
  <2> HIDE DEF x
  <2>4. Idle(world') /\ world'.store = r.w.store
    BY <2>2, <2>3, DestroyKeeps
  <2>5. last' = None \/ (r.ok /\ last' = conf)
    BY <1>2
  <2>6. ASSUME r.ok, last' = conf
        PROVE  InForce(last)'
    <3>1. /\ VersionInForce(ctx'.ssl, conf.version) /\ SuitesInForce(ctx'.ssl, conf.suites)
          /\ CertsInForce(world'.store, conf)
      BY <2>1, <2>3, <2>4, <2>6
    <3>2. CertsOf(world'.store, conf)
      BY <3>1, AllLoaded
    <3>3. QED
      BY <2>6, <3>1, <3>2
      DEF InForce, VersionInForce, SuitesInForce, CertsInForce, CertsOf
  <2>7. SuccessMeansInForce' /\ last' \in Confs \cup {None}
    BY <2>5, <2>6 DEF SuccessMeansInForce
  <2>8. Idle(world)' /\ Tuned(ctx)' /\ Grows(world'.store, world.store)
    BY <2>1, <2>3, <2>4 DEF Idle, Safe, Tuned
  <2>9. QED
    BY <2>7, <2>8 DEF Kept, FileInv
<1>6. QED
  BY <1>2, <1>4, <1>5

\* Every step of the specification, stuttering included, keeps the invariant
\* and takes no CA, no CRL and no check from the SSL_CTX.
LEMMA NextKeeps ==
    ASSUME FileInv, [Next]_vars
    PROVE  Kept
<1>1. ASSUME NEW conf \in Confs, SetConfigFile(conf)
      PROVE  Kept
  BY <1>1, SetConfigFileKeeps
<1>2. ASSUME NEW f \in Files \ {Tmp}, FileCall(f)
      PROVE  Kept
  BY <1>2, FileCallKeeps
<1>3. ASSUME NEW s \in Sessions, SessionCall(s)
      PROVE  Kept
  BY <1>3, SessionCallKeeps
<1>4. CASE world.buffers > 0 /\ Call(Ok(FreeBuffer(world)))
  BY <1>4, FreeBufferKeeps
<1>5. CASE UNCHANGED vars
  <2>1. world' = world /\ ctx' = ctx /\ last' = last
    BY <1>5 DEF vars
  <2>2. Grows(world'.store, world.store)
    BY <2>1 DEF Grows
  <2>3. FileInv'
    BY <2>1 DEF FileInv, Idle, Safe, Tuned, SuccessMeansInForce, InForce
  <2>4. QED
    BY <2>2, <2>3 DEF Kept
<1>6. QED
  BY <1>1, <1>2, <1>3, <1>4, <1>5 DEF Next

\* The inductive invariant holds in every reachable state.
LEMMA ConfigFileInvariant == Spec => []FileInv
<1>1. FileInv /\ [Next]_vars => FileInv'
  BY NextKeeps DEF Kept
<1>2. QED
  BY InitConfigFile, <1>1, PTL DEF Spec

-----------------------------------------------------------------------------
(* The theorems.                                                           *)

\* Whatever calls the application makes and however they fail, file contexts,
\* sessions and the store of the SSL_CTX keep their types, and the chain of
\* certificates its bound.
THEOREM ConfigFileTypeCorrect == Spec => []TypeOK
<1>1. FileInv => TypeOK
  <2> SUFFICES ASSUME FileInv PROVE TypeOK
    OBVIOUS
  <2>1. world \in Worlds /\ last \in Confs \cup {None}
    BY DEF FileInv, Idle, Safe
  <2>2. /\ world.file \in [Files -> FileCtxs]
        /\ world.store \in Stores
        /\ world.session \in [Sessions -> PskSessions]
        /\ world.buffers \in {0, 1}
        /\ world.freed \in SUBSET Secrets
        /\ world.readDangling \in SUBSET {"key", "certificate"}
    BY <2>1, WorldFields
  <2>3. QED
    BY <2>1, <2>2 DEF TypeOK, FileCtxs, PskSessions
<1>2. QED
  BY <1>1, ConfigFileInvariant, PTL

\* Whether a call of file_context.cpp, psk_session_policy.cpp or config.cpp
\* succeeds or fails at any place, the memory it frees does not show a private
\* key, a password, a keyAuth or a master key.  What a decryption that fails has
\* written is the exception, and the only one.
THEOREM OwnCopiesAlwaysCleared == Spec => []OwnCopiesCleared
<1>1. FileInv => OwnCopiesCleared
  BY DEF FileInv, Idle, Safe, OwnCopiesCleared
<1>2. QED
  BY <1>1, ConfigFileInvariant, PTL

\* When a call returns, every BIO, certificate, CRL, key, path string and
\* temporary file context it made has been released exactly once, for files with
\* any number of certificates and on every error path.
THEOREM NothingEverOutstanding == Spec => []NothingOutstanding
<1>1. FileInv => NothingOutstanding
  BY DEF FileInv, Idle, NothingOutstanding
<1>2. QED
  BY <1>1, ConfigFileInvariant, PTL

\* When a private key is read, DefaultPemPasswordCb does not find a password whose
\* file context has been freed: every way to SSL_CTX_use_PrivateKey_file sets the
\* pointer anew.  Nothing is said of the reading of certificates.
THEOREM KeyPasswordAlwaysAlive == Spec => []KeyPasswordAlive
<1>1. FileInv => KeyPasswordAlive
  BY DEF FileInv, Idle, Safe, KeyPasswordAlive
<1>2. QED
  BY <1>1, ConfigFileInvariant, PTL

\* AddCrl never leaves a CRL in the store that is not checked.
THEOREM CrlAlwaysChecked == Spec => []CrlIsChecked
<1>1. FileInv => CrlIsChecked
  BY DEF FileInv, Idle, Safe, CrlIsChecked
<1>2. QED
  BY <1>1, ConfigFileInvariant, PTL

\* For every file, SCF_SetConfigFile says success only when the versions, the
\* suites, each of its CAs and CRLs, the last of its certificates for the context
\* itself and the private key are in force together.
THEOREM SuccessAlwaysInForce == Spec => []SuccessMeansInForce
<1>1. FileInv => SuccessMeansInForce
  BY DEF FileInv
<1>2. QED
  BY <1>1, ConfigFileInvariant, PTL

\* No configuration file, whatever it asks for and wherever it fails, takes a
\* context of the high mode away from TLS 1.3 alone, lowers the security level
\* outside the customer mode, or leaves a context without a cipher suite.
THEOREM FilesKeepTheMode == Spec => []Tuned(ctx)
<1>1. FileInv => Tuned(ctx)
  BY DEF FileInv
<1>2. QED
  BY <1>1, ConfigFileInvariant, PTL

\* No call, also one that fails half-way, takes a CA or a CRL away from the SSL_CTX
\* or turns off the check of CRLs.  (The certificate in use can be replaced and
\* the private key dropped.)
THEOREM TrustStoreOnlyGrows == Spec => [][Grows(world'.store, world.store)]_vars
<1>1. FileInv /\ [Next]_vars => [Grows(world'.store, world.store)]_vars
  BY NextKeeps DEF Kept
<1>2. QED
  BY <1>1, ConfigFileInvariant, PTL DEF Spec
=============================================================================
