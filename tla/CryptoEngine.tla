---------------------------- MODULE CryptoEngine ----------------------------
(***************************************************************************)
(* The crypto engines: DefaultSoftwareCryptoEngine                         *)
(* (crypto/default_crypto_engine.cpp), which computes with OpenSSL, and    *)
(* KAEProviderEngine (crypto/kae_provider_engine.cpp), which owns a        *)
(* library context with its providers for TLS and hands direct requests to *)
(* a software engine that it makes when the first one comes.               *)
(*                                                                         *)
(* Several threads use the engines.  A request to a KAE engine takes       *)
(* several steps, because GetFallbackEngine has no lock and reads its      *)
(* member again and again: it looks for the software engine, may make one  *)
(* and initialise it, returns it, and the request runs.  OpenSSL is        *)
(* external, and every call of it may fail.                                *)
(***************************************************************************)
EXTENDS Integers

CONSTANTS
    Engines,        \* the engine objects
    Threads,        \* the threads of the application
    Copies,         \* bound on the objects of a type that are alive together
    MaxLength,      \* bound on the lengths that are passed
    IntBits,        \* the width of int
    None            \* the null pointer, no value

ASSUME EngineAssumption ==
    /\ Copies \in Nat \ {0}
    /\ MaxLength \in Nat
    /\ IntBits \in Nat \ {0}
    /\ None \notin Engines

VARIABLES
    careful,        \* does the application keep the rule of MayCall
    engine,         \* the fields of every engine
    heap,           \* the objects that are alive, with the context a provider is loaded in
    call,           \* where every thread is in a request
    evp             \* the temporary OpenSSL objects that are alive

vars == <<careful, engine, heap, call, evp>>

-----------------------------------------------------------------------------
(* Algorithms and lengths.                                                 *)

SymmetricAlgorithms == {"AES_GCM", "AES_128_CCM", "SM4_GCM"}
HashAlgorithms == {"SHA", "SM3"}
AsymmetricAlgorithms == {"ECDSA", "SM2"}

\* The others have no cipher, digest or curve here; a KAE engine says of SM4_GCM,
\* SM3, RSA and SM2 too that it supports them.
MapSymmetricAlgo(algo) == algo \in {"AES_GCM", "AES_128_CCM"}
MapHashAlgo(algo) == algo = "SHA"
MapEcNid(algo) == algo = "ECDSA"

INT_MAX == 2 ^ (IntBits - 1) - 1

\* The arithmetic of powers that holds for every width.
ASSUME WidthAssumption == 2 ^ IntBits \in Nat /\ 2 ^ (IntBits - 1) \in 1..(2 ^ IntBits)

\* static_cast<int> of a size_t.
ToInt(len) ==
    LET low == len % (2 ^ IntBits)
    IN IF low > INT_MAX THEN low - 2 ^ IntBits ELSE low

-----------------------------------------------------------------------------
(* The software engine.  A request acquires OpenSSL objects one after the  *)
(* other, stops at the call that fails, and frees what it has.             *)

Refused == [ok |-> FALSE, left |-> {}]
Outcomes(acquired, freed) == {[ok |-> ok, left |-> acquired \ freed] : ok \in BOOLEAN}

\* The length of the additional data is cast, that of the text is checked.
\* OpenSSL refuses a negative length, and CCM additional data before it is told
\* the length of the text.
AadTaken(algo, aadLen) == aadLen > 0 => ToInt(aadLen) >= 0 /\ algo # "AES_128_CCM"

EncryptOutcomes(algo, aadLen, len) ==
    {Refused} \cup
    {o \in Outcomes({"cipherCtx"}, {"cipherCtx"}) :
        o.ok => MapSymmetricAlgo(algo) /\ AadTaken(algo, aadLen) /\ len <= INT_MAX}

\* CCM takes no text before it has the tag, except an empty one: OpenSSL may let
\* that pass, and then no tag is ever compared.
TakesData(algo, len) == len <= INT_MAX /\ (algo = "AES_128_CCM" => len = 0)

\* Whether the tag fits is left open.
DecryptOutcomes(algo, aadLen, len) ==
    {Refused} \cup
    {o \in Outcomes({"cipherCtx"}, {"cipherCtx"}) :
        o.ok => MapSymmetricAlgo(algo) /\ AadTaken(algo, aadLen) /\ TakesData(algo, len)}

DeriveECDHSharedSecret(held) ==
    {[Refused EXCEPT !.left = held]} \cup Outcomes(held \cup {"deriveCtx"}, {"deriveCtx"})

\* EVP_PKEY_new may return null, and EVP_PKEY_keygen makes the key then.
ECDHOutcomes(algo) ==
    IF ~MapEcNid(algo) THEN {Refused}
    ELSE {[o EXCEPT !.left = @ \ {"pkey", "pctx", "peerKey"}] :
            o \in {[Refused EXCEPT !.left = held] :
                     held \in {{}, {"pkey"}, {"pctx"}, {"pkey", "pctx"}}}
                  \cup DeriveECDHSharedSecret({"pkey", "pctx", "peerKey"})}

HashOutcomes(algo) ==
    {Refused} \cup {o \in Outcomes({"mdCtx"}, {"mdCtx"}) : o.ok => MapHashAlgo(algo)}

HMACOutcomes(algo, keyLen) ==
    {o \in Outcomes({}, {}) : o.ok => keyLen <= INT_MAX /\ MapHashAlgo(algo)}

\* The lengths of the salt and the key are cast; OpenSSL refuses negative ones.
HKDFExtractOutcomes(algo, saltLen, ikmLen) ==
    {Refused} \cup
    {o \in Outcomes({"pctx"}, {"pctx"}) :
        o.ok => MapHashAlgo(algo) /\ ToInt(saltLen) >= 0 /\ ToInt(ikmLen) >= 0}

HKDFExpandOutcomes(algo, prkLen, infoLen) ==
    {Refused} \cup
    {o \in Outcomes({"pctx"}, {"pctx"}) :
        o.ok => MapHashAlgo(algo) /\ ToInt(prkLen) >= 0 /\ ToInt(infoLen) >= 0}

RandomBytesOutcomes(len) == {o \in Outcomes({}, {}) : o.ok => len <= INT_MAX}

\* Sign and Verify only return false, ImportKey and DestroyKey only true.
SignOutcomes == {Refused}
VerifyOutcomes == {Refused}
ImportKeyOutcomes == {[Refused EXCEPT !.ok = TRUE]}
DestroyKeyOutcomes == {[Refused EXCEPT !.ok = TRUE]}

-----------------------------------------------------------------------------
(* The life of an engine.                                                  *)

\* An object is a type and a number; a provider has the number of the library
\* context it is loaded in.
ObjectTypes == {"lib", "default", "kae", "software"}
Objects == ObjectTypes \X (1..Copies)

\* The null pointer is the address of no object.
ASSUME NullAssumption == None \notin Objects

\* An address that is free, if memory lasts.
Fresh(type) ==
    LET free == {n \in 1..Copies : <<type, n>> \notin heap}
    IN {<<type, n>> : n \in {m \in free : \A k \in free : m <= k}}

\* Mutant: a member is not initialised.
NewUninitialised(kind) ==
    [kind |-> kind, m_initialized |-> FALSE, m_kaeLoaded |-> None,
     m_libCtx |-> None, m_defaultProv |-> None, m_kaeProv |-> None, m_fallbackEngine |-> None]

\* The constructors and the factories.
New(kind) ==
    [kind |-> kind, m_initialized |-> FALSE, m_kaeLoaded |-> FALSE,
     m_libCtx |-> None, m_defaultProv |-> None, m_kaeProv |-> None, m_fallbackEngine |-> None]

NoEngine == New("none")

\* What an engine and the heap become.
After(fields, h) == [fields |-> fields, heap |-> h]

LoadKAEProvider(f, h) ==
    LET kae == <<"kae", f.m_libCtx[2]>>
    IN {After([f EXCEPT !.m_kaeProv = None, !.m_kaeLoaded = FALSE], h),
        After([f EXCEPT !.m_kaeProv = kae, !.m_kaeLoaded = TRUE], h \cup {kae})}

\* Mutant: the library context is not freed when the provider can not be loaded.
KAEInitializeLeaks(f, h) ==
    UNION {{After(f, h \cup {lib})} \cup
           LoadKAEProvider([f EXCEPT !.m_initialized = TRUE, !.m_libCtx = lib,
                                     !.m_defaultProv = <<"default", lib[2]>>],
                           h \cup {lib, <<"default", lib[2]>>})
           : lib \in Fresh("lib")}
    \cup {After(f, h)}

\* The functions of OpenSSL are missing, the library context or the default
\* provider can not be had; or the engine is initialised, with KAE or without.
KAEInitialize(f, h) ==
    {After(f, h)} \cup
    UNION {LoadKAEProvider([f EXCEPT !.m_initialized = TRUE, !.m_libCtx = lib,
                                     !.m_defaultProv = <<"default", lib[2]>>],
                           h \cup {lib, <<"default", lib[2]>>})
           : lib \in Fresh("lib")}

InitializeResults(f, h) ==
    CASE f.kind = "software" -> {After([f EXCEPT !.m_initialized = TRUE], h)}
      [] f.kind = "kae" /\ f.m_initialized -> {After(f, h)}
      [] f.kind = "kae" /\ ~f.m_initialized -> KAEInitialize(f, h)

\* Mutant: the flag of KAE stays.
FinalizeKeepsLoaded(f, h) ==
    IF f.kind = "kae" /\ ~f.m_initialized THEN After(f, h)
    ELSE After([New(f.kind) EXCEPT !.m_kaeLoaded = f.m_kaeLoaded],
               h \ {f.m_kaeProv, f.m_defaultProv, f.m_libCtx, f.m_fallbackEngine})

\* Unloads the providers, frees the library context and the fallback engine,
\* unless the engine is not initialised.
FinalizeResult(f, h) ==
    IF f.kind = "kae" /\ ~f.m_initialized THEN After(f, h)
    ELSE After(New(f.kind), h \ {f.m_kaeProv, f.m_defaultProv, f.m_libCtx, f.m_fallbackEngine})

-----------------------------------------------------------------------------
(* The steps.                                                              *)

Idle == [step |-> "idle", engine |-> None, on |-> None]

Init ==
    /\ careful \in BOOLEAN
    /\ engine = [e \in Engines |-> NoEngine]
    /\ heap = {}
    /\ call = [t \in Threads |-> Idle]
    /\ evp = {}

Alive(e) == engine[e].kind # "none"

Unused(e) == \A t \in Threads : call[t].engine # e

Become(e, r) ==
    /\ engine' = [engine EXCEPT ![e] = r.fields]
    /\ heap' = r.heap
    /\ UNCHANGED <<careful, call, evp>>

Create(e) == ~Alive(e) /\ \E kind \in {"software", "kae"} : Become(e, After(New(kind), heap))

\* No application initialises, finalises or deletes an engine that a request is
\* in.
Initialize(e) ==
    /\ Alive(e) /\ Unused(e)
    /\ \E r \in InitializeResults(engine[e], heap) : Become(e, r)

Finalize(e) == Alive(e) /\ Unused(e) /\ Become(e, FinalizeResult(engine[e], heap))

\* The destructor.
Delete(e) ==
    /\ Alive(e) /\ Unused(e)
    /\ Become(e, After(NoEngine, FinalizeResult(engine[e], heap).heap))

\* A careful application sends requests to engines that are initialised, and
\* to each of them from one thread at a time.
MayCall(e) == Alive(e) /\ (careful => engine[e].m_initialized /\ Unused(e))

\* The member of the KAE engine that the thread is in, as it is at this moment.
Fallback(t) == engine[call[t].engine].m_fallbackEngine

\* A request to a software engine runs there; one to a KAE engine looks for the
\* fallback engine first.
Request(t, e) ==
    /\ call[t] = Idle
    /\ MayCall(e)
    /\ call' = [call EXCEPT ![t] =
         [step |-> IF engine[e].kind # "kae" THEN "run"
                   ELSE IF engine[e].m_fallbackEngine = None THEN "missing" ELSE "found",
          engine |-> e, on |-> None]]
    /\ UNCHANGED <<careful, engine, heap, evp>>

\* Mutant: what another thread has put there meanwhile is deleted.
MakeFallbackReplaces(t) ==
    /\ call[t].step = "missing"
    /\ \E o \in Fresh("software") :
         /\ engine' = [engine EXCEPT ![call[t].engine].m_fallbackEngine = o]
         /\ heap' = (heap \ {Fallback(t)}) \cup {o}
    /\ call' = [call EXCEPT ![t].step = "made"]
    /\ UNCHANGED <<careful, evp>>

\* The member is overwritten with what new returns, which is null when memory is
\* short, whatever another thread has put there meanwhile.
MakeFallback(t) ==
    /\ call[t].step = "missing"
    /\ \E o \in Fresh("software") \cup {None} :
         /\ engine' = [engine EXCEPT ![call[t].engine].m_fallbackEngine = o]
         /\ heap' = heap \cup ({o} \ {None})
    /\ call' = [call EXCEPT ![t].step = "made"]
    /\ UNCHANGED <<careful, evp>>

\* The member is read again; with a null pointer the caller of GetFallbackEngine,
\* or GetFallbackEngine itself, ends the process.
InitializeFallback(t) ==
    /\ call[t].step = "made"
    /\ call' = [call EXCEPT ![t].step = IF Fallback(t) = None THEN "crashed" ELSE "found"]
    /\ UNCHANGED <<careful, engine, heap, evp>>

\* And once more, to return it.
ReturnFallback(t) ==
    /\ call[t].step = "found"
    /\ call' = [call EXCEPT ![t].step = IF Fallback(t) = None THEN "crashed" ELSE "run",
                            ![t].on = Fallback(t)]
    /\ UNCHANGED <<careful, engine, heap, evp>>

\* A request ends.
Finish(t, o) ==
    /\ call' = [call EXCEPT ![t] = Idle]
    /\ evp' = evp \cup (o.left \X {t})
    /\ UNCHANGED <<careful, engine, heap>>

Compute(t, outcomes) ==
    /\ call[t].step = "run"
    /\ \E o \in outcomes : Finish(t, o)

Lengths == 0..MaxLength

EncryptAEAD(t) ==
    \E algo \in SymmetricAlgorithms, aad, len \in Lengths :
        Compute(t, EncryptOutcomes(algo, aad, len))
DecryptAEAD(t) ==
    \E algo \in SymmetricAlgorithms, aad, len \in Lengths :
        Compute(t, DecryptOutcomes(algo, aad, len))
ECDHKeyAgreement(t) == \E algo \in AsymmetricAlgorithms : Compute(t, ECDHOutcomes(algo))
Hash(t) == \E algo \in HashAlgorithms : Compute(t, HashOutcomes(algo))
HMAC(t) == \E algo \in HashAlgorithms, len \in Lengths : Compute(t, HMACOutcomes(algo, len))
HKDFExtract(t) ==
    \E algo \in HashAlgorithms, salt, ikm \in Lengths :
        Compute(t, HKDFExtractOutcomes(algo, salt, ikm))
HKDFExpand(t) ==
    \E algo \in HashAlgorithms, prk, info \in Lengths :
        Compute(t, HKDFExpandOutcomes(algo, prk, info))
RandomBytes(t) == \E len \in Lengths : Compute(t, RandomBytesOutcomes(len))
Sign(t) == Compute(t, SignOutcomes)
Verify(t) == Compute(t, VerifyOutcomes)
ImportKey(t) == Compute(t, ImportKeyOutcomes)
DestroyKey(t) == Compute(t, DestroyKeyOutcomes)

\* A thread that follows a null pointer takes the process with it.
Crashed == \E t \in Threads : call[t].step = "crashed"

Next ==
    /\ ~Crashed
    /\ \/ \E e \in Engines : Create(e) \/ Initialize(e) \/ Finalize(e) \/ Delete(e)
       \/ \E t \in Threads, e \in Engines : Request(t, e)
       \/ \E t \in Threads :
            \/ MakeFallback(t)
            \/ InitializeFallback(t)
            \/ ReturnFallback(t)
            \/ EncryptAEAD(t)
            \/ DecryptAEAD(t)
            \/ ECDHKeyAgreement(t)
            \/ Hash(t)
            \/ HMAC(t)
            \/ HKDFExtract(t)
            \/ HKDFExpand(t)
            \/ RandomBytes(t)
            \/ Sign(t)
            \/ Verify(t)
            \/ ImportKey(t)
            \/ DestroyKey(t)

Spec == Init /\ [][Next]_vars

-----------------------------------------------------------------------------
(* Properties.                                                             *)

Pointer(type) == ({type} \X (1..Copies)) \cup {None}

EngineFields ==
    [kind : {"none", "software", "kae"}, m_initialized : BOOLEAN, m_kaeLoaded : BOOLEAN,
     m_libCtx : Pointer("lib"), m_defaultProv : Pointer("default"),
     m_kaeProv : Pointer("kae"), m_fallbackEngine : Pointer("software")]

\* Every variable has its type.
TypeOK ==
    /\ careful \in BOOLEAN
    /\ engine \in [Engines -> EngineFields]
    /\ heap \subseteq Objects
    /\ call \in [Threads -> [step : {"idle", "missing", "made", "found", "run", "crashed"},
                             engine : Engines \cup {None}, on : Pointer("software")]]
    /\ evp \subseteq {"cipherCtx", "pkey", "pctx", "peerKey", "deriveCtx", "mdCtx"} \X Threads

Held(e) ==
    {engine[e].m_libCtx, engine[e].m_defaultProv, engine[e].m_kaeProv, engine[e].m_fallbackEngine}
        \ {None}

\* Nothing that a request or TLS reaches through an engine has been freed, also
\* when several threads make the fallback engine at the same time: the pointers
\* of an engine, the software engine a request is in, and the library context
\* of a provider.
NothingUsedAfterFree ==
    /\ \A e \in Engines : Held(e) \subseteq heap
    /\ \A t \in Threads : call[t].on # None => call[t].on \in heap
    /\ \A o \in heap : o[1] \in {"default", "kae"} => <<"lib", o[2]>> \in heap

\* An engine says that it accelerates only while its KAE provider is loaded, in
\* the library context that GetProviderContext returns, and that context always
\* has the default provider too; also after it was finalised and initialised
\* again.
AccelerationIsReal ==
    \A e \in Engines :
        LET f == engine[e]
        IN /\ f.m_kaeLoaded => f.m_libCtx # None /\ <<"kae", f.m_libCtx[2]>> \in heap
           /\ f.m_libCtx # None => f.m_initialized /\ <<"default", f.m_libCtx[2]>> \in heap

\* Every library context and provider belongs to one engine that is alive,
\* whatever part of Initialize failed, and so does every fallback engine of a
\* careful application; a request leaves no temporary object.  So nothing is
\* left when all engines are deleted.
NothingOutstanding ==
    /\ \A o \in heap : o[1] # "software" \/ careful =>
         \E e \in Engines : o \in Held(e) /\ \A d \in Engines \ {e} : o \notin Held(d)
    /\ evp = {}
=============================================================================
