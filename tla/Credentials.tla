----------------------------- MODULE Credentials -----------------------------
(***************************************************************************)
(* Secrets and certificates on their way into OpenSSL: file contexts       *)
(* (scf/policy/file_context.cpp), certificates and keys of a context       *)
(* (scf/policy/auth/cert/cert.cpp), PSK sessions                           *)
(* (scf/policy/auth/psk/psk_session_policy.cpp) and the functions of       *)
(* OpenSSLAdaptor below them.                                              *)
(*                                                                         *)
(* A function is an operator from the world, the value of all variables,   *)
(* to the set of the results it can have: the world it leaves behind and   *)
(* whether it returns success.  Memory is followed as far as the           *)
(* properties need it: tmp counts the objects a call has made and not yet  *)
(* released (BIO, X509, X509_CRL, EVP_PKEY, FILE, path strings, temporary  *)
(* file contexts), freed collects what freed memory still contains.        *)
(* The policy of the context is set; the library is initialised.           *)
(***************************************************************************)
EXTENDS Integers, Sequences, FiniteSets

CONSTANTS
    Files,          \* the file contexts of the application
    Sessions,       \* its PSK sessions
    MaxChain,       \* bound on the certificates in the chain of the context
    None,           \* the null pointer
    Dangling        \* a pointer to freed memory

ASSUME CredentialsAssumption ==
    /\ MaxChain \in Nat
    /\ {None, Dangling} \cap Files = {}
    /\ None # Dangling

CertTypes == {"CA", "EE", "CRL", "EE_CHAIN"}

\* What a file or a buffer in PEM format can hold.  Certs are the texts that
\* begin with a certificate; a chain has more of them.
Certs == {"ca", "ee", "other_ee", "chain"}
Texts == Certs \cup {"crl", "private_key"}

\* A file context refers to a file by its path or holds the text itself.
Buffers == [storeType : {"FILE_PATH", "BUFFER"}, text : Texts]

\* The last is what an external function for decryption that fails may have
\* written by then.
Secrets == {"private_key", "password", "key_authentication", "master_key", "unfinished_plaintext"}

VARIABLE world

NoFile == [made |-> FALSE, buf |-> None, passwd |-> None]
NoSession == [made |-> FALSE, version |-> None]

\* The part of an SSL_CTX that this module is about: what has been added to its
\* X509_STORE as a CA and as a CRL, the certificate in use, whether there is a
\* private key, and the extra certificates with the references to them that
\* have not been dropped.
NewStore ==
    [ca |-> {}, crlCheck |-> FALSE, crl |-> {}, ee |-> None, key |-> FALSE,
     extra |-> <<>>, userdata |-> None]

\* keyAuth is the memory behind the vector of that name in the Config of a
\* configuration file.
EmptyWorld ==
    [file |-> [f \in Files |-> NoFile], store |-> NewStore,
     session |-> [s \in Sessions |-> NoSession], buffers |-> 0, keyAuth |-> "empty",
     tmp |-> 0, freed |-> {}, readDangling |-> {}]

Ok(w) == {[w |-> w, ok |-> TRUE]}
Fail(w) == {[w |-> w, ok |-> FALSE]}

\* What follows when a call has succeeded.
Then(results, Rest(_)) == UNION {IF r.ok THEN Rest(r.w) ELSE {r} : r \in results}

Acquire(w) == [w EXCEPT !.tmp = @ + 1]
Release(w) == [w EXCEPT !.tmp = @ - 1]

\* delete[] of memory with this content: the secrets it still shows.
Delete(w, content) == [w EXCEPT !.freed = @ \cup ({content} \cap Secrets)]

\* memset_s or std::fill before the memory is freed.
Zeroed(content) == "zeros"

-----------------------------------------------------------------------------
(* File contexts.                                                          *)

FileCtxNew(w, f) == Fail(w) \cup Ok([w EXCEPT !.file[f] = [NoFile EXCEPT !.made = TRUE]])

\* What the memory behind buf contains: a path is no secret.
BufContent(buf) == IF buf.storeType = "BUFFER" THEN buf.text ELSE "path"

FreeBuf(w, f) ==
    IF w.file[f].buf = None THEN w ELSE Delete(w, Zeroed(BufContent(w.file[f].buf)))

\* The password may be what the SSL_CTX still points to.
FreePasswd(w, f) ==
    IF w.file[f].passwd = None THEN w
    ELSE Delete([w EXCEPT !.store.userdata = IF @ = f THEN Dangling ELSE @],
                Zeroed(w.file[f].passwd))

FileCtxFree(w, f) == [FreePasswd(FreeBuf(w, f), f) EXCEPT !.file[f] = NoFile]

\* A text that is too long, a path that SCF_CheckFilePathAndStat refuses and a
\* lack of memory change nothing.
FileCtxSetBuf(w, f, buf) ==
    Fail(w) \cup Ok([FreeBuf(w, f) EXCEPT !.file[f].buf = buf])

\* The external function fails; what it has written into the vector plaintext
\* is freed as it is.
DecryptFails(w) == Fail(w) \cup Fail(Delete(w, "unfinished_plaintext"))

\* From then on there are two copies: the vector plaintext, cleared before every
\* return, and newPassWd.  The password is not empty.
FileCtxSetPwd(w, f, isCipher) ==
    LET cleared == Delete(w, Zeroed("password"))
    IN
    (IF isCipher THEN DecryptFails(w) ELSE {})
    \cup Fail(cleared)                                  \* no memory, memcpy_s
    \cup Ok([FreePasswd(cleared, f) EXCEPT !.file[f].passwd = "password"])

-----------------------------------------------------------------------------
(* Certificates.  OpenSSL may refuse any text.                             *)

\* BIO_new_mem_buf, the reading, BIO_free; or fopen and fclose.
OpenBio(w) == Fail(w) \cup Ok(Acquire(w))
CloseBio(results) == {[r EXCEPT !.w = Release(@)] : r \in results}

\* Reading makes an object if the text is one of those wanted.
ReadOne(w, text, wanted) == Fail(w) \cup (IF text \in wanted THEN Ok(Acquire(w)) ELSE {})

\* The object that was read is given to OpenSSL, which takes a reference of its
\* own or refuses, and freed in either case.
GiveOne(w, given) == Fail(Release(w)) \cup Ok(Release(given))

CertBuffer2X509(w, text) == Then(OpenBio(w), LAMBDA b : CloseBio(ReadOne(b, text, Certs)))

AddCa(w, text) == [w EXCEPT !.store.ca = @ \cup {text}]

\* Mutant: a certificate that OpenSSL refuses is not freed.
AddCaCertLeaks(w, text) ==
    Then(CertBuffer2X509(w, text), LAMBDA x : Fail(x) \cup Ok(Release(AddCa(x, text))))

AddCaCertByBuffer(w, text) ==
    Then(CertBuffer2X509(w, text), LAMBDA x : GiveOne(x, AddCa(x, text)))

\* OpenSSL takes from a file of CAs the CRLs as well, and does not turn on their
\* check.
AddCaCertByFile(w, text) ==
    Fail(w) \cup (IF text \in Certs \cup {"crl"} THEN Ok(AddCa(w, text)) ELSE {})

\* OpenSSL calls DefaultPemPasswordCb when what it reads from a file is
\* encrypted, a key or a certificate, and that reads the password the SSL_CTX
\* points to.
DefaultPemPasswordCb(w, reader) ==
    [w EXCEPT !.readDangling = IF w.store.userdata = Dangling THEN @ \cup {reader} ELSE @]

\* SSL_CTX_use_certificate: the certificate takes the place of the one before,
\* and a private key that does not belong to it is freed.
UseCertificate(w, text) ==
    LET used == [w EXCEPT !.store.ee = text]
    IN {used} \cup (IF text = w.store.ee THEN {} ELSE {[used EXCEPT !.store.key = FALSE]})

AddEeCertByFile(w, text) ==
    UNION {Fail(x) \cup (IF text \in Certs THEN UNION {Ok(y) : y \in UseCertificate(x, text)} ELSE {}) :
              x \in {w, DefaultPemPasswordCb(w, "certificate")}}

LoadEeCert(w, text) ==
    Then(ReadOne(w, text, Certs),
         LAMBDA x : UNION {GiveOne(x, y) : y \in UseCertificate(x, text)})

AddEeCertByBuffer(w, text) == Then(OpenBio(w), LAMBDA b : CloseBio(LoadEeCert(b, text)))

\* SSL_CTX_add_extra_chain_cert takes over the reference that X509_free drops.
LoadCaChain(w, text) ==
    LET added(n) == [w EXCEPT !.store.extra = @ \o [i \in 1..n |-> 1 - 1]]
        counts == IF text = "chain" THEN 0..(MaxChain - Len(w.store.extra)) ELSE {0}
    IN UNION {Ok(added(n)) \cup Fail(added(n)) : n \in counts}

\* OpenSSL uses the first certificate and then may fail to read the others,
\* which it keeps beside it and not with the extra ones.
AddEeChainByFile(w, text) ==
    UNION {Fail(x) \cup
           (IF text \in Certs THEN UNION {Ok(y) \cup Fail(y) : y \in UseCertificate(x, text)} ELSE {}) :
              x \in {w, DefaultPemPasswordCb(w, "certificate")}}

\* When the chain can not be read to the end the certificate stays.
AddEeChainByBuffer(w, text) ==
    Then(OpenBio(w), LAMBDA b : CloseBio(Then(LoadEeCert(b, text), LAMBDA x : LoadCaChain(x, text))))

\* ReadCrlByFile and ReadCrlByBuffer.
ReadCrl(w, text) == Then(OpenBio(w), LAMBDA b : CloseBio(ReadOne(b, text, {"crl"})))

\* Mutant: the check of CRLs is not turned on.
AddCrlUnchecked(w, text) ==
    Fail(w) \cup Then(ReadCrl(w, text), LAMBDA x : GiveOne(x, [x EXCEPT !.store.crl = @ \cup {text}]))

\* The check is on before the CRL is read, and stays on when it can not be.
AddCrl(w, text) ==
    Fail(w) \cup Then(ReadCrl([w EXCEPT !.store.crlCheck = TRUE], text),
                      LAMBDA x : GiveOne(x, [x EXCEPT !.store.crl = @ \cup {text}]))

\* AddCaCert, AddEeCert, AddCrl, AddEeChain by the type of the certificate and
\* of the file context.  A file context without a buffer has the store type
\* of a path and is refused.
AddCert(w, buf, type) ==
    IF buf = None
    THEN IF type = "CRL" THEN Fail([w EXCEPT !.store.crlCheck = TRUE]) ELSE Fail(w)
    ELSE CASE type = "CRL" -> AddCrl(w, buf.text)
           [] type = "CA" /\ buf.storeType = "FILE_PATH" -> AddCaCertByFile(w, buf.text)
           [] type = "CA" /\ buf.storeType = "BUFFER" -> AddCaCertByBuffer(w, buf.text)
           [] type = "EE" /\ buf.storeType = "FILE_PATH" -> AddEeCertByFile(w, buf.text)
           [] type = "EE" /\ buf.storeType = "BUFFER" -> AddEeCertByBuffer(w, buf.text)
           [] type = "EE_CHAIN" /\ buf.storeType = "FILE_PATH" -> AddEeChainByFile(w, buf.text)
           [] type = "EE_CHAIN" /\ buf.storeType = "BUFFER" -> AddEeChainByBuffer(w, buf.text)

-----------------------------------------------------------------------------
(* The private key.                                                        *)

\* SSL_CTX_use_PrivateKey refuses a key that does not belong to the certificate;
\* OpenSSL 1.1.1 then frees the certificate, OpenSSL 3 leaves it.
UseKey(w) ==
    Fail(w) \cup Fail([w EXCEPT !.store.ee = None]) \cup Ok([w EXCEPT !.store.key = TRUE])

SetKeyByFile(w, text) ==
    UNION {Fail(x) \cup (IF text = "private_key" THEN UseKey(x) ELSE {}) :
              x \in {w, DefaultPemPasswordCb(w, "key")}}

\* A key from a buffer is read without the password of the file context.
KeyBuffer2Evp(w, text) == Then(OpenBio(w), LAMBDA b : CloseBio(ReadOne(b, text, {"private_key"})))

SetKeyByBuffer(w, text) ==
    Then(KeyBuffer2Evp(w, text), LAMBDA x : {[r EXCEPT !.w = Release(@)] : r \in UseKey(x)})

\* Mutant: the SSL_CTX is only told of a password that is there.
PointToPasswordIfAny(w, f) ==
    IF w.file[f].passwd = None THEN w ELSE [w EXCEPT !.store.userdata = f]

\* SSL_CTX_set_default_passwd_cb_userdata.
PointToPassword(w, f) ==
    [w EXCEPT !.store.userdata = IF w.file[f].passwd = None THEN None ELSE f]

SetKey(w, f) ==
    LET x == PointToPassword(w, f)
        buf == w.file[f].buf
    IN IF buf = None THEN Fail(x)
       ELSE IF buf.storeType = "FILE_PATH" THEN SetKeyByFile(x, buf.text)
       ELSE SetKeyByBuffer(x, buf.text)

-----------------------------------------------------------------------------
(* PSK sessions.                                                           *)

\* Once the key is decrypted, both copies are cleared before the call returns.
SessionSetMasterKey(w, s, isCipher) ==
    LET plain == IF isCipher THEN Delete(w, Zeroed("master_key")) ELSE w
        cleared == Delete(plain, Zeroed("master_key"))
    IN (IF isCipher THEN DecryptFails(w) ELSE {})
       \cup Fail(cleared)
       \cup Ok(cleared)

\* The cipher suite of a session is not followed.
SessionSetCipher(w, s) == Fail(w) \cup Ok(w)

\* Mutant: a name that is not in the table is passed on.
SessionSetAnyVersion(w, s, version) == Fail(w) \cup Ok([w EXCEPT !.session[s].version = version])

\* Versions are given by name; ProtocolStrToInt knows two of them.
SessionSetProtocolVersion(w, s, version) ==
    Fail(w) \cup (IF version \in {"TLSv1.2", "TLSv1.3"}
                  THEN Ok([w EXCEPT !.session[s].version = version]) ELSE {})

\* The name is returned in a new buffer, which the application owns.
SessionGetProtocolVersion(w, s) ==
    Fail(w) \cup (IF w.session[s].version = None THEN {}
                  ELSE Ok([w EXCEPT !.buffers = @ + 1]))

FreeBuffer(w) == Delete([w EXCEPT !.buffers = @ - 1], Zeroed("version"))
=============================================================================
