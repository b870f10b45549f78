# A TLA+ model of SCF

SCF (secure communication framework) is a C++ library between an application and
OpenSSL: a C-style API of policy contexts and policy objects (`src/src/scf`), an adaptor
that drives a dynamically loaded OpenSSL (`src/src/adaptor`), role based access control
over the nodes of a cluster (`src/src/scf/policy/auth/rbac`), and a newer object-oriented
layer of secure connections over pluggable transports and crypto engines
(`src/src/connection`, `src/src/transport`, `src/src/crypto`). This directory holds the
TLA+ modules that model it, the TLC configurations that check them, and TLAPS proofs.

## 1. Inventory

| Component | State | Operations | What makes it correct |
|---|---|---|---|
| RBAC (`rbac.cpp`, `policy_matcher.cpp`) | per context: node-role mapping and its frozen flag, switch, rules with a 32-bit id counter, two mutexes | set/remove mapping, freeze, enable, add/remove rule, check permission, queries | decisions follow the documented precedence although role and rules are read at different times; ids are not reused; established roles do not change |
| Key update (`session_key_update.cpp`, `psk_key_policy.cpp`, `SCF_Write`) | per context: switch and thresholds; per object: traffic counter, time of the last update | set parameters, write, manual update, query | a key never carries more than the threshold or lives longer than the interval while writes succeed |
| Life cycle (`policy.cpp`, `obj.cpp`, `tls_init.cpp`) | `g_scfInitialized`, `g_adaptor`, a reference counter per context | init, deinit, create, free | no use after free, no leak, with frees from several threads |
| SCFConnection (`scf_connection_impl.cpp`) | state, handshake flag, pointers to context, object, transport, engine and the ownership of the engine | Create, Connect, Listen, Accept, HandshakeStep, Close, Read, Write, delete | everything is released once; data only flow after a handshake; no dangling engine |
| Transports (`socket_transport.cpp`, `urma_transport.cpp`) | descriptor, connected and bound flags | Connect, Bind, Accept, Send, Recv, Close, Clone | a descriptor is closed exactly once, although its number comes back; the end of a connection is reported when it is the end |
| TLS adaptor | the installed engine; per context an `SSL_CTX`, per object an `SSL` | one per API function | what is reported agrees with OpenSSL; a setter that fails half way does not weaken what is in force |
| Policy configuration (`policy.cpp`, `config.cpp`, `parse_config.cpp`) | role, verify mode, versions, cipher suites of a context | setters, configuration file | success is reported only when everything asked for is in force (a failure leaves the parts before it); the verify mode in force is the one asked for |
| Certificates, keys, file contexts | buffers with passwords, the trust store | new, set, free, add certificate, CRL, key | copies of secrets that the library has whole are cleared and freed once; a CRL that is loaded is checked |
| PSK and sessions (`psk.cpp`, `psk_session_policy.cpp`) | callbacks in contexts copied to objects, OpenSSL sessions | set callback, session setters | verification is only given up for a complete session |
| Crypto engines (`default_crypto_engine.cpp`, `kae_provider_engine.cpp`) | library context, providers, fallback engine | Initialize, Finalize, primitives | released once, also when threads race for the fallback engine; acceleration is only reported while it is there |
| dlopen tables, logging, registries | none worth a model | | |

**How they interact.** An application initialises the library, makes a context, configures
it, makes objects from it, and connects each object. `SCF_Connect`/`SCF_Accept` freeze the
role mapping of the object's context; `SCF_Write` consults the context's key update
parameters; every object holds a reference to its context. An `SCFConnection` drives all
of this for one connection, and installs its crypto engine in the adaptor, of which there
is one per process; `InitSsl` reads it when an `SSL_CTX` is made.

**What is hard.** RBAC and the free functions are called from several threads; a
permission check reads under three different protections; key update parameters are
written and read without a lock; the context's counter is lock-free; a write may succeed on the wire and fail in the key update after it; counters
can overflow and the clock can be set back; `Connect` and `Accept` are long chains in which
every link can fail, some failures clean up and others do not; engines are shared between
a listener and its children without shared ownership; a configuration is applied in pieces,
each of which can fail; a context is reconfigured while objects made from it live; secrets
exist in several copies on paths that can end anywhere; descriptor numbers are used again;
the fallback engine is made lazily without a lock. `PROJECT.json` lists each of these
hazards with its line and the properties that watch it.

## 2. Modules

| Module | Models | Used by |
|---|---|---|
| `PolicyRules` | rules, matching, priorities, and the reference verdict `IsVerdict` | `Rbac` |
| `Rbac` | `rbac.cpp` of one context, several threads | `MCRbac`, `RbacProofs` |
| `KeyUpdate` | one object on an established connection, and its context's parameters | `MCKeyUpdate`, `KeyUpdateProofs` |
| `SharedContext` | abstract: an object that lives as long as somebody holds it | `PolicyLifecycle` |
| `PolicyLifecycle` | init/deinit, create, and the steps of the two free functions | `MCPolicyLifecycle`, `LifecycleProofs` |
| `Connection` | all `SCFConnection`s of a process and what they own | `MCConnection`, `ConnectionProofs` |
| `PolicyConfig` | the setters of a context, the objects made from it, their handshakes | `MCPolicyConfig`, `ConfigFile`, `PolicyConfigProofs` |
| `Credentials` | file contexts, certificates, CRLs, keys, sessions, and the memory they take | `ConfigFile` |
| `ConfigFile` | composes `PolicyConfig` and `Credentials`: a configuration file, and the same by calls | `MCConfigFile`, `ConfigFileProofs` |
| `Transport` | the transports over the descriptor table of the process | `MCTransport`, `TransportProofs` |
| `CryptoEngine` | software and KAE engines used by several threads | `MCCryptoEngine`, `CryptoEngineProofs` |

**Rbac.** A bitmap is the set of its bits, a node id an opaque value, `"*"` the constant
`Wildcard`. A certificate is a record of what its two extensions parse to (a value, absent,
or malformed). Each short critical section is one action. `SCF_CheckResourcePermission` is
a sequence `CheckEnter` (parameters, switch), `ResolveLocalIdentity` (certificate and
mapping), `LockRules`, `MatchPolicyRule` (one iteration of the loop each, in the order of
the ids, with the mutex held) and `CheckReturn`. A connection goes through `HandshakeDone`
and then `FreezeNodeRoleMapping`, so that the window between the two is in the model.
History: `issued` (ids given out) and `local.fixed` (the role that was read can no longer
change).

**KeyUpdate.** No lock protects the parameters of a context, so that every access to them is
a step. `SetKeyAutoUpdateParam` begins a call (variable `setting`) and `SetParam` writes one of
its fields, in any order. `SCF_Write` is `SSLWrite`, then `WriteUncounted`, `WriteOldVersion`
or `CheckNeedKeyUpdate` by the switch and the version, then the three reads of the traffic
threshold (`CheckLength`, `CheckTraffic`, `CheckCounted`), `CheckTimeInterval` and
`WriteUpdatesKey`. Additions and the difference at `session_key_update.cpp:52` are 64-bit
(`WrapAdd`, `WrapSub`, `SaturatingAdd` over `U64Max`). OpenSSL may refuse a key update at any
time, and always does below TLS 1.3. History: `keyBytes` and `keySince`, the true traffic and
birth of the key; `tracked`, whether the counters have seen all of it; `lastRead`, the threshold
the write has read last; `owed`, whether the write was as long as the traffic that remained.

**PolicyLifecycle.** `SCF_FreePolicyCtx` is split at every access to the atomic counter:
`FreeEnter`, `LoadRefCnt`, `CasFails` (also spuriously), `CasSucceeds`, `DeleteCtx`;
`SCF_FreePolicyObj` continues with `DeleteObj`. `ImplementsShared` is refinement: the memory
state and the set `Holders` (handles the application has and handles whose reference a
thread is about to drop) behave as `SharedContext`.

**Connection.** A call is one step, because the API is non-blocking and made for an event
loop. The functions a call is made of are operators from a *world* to the set of results
they can have, chained by `Then` as the code chains its early returns; `Connect` and
`Accept` are such chains. What the k-th setup of connection `c` makes is named `<<c, k>>`,
so that a pointer that is overwritten leaves a resource behind that the model still sees.
`SSLHandshake` models that OpenSSL answers at once when a handshake is already over. The
variable `careful` is chosen once: a careful application does what the samples under
`src/sample` do, sets a connection up only when it holds nothing, steps a handshake only
while it is under way, and deletes a listener after what it has accepted. It also connects
clients and listens on servers, which the code does not ask for.

**PolicyConfig.** The context has the fields of `SCF_PolicyCtx` and, as `ssl`, the part of the
`SSL_CTX` that OpenSSL was asked for: method, version bounds, forbidden versions (which
accumulate, as `SSL_OP_NO_*` do), verify bits, security level, suites, callbacks. The
functions of the adaptor are operators from a context to the set of their results, so that
`SetPolicy`, which stores its arguments before anything is known to work, leaves behind what
the code does. An object copies fields when it is made and the `SSL_CTX` at `SCF_SetFd`; the
PSK wrappers run inside `Accept` and `Connect`, where the server's turns verification off.
`SSL_new` may return null, which `SCF_SetFd` does not look at: the process ends there
(`SetFdWithoutSsl`). `policyOk` and `crashed` are history. A careful application sets the policy before it makes
objects, goes on only after success, configures nothing once it is connected, and has a
callback that reports success only with a session.

**Credentials, ConfigFile.** The world counts what a call has made and not released (`tmp`),
remembers what was in freed memory (`freed`), and follows the pointer to a password that the
`SSL_CTX` keeps (`userdata`) and who was led to freed memory by it (`readDangling`): OpenSSL
asks `DefaultPemPasswordCb` for keys and for certificates from files. Certificates have an
identity: `UseCertificate` replaces the one before and may drop a key that does not match,
`UseKey` may be refused and then, in OpenSSL 1.1.1, drops the certificate. A decryption that
fails may leave plaintext in memory that is freed as it is (`DecryptFails`). A file is parsed
(`ParseConfig`; paths may be refused), its key authentication copied into a `Config` (`keyAuth`,
from `ParsedInto` to `DestroyConfig`), and its parts applied in the order of `SetConfig`, each
stopping at its first failure; `CleanConfig` runs on failures only. The same setters are called
by the application in any order in between.

**Transport.** A descriptor is a number; `socket` and `accept` give out any free one, those
that were closed included, and a socket remembers for whom it was opened. The other end
accepts, refuses, sends and closes at any time, and a connection, made or on its way, can fail:
its error is then returned once (`error`), and the end of the stream afterwards. A careful
application closes before it connects or binds again, clones only what has no descriptor, and
transfers at least a byte.

**CryptoEngine.** `GetFallbackEngine` has no lock and reads its member four times, so that a
request to a KAE engine is several steps: look (`Request`), make (`MakeFallback`), initialise
(`InitializeFallback`), return (`ReturnFallback`), run. When there is no memory for the fallback
engine the null pointer is followed and the process ends (`crashed`). Initialize and Finalize are
chains of OpenSSL calls with the early returns of the code. Lengths are cast to an `int` of
`IntBits` bits as the code casts them. What cryptography promises is not modelled: whether a tag
fits is left open. A careful application initialises an engine before use and uses it from one
thread at a time.

**Several engine, transport and context models.** `Connection` looks at transports, engines
and contexts from their owner, as things that exist or do not; `Transport`, `CryptoEngine`
and `PolicyConfig` open them. What `Connection` takes from them (a destroyed transport is
closed, a finalised engine has no library context, an object without an `SSL` can not shake
hands) is what they show.

## 3. Runs

| Run | Checks | Instance |
|---|---|---|
| `rbac` | `TypeOK`, `RuleKeysUnique`, `MatchIsVerdict`, `DecisionIsCurrent`, `RuleIdsNeverReused`, `EstablishedRolesFixed`, and under fairness `MutexReleased` | 2 threads, 1 connection, 2 nodes, rule ids up to 3, at most 2 rules and 1 mapping |
| `key_update` | `TypeOK`, `KeyLifetimeEnforced`, `RemainTrafficHonest` | a 3-bit counter, writes of 1 and 3 bytes, thresholds at and beyond both limits; 2,207,688 states |
| `key_update_due` | **violated**: `UpdateOnlyWhenDue` | same |
| `lifecycle` | `TypeOK`, `NoUseAfterFree`, `ImplementsShared`, and under fairness `NothingLeaks` | 3 threads, the context and 2 objects |
| `connection` | `TypeOK`, `InstalledEngineLive`, `ConnectedIsReady`; of careful applications `PointersValid`, `DestructorReleases`, `EngineOutlivesContext` and the open transport of `ConnectedIsReady` | 2 connections with and without PSK, 3 setups together, up to 2 each; 926,998 states |
| `connection_fallback` | **violated**: `FallbackIsSoftware` | 2 connections, used as the samples do |
| `policy` | `TypeOK`, `ObjectKeepsMode`, `ObjectKeepsVerification`, `ObjectCanNegotiate`, `NoNullSslCtx` | 1 object at a time, 5 bounds, 4 lists of forbidden versions, 4 lists of suites, 4 verify modes; 599,089 states |
| `config_file` | `TypeOK`, `OwnCopiesCleared`, `NothingOutstanding`, `KeyPasswordAlive`, `CrlIsChecked`, `SuccessMeansInForce` | 4 files, 1 file context, 1 session; 344,256 states |
| `certs_chain` | **violated**: `ChainCertsAlive` | same |
| `transport` | `TypeOK`, `HoldsOwnSocket`, `NoDescriptorLeaked`, `ClosedIsTheEnd` | 4 transports, 3 descriptors, 2 bytes; 346,751 states |
| `transport_clone` | **violated**: `HeldIsOpen` | same, any order of calls |
| `engine` | `TypeOK`, `NothingUsedAfterFree`, `AccelerationIsReal`, `NothingOutstanding` | 2 engines, 2 threads, a 2-bit `int`; 16,659 states |

The violated properties are what a document, a comment or a message of the repository says;
the findings in `PROJECT.json` quote them:

* after its first key update an object updates its key with every write, because the
  adaptor stores 0 as the time of the update;
* a connection whose engine does not initialise is bound to the engine another connection
  has left in the adaptor, and not to the software default its warning announces;
* the certificates of a chain that is loaded from a buffer are freed although the `SSL_CTX`
  has taken over their only reference;
* a clone of a transport holds the descriptor of its original, which either of them closes.

**What the careful assumption leaves out.** Where a property is asked of careful applications
only, the code does not hold it for others, and TLC shows how when the assumption is dropped:

* `DestructorReleases` is violated when `Connect` is repeated while the connection still holds
  what a failed setup made, which overwrites the first one's pointers;
* `HandshakeStep` after `Close` returns the connection to the connected state
  (`scf_connection_impl.cpp:924`);
* a context whose `SCF_SetPolicy` has failed has the new modes with the old `SSL_CTX` or with
  none: objects made from it do not keep the modes they report (`ObjectKeepsMode`), and some
  setters pass the null pointer on to OpenSSL; a callback that reports success without a session ends
  verification on the connection (`openssl_adaptor.cpp:1192`);
* a second `Connect` or `Bind` forgets an open descriptor (`socket_transport.cpp:68`), and a
  transfer of length 0 is reported as the end of the connection (`socket_transport.cpp:237`);
* two threads in `GetFallbackEngine` lose one of two engines (`kae_provider_engine.cpp:295`),
  as does use before `Initialize`, after which `Finalize` returns at once (`:164`).

**What the properties name as exceptions.** These are cases in which the code does not do what
one would like, and which the properties therefore state instead of hiding:

* `DestructorReleases`: a PSK connection never frees the object it makes to look up a cipher
  (`scf_connection_impl.cpp:702-703`), and that object's reference keeps the context. The
  property says that this one reference is all that is left;
* `DecisionIsCurrent`: when access control is switched off after `rbac.cpp:496`, the check still
  answers by the rules where the documented answer is `RBAC_DISABLED`; and when a mapping that is
  not frozen changes after the role was read, it answers by the old role;
* `ObjectCanNegotiate`: `CheckVersion` lets everything through when neither bound is set
  (`openssl_adaptor.cpp:314-316`), also when both supported versions are forbidden, against the
  comment at `:340`; and a list with TLS 1.2 suites alone is accepted where only TLS 1.3 is
  offered, which leaves no suite;
* `OwnCopiesCleared`: when the external decryption fails, what it has written is freed without
  being cleared (`file_context.cpp:147-150`, `psk_session_policy.cpp:63-66`);
* `KeyPasswordAlive` speaks of keys: an encrypted PEM certificate file that is read after the
  file context of the key was freed leads OpenSSL to the freed password
  (`openssl_adaptor.cpp:528`, `:675`, through the pointer set at `:843`); two calls of
  `SCF_SetConfigFile` suffice;
* `CrlIsChecked` is one direction: the check is on before the CRL is read and stays on when that
  fails; and CRLs that stand in a file of CAs are loaded without turning the check on;
* `SuccessMeansInForce` speaks of success: a file that fails leaves its earlier parts in force, a
  chain file that fails may leave its first certificate in use, and with OpenSSL 1.1.1 a key that
  does not match frees the certificate. Of several own certificates the last is in use;
* `ClosedIsTheEnd`: after a refused, reset or timed-out connection has returned its error once,
  `Recv` returns `CONNECTION_CLOSED` (`socket_transport.cpp:241-243`) although the other end has
  never closed;
* `KeyLifetimeEnforced`: a failed manual key update has cleared the counter of the key that stays
  in use (`psk_key_policy.cpp:104`, against `scf_inner.h:64`); such keys are left out
  (`tracked`), as are those written under with automatic update off.

Also seen while modelling, and reported here because no run is about it:
`SCF_FreePolicyCtx` does not null the pointer while objects remain (`policy.cpp:126`, against
`docs/cn/api_documentation.md:1478`); a threshold that is lowered below the length of a write
between `session_key_update.cpp:51` and `:52` makes the unsigned difference wrap, which the
comparison at `:60` makes up for, unless the sum at `:59` has overflowed; `SSL_new` and the
fallback engine's allocation may return null and are used all the same
(`openssl_adaptor.cpp:344-345`, `kae_provider_engine.cpp:297-301` with its callers); the length
of additional data is cast to `int` without a check (`default_crypto_engine.cpp:168`), and an
empty CCM ciphertext may pass without its tag being compared (`:234-246`); a KAE engine says it
supports algorithms that its fallback engine refuses.

**Bounds and why they suffice.** The RBAC limits are reached and exceeded, the id counter
runs out, there is a tie of allow and deny, a more specific rule and its contradiction; two
threads are enough because a check shares nothing with another check but the mutex, and the
theorems lift the bounds. The key update counter is 3 bits wide so that it overflows within
a few writes; `MaxKeyBytes` bounds the history above it. Three threads for three handles let
every reference be dropped at the same time. Two connections are a listener
and an accepted connection, or two strangers that share the adaptor; two setups are one retry, and
three in all let one connection retry while the other is set up. `MaxCareless` keeps the
application of any order at one setup each, because a second one is known to leak. Versions
are below, inside and above the supported range, and lists hold known and unknown members.
One object at a time is enough for `PolicyConfig`: objects share only the context. The four
configuration files are complete, refused by the parser, and refused in the middle. Four
transports exhaust three descriptors, and each number is given out more than once. A 2-bit
`int` makes both a negative and a shortened length; three objects of a type are one more than
the engines own, so that a lost one is seen. Symmetry is used for connections, transports,
engines and threads, in runs without liveness. Deadlock is not checked for `Connection`, where
the pool of connections is finite and an application may stop when it has deleted them all, nor
for `PolicyConfig` and `CryptoEngine`, where the process ends when it follows a null pointer.

**Fairness.** `MutexReleased`: a thread in the matching loop is scheduled (weak fairness);
the loop takes no other lock and calls nothing that waits. `NothingLeaks`: a thread in a free
function is scheduled, and `compare_exchange_weak` does not fail for ever when it could
succeed again and again (strong fairness of `CasSucceeds`), which is what the C++ standard
asks of implementations. Callers are never assumed to call anything.

## 4. Proofs

`RbacProofs`, `KeyUpdateProofs`, `TransportProofs`, `LifecycleProofs`, `PolicyConfigProofs`,
`CryptoEngineProofs`, `ConnectionProofs` and `ConfigFileProofs` prove, for every value of the
constants under the assumptions named in the modules, every invariant and action property and
the refinement that the runs check on small instances. Each inductive invariant was first
checked by TLC on the instance of its run.

* `TypeCorrect`, `KeysUnique`, `VerdictCorrect`, `DecisionCurrent`, `IdsNeverReused`,
  `RolesFixed`, `LimitsKept` for `Rbac`, from the inductive invariant `RbacInv`. None of the
  properties but the first two is inductive alone: the verdict needs the loop invariant (the
  best match so far is the verdict of the visited rules) and that nobody changes the rules
  while the mutex is held (`MutexHeldInLoop`); the current decision needs in addition that
  the role which was read is still the role of the node (`RoleStillValid`); fresh ids need
  that ids increase and cover the map (`IdsIncrease`). `VerdictExtends` is the heart: one
  iteration keeps the verdict, whatever the rule.
* `KeyTypeCorrect`, `KeyLifetime`, `RemainHonest` for `KeyUpdate`, from `KeyInv`: while
  nothing has escaped the counters, the counter is the true traffic but for the write that is not
  counted yet, saturated at 64 bits, and the recorded time is that of the key or 0 (`CountInv`);
  a write that has only the interval left to check is below the threshold it has read last
  (`TrafficInv`); and one that owes an update does not get past the reads of the threshold
  (`OwedInv`), whatever another thread writes between them. `EpochAssumption` says that the clock
  reads more than the longest interval, so that a recorded 0 is always due.
* `TransportTypeCorrect`, `OwnSocketHeld`, `DescriptorsHeld`, `ClosedAtTheEnd` for `Transport`
  with a careful application (`ASSUME Careful`), from `TransportInv`. `HoldsOwnSocket` is not
  inductive: it needs `HeldAt`, the other direction, that every open socket is held by the
  transport it was opened for (or the number a transport gets could be one another still
  holds), and that a transport without a descriptor has no flags and one that is not alive no
  descriptor (`SafeAt`); `ClosedIsTheEnd` needs that a socket whose end was told has lost its
  other end or has failed (`Dead`). Every call changes the world in one of four ways, each with a lemma:
  `ChangeTransport`, `GiveDescriptor`, `TakeDescriptor`, `ChangeSocket`; the functions of the
  code are then composed from them as the code composes them. `NoneAssumption` says that
  `None` is neither a socket nor a result.
* `LifecycleTypeCorrect`, `NeverUsedAfterFree` and the refinement `SharedOwnership` for
  `PolicyLifecycle`, from `LifecycleInv`. `NoUseAfterFree` alone says nothing of the counter;
  what makes it inductive is `CounterCounts`, that the counter is the number of `Holders`.
  Each success of `compare_exchange_weak` takes one holder from both sides, so that the thread
  that takes the last one is alone with the context (`DeleterAlone`); `OneThreadPerHandle` says
  that a handle is freed by one thread, `ContextHeld` and `ObjectsLive` that what a handle
  stands for exists. For the refinement every action is a step of `SharedContext` or leaves
  the memory and the holders alone. `HandleAssumption` says that the objects are finitely
  many and the context is none of them.
* `ConfigTypeCorrect` and `VersionUnderBounds` for `PolicyConfig` with any application, from
  `ConfigInv`: every `SSL` has passed `CheckVersion`, which under a bound leaves it a supported
  version to use (`CheckedOffers`). `ModeKept`, `VerificationKept` and `NeverNullSslCtx` for a careful one (`ASSUME Careful`), from
  `CarefulInv`. The properties compare an object with its `SSL`, which are made from the
  context at different times; the invariant carries from one to the other that a context whose policy is set has an
  `SSL_CTX` that agrees with its fields (`Configured`), that an object agrees with the context
  it was made from (`Copied`) and that its `SSL` has kept what the `SSL_CTX` had (`Kept`). The
  setters are taken together by what they may write (`AdaptorTunes`). `NullAssumption`: `None` is no `SSL_CTX`.
* `EngineTypeCorrect`, `EnginesNeverUsedAfterFree`, `AccelerationAlwaysReal`,
  `NothingLeftOutstanding` for `CryptoEngine`, from `EngineInv`. Its heart is `Ownership`: every
  object on the heap has exactly one owner, but for the fallback engines that racing threads have
  lost, without which an engine that frees its own could free another's; then what a request
  between its steps holds (`InCall`), and that a careful application is alone in an engine
  (`AloneInCall`). `WidthAssumption` states the two facts about `2^IntBits` that the casts need,
  because the provers know nothing of exponentiation; `NullAssumption`: `None` is no object.
* `ConnectionTypeCorrect`, `InstalledAlwaysLive`, `ReadyWhenConnected`, `PointersAlwaysValid`,
  `EngineAlwaysOutlives`, `ReleasedByDestructor` for `Connection`, any number of connections and
  setups, from `ConnectionInv`. A call is a chain of functions from worlds to worlds, so that
  the invariant is one of worlds (`Sound`), and each function of the code has a lemma that says
  under which conditions it keeps it and what it leaves alone; `ConnectKeeps`, `AcceptKeeps`
  and the step lemmas chain these as the code chains its calls. `Points` relates a connection
  with each of its setups in both directions: what it points to exists (for `PointersValid`),
  and, with a careful application, what exists is pointed to (for the destructor), with the
  counter of a context equal to the objects made from it and the connection's own reference.
  `Family` says that the engine an accepted connection shares is owned by a listener that is
  alive. All of them hold with and without PSK: `ObjRefs` counts the object that looks up a cipher
  like any other, which is how `ReleasedByDestructor` knows that its reference is the one left.
* `ConfigFileTypeCorrect`, `OwnCopiesAlwaysCleared`, `NothingEverOutstanding`,
  `KeyPasswordAlwaysAlive`, `CrlAlwaysChecked`, `SuccessAlwaysInForce`, `FilesKeepTheMode` and
  `TrustStoreOnlyGrows` for `ConfigFile` and the `Credentials` below it, for configuration files of
  any length, from `FileInv`. A step is a whole call, and what has to be inductive lies inside
  it: `Safe` holds of every world a call goes through, `Idle` of the worlds between calls, and
  the relations `Step` (file contexts as they were), `FileStep` (one of them changed) and `Part`
  (the temporary one used) say how many objects a part of a call leaves outstanding and that
  the trust store loses nothing (`Grows`). Each function of the code has a lemma in these terms,
  for every outcome; the counts add up to zero along every path (`CreateKeeps` leaves two,
  `CleanKeeps` takes them back). That no freed password is read is no invariant of the pointer,
  which does dangle: `PointKeeps` shows that each `SetKey` sets it anew before OpenSSL can ask.
  What the first certificates of a file have put in force (`UpTo`) survives the later ones because
  of `Grows`, and because an own certificate is only replaced by a later one. `Tuned` is what the TLS part needs
  and keeps: the versions of the high mode, the security level, a suite.
  The loop over the certificates (`AddCert2PolicyCtx`) is a recursive function. The library's
  induction theorems take a predicate as a parameter, which the provers can not instantiate;
  `SetInduction` states induction for a *set* of numbers and follows from the least
  counterexample (`LeastMember`, from the well-foundedness of `<`). With it `LoopExists` shows
  that the recursion defines a function and `AddCert2PolicyCtxKeeps` what it computes: every
  certificate of the list is in force as far as `UpTo` says, or the call has failed and released
  what it made.
  `ConfsAssumption` says that a file lists certificates with PEM texts and types that are
  strings, known to the library or not.

Only proved, with no run: `LimitsKept` (`WithinLimits`, the limits of both maps of `Rbac`),
`FilesKeepTheMode` (no configuration file, also one that fails in the middle, takes a context
of the high mode away from TLS 1.3, lowers the security level or empties the suites) and the
action property `TrustStoreOnlyGrows` (no call, failed or not, takes a CA or a CRL from the trust
store or turns the check of CRLs off).

Only model-checked: liveness (`MutexReleased`, `NothingLeaks`), which is beyond the prover. The
violated properties are refuted by TLC.

## 5. Not modelled, and the plan

Not modelled, because no state of the library depends on it: the getters (certificate
fields, cipher lists, versions, node identities), the tables from security levels to protocol
parameters, user data, logging and its callback, the tables of symbols that `dlopen` fills,
the factories' registries of names. Not modelled, because it is somebody else's: the text of
JSON documents and of certificates, the file system, and cryptography; each is a
nondeterministic answer where the code asks. `SCF_DeInit` racing another call is excluded by
the documentation ("仅需要在进程消亡时调用一次") and left out; so is the use of different connections
by different threads, on which the headers are silent.

The plan is carried out. What would come next is to let different threads use different
connections (`Connection` with calls split where they read the engine of the adaptor), which
needs a decision of the maintainers on what the headers promise there.
