# A verification project for opencie-pkcs11

opencie-pkcs11 is a PKCS#11 module, a C API and a signature SDK for the Italian
electronic identity card (CIE). An application loads one shared library; the
library talks to the card over PC/SC or NFC, keeps sessions, logins, operations
and object handles for the application, watches the readers in a thread of its
own, "pairs" a card with the computer so that users type four of their eight PIN
digits, reads the photograph and the data groups of the chip, and makes and
verifies CAdES, PAdES and XAdES signatures and time stamps.

The modules here are translated from the C++ source, definition by definition;
`PROJECT.json` maps each definition to the lines it stands for.

## 1. Inventory

### Components

| Component | Source | State it keeps | Operations |
|---|---|---|---|
| PKCS#11 entry points | `pkcs11/src/pkcs11/pkcs11_functions.cpp` | `bP11Initialized`, `bP11Terminate`, `p11Mutex`, `g_transport` | the `C_*` functions, the fork handler |
| Slots | `slot.cpp` | per reader a `CSlot`: `bUpdated`, `pTemplate`, `baATR`, `baSerial`, `User`, `dwSessionCount`, `P11Objects`, the handle maps, `lastEvent` | `InitSlotList`, `DeleteSlot`, `Init`, `Final`, `GetTokenInfo`, `AddP11Object`, `GetIDFromObject`, `DelObjectHandle` |
| Slot monitor | `slot.cpp` (`slotMonitor`), `syncro_event.cpp` | the thread, its context, `bMonitorUpdate`, the states it last saw, the event count | polls `GetStatusChange`, finalises slots of removed cards, wakes `C_WaitForSlotEvent` |
| Sessions | `session.cpp` | `g_mSessions`, `dwSessionCnt`; per session its slot, flags, search result and running operations | open, close, close all, login, logout, search, sign, digest, verify, operation state |
| Card template | `card_template.cpp`, `cie_p11_template.cpp` | `CIEData`: ATR, `init`, `userType`, `SessionPIN`, the DAPP key | init card and session, login, logout, sign, init PIN, set PIN |
| Objects and mechanisms | `p11_object.cpp`, `mechanism.cpp` | attributes, the data a mechanism has buffered | find, get attributes, digest, padding, signature comparison |
| Pairing and PIN management | `csp/cie_enable.cpp`, `pin_manager.cpp`, `cie_sign_csp.cpp`, `cie_get_certificate.cpp` | none of their own between calls | `cie_enable`, `cie_is_enabled`, `cie_disable`, `cie_change_pin`, `cie_unblock_pin`, `cie_sign`, `cie_get_certificate`, reader queries |
| Cache files | `shared/src/util/cache_lib.cpp` | `<PAN>.cache` (first PIN half, certificate), `<PAN>.der` | exists, remove, get and set, `WriteFileAtomic` |
| Retry | `shared/src/util/retry.h`, `util_exception.cpp` | the attempt number | `RetryOnCardLinkError` |
| IAS protocol | `shared/src/csp/ias.cpp`, `ext_auth_key.cpp` | keys and counters of secure messaging, PAN, AIDs, the read buffers | SELECT, DH exchange, DAPP, VERIFY, CHANGE and RESET PIN, read files and certificate, sign, check the SOD |
| PACE, chip reading | `shared/src/csp/pace.cpp`, `pkcs11/src/csp/cie_read_chip.cpp` | PACE keys, send sequence counter, the thread's last error | PACE, secure messaging, reading DG1 and DG2 with CAN or PIN |
| PC/SC and NFC transports | `shared/src/pcsc/*.cpp` | context, connection, transaction; netlink queue, target, ATR, cancellation flag | connect, reconnect, transmit, wait for cards, cancel |
| Signature verification | `sign-sdk/src/cie_sign_api.cpp`, `asn1/signer_info.cpp`, `asn1/certificate.cpp`, `cert_store.cpp`, `crl.cpp`, `ocsp_request.cpp`, `pdf_verifier.cpp`, `xades_verifier.cpp`, `pkcs11/src/csp/cie_verify_csp.cpp` | the certificate store, the last `VERIFY_RESULT` | `cie_sign_verify_*`, `cie_verify`, `cie_get_verify_info`, `cie_extract_p7m` |
| Signature generation | `sign-sdk/src/signature_generator.cpp`, `cie_signer.cpp`, `tsa_client.cpp`, the PDF and XML generators, `pkcs11/src/sign/cie_sign.cpp`, `cie_timestamp_csp.cpp` | the `CIE_SIGN_CONTEXT` with its options, generator and signer | `cie_sign_sign_*`, `cie_sign`, `cie_timestamp` |
| ASN.1, cryptography, error table, utilities | `sign-sdk/src/asn1`, `shared/src/crypto`, `cie_error.cpp`, `shared/src/util` | none that a protocol step reads | data transformations |

### How they interact

- Every `C_*` function takes `p11Mutex` and keeps it until it returns, except
  `C_WaitForSlotEvent` while it waits and `C_Finalize` while it joins the
  monitor. The monitor takes the same mutex, but reads the slot map's first
  element, `dwSlotNum` and the reader states, and resets `bMonitorUpdate`,
  without it.
- The monitor finalises a slot (closing its sessions) when its card is removed,
  and signals an event that counts. `InitSlotList` tells it of a changed slot list
  through `bMonitorUpdate`, which the monitor sees when its wait of at most a
  second is over.
- A running operation lives in a session, names its key by handle, and is carried
  out by whatever card is in the reader when it ends, with the PIN kept at login.
- The `cie_*` functions do not take `p11Mutex`. They, and the PKCS#11 module of
  another process, meet on the card, where `CToken::Reset` begins a PC/SC
  transaction that ends with the connection, and on the cache files, which
  nothing locks.
- Chip and library share a counter per secure channel; each message that is sent,
  answered, refused or lost moves it on one side or on both.
- The transports are behind `ISmartCardTransport`; the Linux NFC one talks to the
  kernel over a netlink socket on which replies and events share one queue.
- `cie_sign` and `cie_timestamp` wrap the signing half of the SDK, `cie_verify`
  the verifying half, which asks OCSP responders and CRL servers over HTTP.

### What is hard here

Three threads of one process share slots and flags (monitor, caller, waiter);
several processes share cards and files. Cards and readers come and go, and a card
may be exchanged for another between two commands. Card commands fail before or
after they took effect, and each wrong PIN or CAN costs a try. Reads are repeated
after a broken link into buffers that the failed attempt filled. Answers of the
network are late, foreign or lost. A call can end in the middle of a series of
changes. A process forks or dies. `PROJECT.json` lists the hazards, each at its
line, with the property that would catch it or the reason why there is none.

### What makes each component correct

- Slots and sessions: the counts, logins, searches and handles of a slot agree
  with its sessions and its card, after every order of calls and card changes.
- Monitor: nobody waits for ever, no card event is lost, the thread touches
  nothing that has gone.
- Operations: what is handed out covers exactly what was given, was made by the
  token and under the login that the session sees, and verifies.
- Pairing: the cached half is the card's; a right PIN costs nothing; no call
  costs more than one attempt; every call returns; only enrolling enrols; what is
  stored is what one document's SOD vouches for.
- Cache files: a reader sees the old file or the new one, never a mixture.
- Chip reading: card and library agree on the send sequence counter; a call
  delivers both files of one card that knows the secret, or says why not.
- Transports: a connection is to one card, and Cancel ends a wait.
- Verification: what a result claims is true, as of the time it names, and of
  the file that was asked about.
- Generation: a 0 stands for a signature that verifies, by a certificate that was
  checked when that was asked for, with a time stamp made for it.

## 2. Modules

| Module | Role |
|---|---|
| `SlotSessions` | slots, sessions, logins, searches, handles, the monitor's effect on them |
| `SlotSessionsProofs` | its inductive invariant and the theorems that follow |
| `Operations` | extends `SlotSessions` by the digest, sign and verify operations of sessions, PINs and cards that are exchanged |
| `OperationsProofs` | that it keeps what `SlotSessions` has, and the theorems about signatures and digests |
| `SlotMonitor` | the threads: monitor, application, waiters; hot plugging, fork, the service stopping |
| `SlotMonitorProofs` | its inductive invariants and theorems |
| `Pairing` | PIN, PUK, cache files and the calls that use them, from several processes |
| `PairingProofs` | its inductive invariants and theorems |
| `CacheFile` | `WriteFileAtomic`, system call by system call |
| `Sod` | what the two SOD checks accept (operators only) |
| `EnrolData` | what `cie_enable` reads and stores; uses `Sod`, contains an instance of `CacheFile` |
| `EnrolDataProofs` | theorems about both |
| `DocumentRead` | abstract: what reading a document promises |
| `ChipReader` | `cie_read_dgs_can` and `cie_read_dgs`; refines `DocumentRead` |
| `ChipReaderProofs` | its inductive invariant and theorems |
| `CardTransport` | abstract: what `ISmartCardTransport` promises |
| `NfcCards`, `LinuxNfc`, `AndroidNfc` | cards in the field and their ATR; the two NFC transports |
| `NfcTransport` | their composition; refines `CardTransport` |
| `NfcTransportProofs` | the refinement, step by step, and the theorem about the ATR |
| `CertTrust` | certificates, store, chain links, OCSP and CRL answers (operators only) |
| `CmsSignature` | extends `CertTrust` by what a signer info is and what verifying it finds (operators only) |
| `SignVerify` | extends `CmsSignature`: the verifying thread and the wrappers around it |
| `SignSdk` | extends `CmsSignature`: the signing thread and the wrappers around it |
| `MC...` | instances for TLC; `MCPki` is the PKI that `MCSignVerify` and `MCSignSdk` share |

The names of the source are kept (`C_OpenSession`, `bUpdated`, `g_mSessions`,
`slotMonitor`'s steps as `Monitor...`, `RetryOnCardLinkError`). An operator
`X_Something` before `X` is a deliberately wrong variant of `X`, used to show that
a property would notice that mistake; no specification uses it.

### SlotSessions

*State.* `slot[s]` is the `CSlot` with the fields above and, as `cie`, the
`CIEData` behind it; `g_mSessions` and `dwSessionCnt` as in the code; `card` is what
is physically in each reader; `monitor`, `seen` and `event` are the thread, the
state it last recorded and what it has read but not handled. A `CP11Object` is
the number of the creation it comes from, its class and its card, so that objects of two
insertions of one card differ, as their addresses do.

*Actions.* One per `C_*` function, since each runs under `p11Mutex`:
`C_Initialize`, `C_Finalize`, `C_OpenSession`, `C_CloseSession`,
`C_CloseAllSessions`, `C_GetTokenInfo`, `C_Login`, `C_Logout`,
`C_FindObjectsInit`, `C_FindObjects`, `C_FindObjectsFinal`. What the code applies
to a `CSlot` (`Logout`, `SlotFinal`, `DropSessions`, ...) is a function on slot records,
composed in code order, and card I/O inside a call has the outcomes of `Answer`:
the connection fails, a later command fails, all works. The partial state left by
a failure is the action's result. `MonitorPoll` reads the readers, unlocked;
`MonitorHandle` is the locked work on one slot; `MonitorResync` the restart after
an update; `MonitorExit` the end of the thread.

*Left out.* Attributes; readers that come and go (that is `SlotMonitor`); return
codes, except where a property asks (`TokenInfoResult`).

### Operations

*State.* On top of `SlotSessions`: `ops[h]`, the three mechanism objects of a
session (mechanism, key handle, buffered parts), `SessionPIN` and `dapp` of each
slot's `CIEData` (the PIN kept at login and the card whose DAPP key was read), and
PIN and retry counter of each card. Bytes are sequences of parts; a digest or an
RSA block is named by what it was computed from. History fields record what the
caller gave, what an operation cost and whether somebody logged out meanwhile.

*Actions.* `C_DigestInit`, `C_Digest`, `C_DigestUpdate`, `C_DigestFinal`, the same
for signing and verifying, `C_GetOperationState` with `C_SetOperationState`,
`C_SetPIN`, and every action of `SlotSessions`, with what it does to operations
(`Follow`). What a call answers is an operator (return value, what is left of the
operation, what the caller gets), so that a property can ask what a session *would*
be given in any reachable state; the action follows its answer. Buffers are null,
too small or large enough.

*Left out.* `C_Encrypt`, `C_Decrypt` and the recovering calls: no key of a CIE
permits them.

### SlotMonitor

*State.* The two atomics, the slot list with `lastEvent`, `bMonitorUpdate`,
whether `CSlot::Thread` is joinable, the count in `p11slotEvent` (`pending_`), and a
program counter with locals for the application thread (`app`), the monitor (`mon`) and
each waiter; and the world: readers plugged, cards in them, the service.

*Steps.* A locked section without a wait is one step; each unlocked access is a
step of its own. `p11Mutex` is a variable because two locked sections take several
steps: the sweep of `InitSlotList` over its iterator, and the part of `C_Finalize`
that uses `ThreadContext`. After a fork the model follows the child, where the
`Thread` object is still joinable and no thread is behind it (`"gone"`).

### Pairing

*State.* On each card `pin` (a pair of halves), `tries` and `pukTries`; the two
kinds of files by name; `login`, the `CIEData` of the slot; `owner`, who has the
PC/SC transaction on a card; `call[p]`, the call a caller is in with its locals
(reader index, attempt, `isEnrolled`, certificate, step). `charged` counts the
attempts a call has cost, for the properties only.

*Steps.* A call begins (`cie_enable` ... `C_InitPIN`), scans the readers or locks its card, and
goes through the card's commands and the file operations, each one step:
`Scan`, `Lock`, `Header`, `ReadData`, `CardAuthenticateEx`, `Verify`,
`CheckEnrolled`, `FetchCertificate`, `UnblockPIN`, `ChangePIN`,
`ReadCertificate`, `StoreCache`, `CacheSetDer`, `CacheGetDer`, `RemoveCache`,
`RemoveDer`. `LinkError` is a broken link in the card conversation, with the retry
that the code gives it at that place; `WriteFails` a write of `cache_lib` that throws;
`CacheUnusable` and `CertificateUnusable` an entry that does not decrypt, or does not
hold a certificate. Faults are a parameter: `"link"`, the card did
not get the command; `"lost"`, it executed it and the answer was lost; `"disk"`, a write
fails; `"data"`, an entry or a certificate cannot be used; `"crash"`, the
process dies. File names are `dumpHexData` (upper case) or `hexEncode` (lower
case), which differ for a PAN with letters, as in the code.

*Left out.* SELECT, public reads, DH and DAPP are one step (`EnrolData` and
`ChipReader` have them); all error codes are `"FAILED"`; writing one file is one
step (`CacheFile` has its system calls).

### EnrolData, Sod, CacheFile

`EnrolData` looks inside one `cie_enable`. `IAS::readfile` appends to the buffer it
is given, so a buffer is the sequence of chunks that were appended, each the i-th
chunk of a file of a card. The header block and the data block are each repeated by
`RetryOnCardLinkError` (`LinkBreaks`), and while a retry waits another card may be
laid on the reader. `CardAuthenticateEx`, `VerifySod` and `WriteCache` follow;
the last runs the steps of `CacheFile` with one writer, and after it `d2i_X509` may find
that the stored bytes are no certificate. A buffer that is not the whole image
of one file is taken to be refused by whoever parses it. An SOD encloses a certificate
with some key, and nothing in the code asks whose: `Issuers` are the keys that are an
issuer's, and only the last part of `StoredIsVouched` speaks of them.

`Sod` has the checks `VerificaSODPSS` (RSA-PSS, SHA-512) and `VerificaSOD` (SHA-1 or
SHA-256) as predicates on what they compare. The first refuses a data group whose
digest differs; the second only logs it. A digest is the pair of the algorithm and the
content, so no two contents collide.

`CacheFile` is unlink, open with `O_EXCL`, write, fsync, rename and the clean-up of
any number of writers that share one temporary name, with a crash anywhere.

### ChipReader, DocumentRead

*State.* `t`, the calling thread with its program counter, place in the command
script, channel (key and counter), what it has read; `chip[r]`, key, counter, stage
of PACE, PIN state and wrong secrets counted; `there`, which readers have their
card; `ret` and `kind`, what the caller is told.

*Steps.* `EstablishContext`, `ConnectReader`, `CardAccess` (with the power cycle of
the field for chips that hide EF.CardAccess), `Authenticate` (the script of PACE, or of
DH exchange, DAPP and VERIFY), `SelectFile`, `ReadHead`, `ReadBody`, `ReadByFid`.
One exchange with a chip is one step. It may break before or after the chip acts,
come back damaged, be refused, or find the session dropped by another program.
The choice of the protocol from EF.CardAccess (`selectProtocol`, `score`), the
counter with its rollback (`smSend`), the Le fallback, odd-INS reads at large
offsets and the error mapping are as in the code: a status word is classified by
`cie_classify_sw`, and which code goes with it depends on where it came up (`OwnReason`).
Keys are symbolic: equal iff both
sides used the same number and nonce.

`DocumentRead` has three variables: what was asked, what was answered, what each
card counted. A card may count a *right* CAN as wrong: the nonce of PACE is not
protected, and one damaged on its way makes the keys differ.

### NfcCards, LinuxNfc, AndroidNfc, NfcTransport, CardTransport

An activation of a card is a number that never returns, as a target index of the
kernel or a `Tag` object of Android. `LinuxNfc` has the netlink queue `nl` with
replies and events in their order, `findDevice` and `waitForTarget` reading *one*
datagram per request without comparing sequence numbers, `awaitAck`, polling in
slices of 200 ms, and `Cancel`, which takes no lock. `mutex_` makes every other
call one step, except `GetStatusChange` and `Connect`, which hold it while they poll
(`wait`). `AndroidNfc` has the tag handed over by the app, the transport
object that keeps its own reference, and its connection. `CardTransport` says what both must
look like from outside.

### CertTrust, CmsSignature, SignVerify

A certificate is a record of the fields the code compares; a key stands for its
holder. `getHash`, which keys the certificate store by 32 bits, is the constant function
`Bucket`, so that collisions are part of the instance. A bit mask is the set of the
names of its bits; an error code stored in a bit mask (−2, −5) is the set of bits it
has. A verification is a list of jobs, one per signature, countersignature or token;
`NextJob`, `Ocsp`, `Crl` and `Walk` are its steps, between which the clock ticks and
certificates are revoked. Answers of the network may be old, about another
certificate, by a stranger, garbled or missing. A CRL has one of four forms (`CrlForms`),
because `CCrl` takes the fields of the list by number: it enforces an expiry only for a
UTCTime `nextUpdate`, and finds no entries in a list of version 1 or without
`nextUpdate`. `SourceOf` is what a verifier compares a signature with: for PDF the bytes the
`/ByteRange` names or, for `adbe.pkcs7.sha1`, the enclosed content; for XML the document or
the fragments referred to. `ub` records that memory which was
freed or never written has been used; nothing is claimed about what follows.

### SignSdk

`ctx` is the `CIE_SIGN_CONTEXT`; `s` the signing thread, which goes through
`ReadInput`, `OpenCard`, `ReadName` or `ReadCertificate`, `Ocsp` and `Crl` (its
`verifyStatus`, with the answers of `CertTrust`), `Sign`, `Tsa` and `Write`; `files` the disk, with contents as sequences of pieces; `tokens`
every time stamp the authority made, any of which the network may deliver again. That
nobody else's token is delivered is an assumption on the network: `tsa_client.cpp:219`
compares nonce and imprint, and never verifies the token's signature.
`cie_sign` adds the search over the readers and the mapping of codes, `cie_timestamp` the
detached stamp of a file. What `SignSdk` writes is judged by the same
`SignatureBits` that `SignVerify` reports.

## 3. Runs

`tlc -workers 2 -config <cfg> <MC module>`. All bounds are constants of the cfg.

| Run | Instance | What it shows |
|---|---|---|
| `slot_sessions` (134 thousand states) | one reader, a CIE and a foreign card, every I/O outcome; 2 session handles, 2 creations of objects, 2 object handles | sessions, logins, searches and handles stay consistent |
| `operations` | one reader, two genuine CIEs (symmetric), 2 sessions, 2 PINs, short and long data, 3 handles, one try | what is handed out covers what was given, is of this token and this login, and verifies; flags are honest |
| `monitor_live` | one reader, two waiters, 3 calls, 2 card changes, no hot plugging | no waiter is stranded, `C_Finalize` returns and wakes, events are delivered |
| `monitor_hotplug` (2.0 million states) | two readers that come and go, two waiters, the service stopping, one fork | no event without its wakeup; the monitor never sees an empty list; types |
| `pairing_cache` (463 thousand states) | one card, two processes, 2 values of a half, 3 calls, link faults, entries that do not decrypt, all calls except `C_SetPIN` and `C_InitPIN` | the cached half stays the card's, a right PIN is not charged |
| `pairing_faults` (227 thousand states) | one process, a foreign card in the first reader and a CIE whose PAN has letters in the second, all calls, all faults but `"data"`, 2 calls | at most one attempt per call; enrolments are made by `cie_enable` only and keep their certificate; every call returns |
| `enrol_data` (4.3 million states) | six documents (a sound one of the SHA-512 generation, an older one, one with another certificate than its SOD lists, one whose list was not the one signed, one signed by a key of its own, one whose certificate OpenSSL cannot parse); 3 link breaks, 2 exchanges of cards, 2 calls | what is stored is vouched for; no genuine document is refused while the link holds; the file is never half written |
| `chip_reader` (224 thousand states) | five readers: without PACE, with unsupported PACE, hiding EF.CardAccess, with short commands only, with a blocked PIN; 2 calls with CAN or PIN, 2 faults, files of 1 and 5 bytes read in chunks of 2 | counters in step, one try per call, outcomes told, refinement of `DocumentRead`, every call returns |
| `nfc_transport` | both backends, a type A then a type B card, 4 datagrams in the queue, timeouts of 0, 1 and 2 slices | refinement of `CardTransport`, the ATR is of the connected card, Cancel ends every wait |
| `sdk_verify` (71 thousand states) | eighteen documents of every file type with the defects the code tells apart, 2 calls, one abnormal answer, one tick | claims hold of what was looked at, as of their time, for the file asked about; every call returns |
| `sdk_sign` (724 thousand states) | 14 option sets, 3 card certificates, 5 reader lists, 2 calls, one fault or odd answer, one tick | a 0 is a signature, certificates were checked, tokens are fresh |
| `enrol_retry` (violation) | one genuine card, two link breaks | a repeated read makes the card be refused, see section 6 |

*Why the bounds are enough.* Two sessions give a read-only and a read-write one,
and "the last session" against "another session is left". Two creations and two
handles let handles of one insertion meet objects of the next; what needs more
(any number of slots, sessions, handles) is proved. `operations` needs three
handles for the keys of one card and one of another. Two waiters are the least that
can compete for one event; two changes are an insertion and its removal; three
calls are initialise, update, finalise, or initialise, finalise, initialise. In
`Pairing` three calls of two processes are the least for pair, change, use; a card with
fewer attempts than three reaches the blocked PIN sooner and tells nothing else apart.
In `enrol_data` only the SOD takes several chunks, three, so that a break can fall
after the first, in the middle and after the last; two exchanges bring a card away
and back. In `chip_reader` DG2 takes a header, a full and a cut chunk, and fits its
buffer exactly; two faults are a broken attempt whose repetition fails too. Two calls of
`sdk_verify` and `sdk_sign` are the least for what an earlier call leaves behind;
one abnormal answer can be at any of the requests of a chain of three certificates. A queue of
four holds a dump, its end, and two events.

*Deadlock.* On for `SlotSessions`, where cards can always be moved; off elsewhere:
calls are bounded, and a process that makes no more calls rests.

*Fairness.* `SlotMonitor`: weak fairness of the application thread inside a call,
of the monitor and of each waiter. The operating system schedules threads, locked sections
are finite apart from the sweep, which has steps of its own, and the monitor's
`SCardGetStatusChange` has a timeout of a second. `Pairing`, `FairSpec`: weak fairness of the steps of each call, since
PC/SC commands end with an answer or an error, and a transaction ends with the call
that holds it. `ChipReader`: weak fairness of the thread in a call, for the same
reason. `SignVerify`: weak fairness of the verifying thread; libcurl is given a
connection timeout of 15 and a total one of 300 seconds. `NfcTransport`: weak
fairness of the polling loop, whose `poll` ends after 200 ms. Nobody is obliged
to call anything, to move a card or to let anything fail.

## 4. Properties

*Slots and sessions* (three code paths that drop sessions, the monitor finalising
a slot between two calls, failures in the middle of `Init` and login, objects and
handles that outlive a card):

- `SessionsSound`: an open session stands on an initialised slot with objects, and
  `dwSessionCount` is the number of the slot's sessions.
- `LoginSound`: no login outlives the last session, `CSlot::User` and
  `CIEData::userType` agree, no read-only session while the SO is logged in.
- `HandlesSound`: one handle per object and one object per handle; the current
  private key has a handle only under CKU_USER; a search delivers only handles that were given out.
- `HandlesKeepMeaning`: a handle never names a second object, and objects and card
  data do not change under an open session.

*Operations* (length queries, small buffers, failed calls, logouts and exchanged
cards between Init and Final):

- `AnswersCoverGiven`: `C_Sign` covers this call's data and nothing left from
  before; `C_SignFinal` and `C_Digest` every part once.
- `SignaturesSound`: CKR_OK means a signature, by the card whose keys the session
  sees, even when cards were exchanged unseen; an operation begun with a key of the token
  does not survive a logout.
- `OnlyStalePinCostsATry`: a signature costs a card a try only when it is the card of
  the login and its PIN was changed since (`C_SetPIN` leaves `SessionPIN` as it was);
  cards exchanged unseen cost nothing, and a try ends the operation.
- `SignVerifyAgree`: a signature verifies iff mechanism and data are the same.
- `FlagsAreHonest`: what `C_GetMechanismInfo` offers for signing, verifying and
  hashing can be begun; nothing can be written to a token that says WRITE_PROTECTED.
  Its ENCRYPT, DECRYPT and RECOVER flags do not tell the truth and are left out:
  `C_EncryptInit` and `C_DecryptInit` answer CKR_FUNCTION_NOT_SUPPORTED, and no key has
  CKA_SIGN_RECOVER or CKA_VERIFY_RECOVER.

*Threads*: `MonitorSound` (recorded events are matched by wakeups under way; the
monitor never looks into an empty list; types), `BlockedWaiterHasMonitor`,
`FinalizeReturns`, `FinalizeWakes`, `EventDelivered`. `FinalizeWakes` promises that
*one* waiter wakes: `C_Finalize` signals once, and `slotMonitor` signals a second
time only on some of its exits, so that with two or more waiters the others can stay
blocked. The event part says nothing of a forked child, whose count is inherited.

*Pairing*: `CachedHalfCurrent`, `RightPinNotCharged`, `OneAttemptPerCall`,
`CallsReturn`, `OnlyEnableEnrols`, `EnrolmentHasCertificate`. The last two hold
while `cie_disable` does not run beside another call, also when a process is killed at any step
or a write fails, and as long as every entry decrypts. `StoredIsVouched`: the certificate is of the
chip whose key the header gave; of the SHA-512 generation, every group the SOD lists was read as
listed, under a signature by the key the SOD encloses; and if that key is an issuer's, which the
code does not check, files, certificate and list are of one document. `GenuineIsAccepted`: while the link holds, no genuine document is refused.
`NeverCorrupt`: one writer, killed anywhere, leaves the old cache file or a whole new one.

*Chip reading*: `ChannelInStep`, `OneTryPerCall`, `OutcomeTold` (a call that cost a
try says so, or reports the broken link that swallowed the answer, or, with the CAN, answers
CKR_GENERAL_ERROR for a verdict that came back damaged; codes and kinds
belong together as `cie_ext.h` describes, where INS_NOT_SUPPORTED comes with
CKR_DEVICE_ERROR for the reader's refusal and with CKR_GENERAL_ERROR for the chip's),
`Promise` (the refinement: both files or nothing, except that DG1 has been handed over when the
buffer for the photo proves too small), `CallReturns`.

*NFC*: `OneCardPerConnection` (the refinement), `ConnectHasItsATR`, `CancelEndsWait`.

*Verification*: `EntriesSound` (a chain bit has a chain of signatures to a compiled-in
root, a signature bit a signature by that certificate over what the verifier looked
at, whatever bucket the certificates fell into; that this is the whole document is not
claimed for a PDF whose `/ByteRange` leaves bytes out, for `adbe.pkcs7.sha1`, and for XML
with "#id" references only, because the code does not ask for it), `GoodAsOf` (a
good certificate was not revoked at the time of the answer the entry names, if that is an
OCSP status or a CRL in which the entries are found, and a CRL with a UTCTime `nextUpdate`
had not expired; it is not said to be good now, since an OCSP answer of any age counts), `ZeroMeansVerified` (a 0 has an entry for
every signer), `AnswerIsOfThisFile` (also after an early failure), `CallReturns`.

*Generation*: `ZeroMeansSigned` (a 0 for CAdES means that the library's own verifier
finds the signature good over the content; for a `p7m` input that content is the one
`SetPKCS7Data` made of it), `CheckedBeforeSigning` (validity, chain and an answer about the
status, worth what `GoodAsOf` says), `TokenIsFresh` (of the authority's tokens, this
request's).

## 5. Theorems

All proofs are checked by TLAPS with Z3, Zenon and LS4. They hold for every value
of the constants that satisfies the modules' assumptions, which TLC evaluates for the
values of the runs:

| Assumption | What it says beyond the kinds of the constants |
|---|---|
| `SlotSessionsAssumption` | nothing; slots and cards may be infinite |
| `OperationsAssumption` | mechanisms are among those of the switch statements; a card can answer |
| `PairingAssumption` | no card is in two readers; "no half" is not a half |
| `ConstantsAssumption` (`SlotMonitor`) | readers and waiters are finite |
| `ChipReaderAssumption` | files are not empty, chunks are at least one byte |
| `EnrolAssumption`, `IssuerAssumption` | every file has a chunk; what a key in `Issuers` signed with RSA-PSS lists the groups of *one* document, so that a list which matches groups of two documents matches both, and lists no file that no document has. Nothing is assumed of other keys |
| `CertAssumption`, `RevocationAssumption` | every name and key identifier of a certificate has a bucket; issuer name, key identifier and serial number identify a certificate to its issuer, and a certificate that names a compiled-in issuer which did not sign it is on nobody's list |
| `DocAssumption`, `ShapeAssumption` | only a CMS message has countersignatures, each after what it countersigns, and only it can be detached; what carries a time stamp token has one |
| `CardAssumption`, `LinuxAssumption` | an ATS has a format byte; a card has an ATS or historical bytes |

**SlotSessionsProofs.** `IInv == TypeOK /\ \A s \in Slots : SlotInv(s)`. None of the
properties is inductive alone: that a login has a session follows from the exact
count, because `DropSessions` logs out when the *count* reaches zero; the count
needs that every session's slot is initialised, because `Final` does nothing on
a slot that is not; and the handle properties need that handles stay below the
counter and objects below the number of creations. `SlotSane` collects what is true of
one slot record; for each function on slot records a lemma `...Sane` says that it
keeps `SlotSane`, and for each action a lemma `...Step` that it keeps `IInv`.
`Invariance` combines them; `TypeCorrect` and one theorem for each conjunct
(`SessionsLive`, `CountExact`, `LoginHasSession`, `LoginConsistent`, `SOReadWrite`,
`HandlesUnique`, `PrivateHandles`, `FoundHandles`) are its consequences, and
`SessionsAreSound`, `LoginIsSound` and `HandlesAreSound` put these together.
`HandlesMeanTheSame` is an action property from the same invariant: `Kept` says what
each step does to the handles, objects and card data of a slot, and for each action a
lemma `...Kept` shows it. A session's token is not replaced because `CSlot::Init` and
`CIEtemplateInitSession` do nothing on a slot that has a session, and `Final` takes
the sessions with it.

**OperationsProofs.** `OperationsKeepSessions` shows that each step of `Operations` is a
step of `SlotSessions` or leaves its variables alone, so that `IInv` and `Kept` carry
over. On top of them `OpsInv` says that a buffer holds what was given, and `KeysInv` that the key handle of a signing operation was given
out (so that no later object gets it), names only private objects, and after a
logout none of the token's. `SignaturesSound` needs all of these: a logout deletes
the handles of the token's private objects, and `HandlesNotReused` keeps them
deleted. `AnswersCover`, `OnlyAStalePinCosts` (with `PinInv`: unless
the PIN was changed since, the template keeps the PIN of the card of its login) and
`SignVerifyDigestFlagsHonest` have no further assumption;
`SignaturesAreSound` and `SignAndVerifyAgree` assume `~AnonymousSetPIN` and rest on
`DappInv`, that the DAPP key of a slot is of the card its objects are of. The
restriction is necessary: `CIEtemplateSetPIN` without a login reads the DAPP key of
whatever card is there, and a login then accepts that card.

**SlotMonitorProofs.** `MonitorIsSound` rests on `IInv`: one slot per reader
(`SlotsInv`), the monitor's arrays fit the slots it listed, and the number of slots that
it reads without the lock is never greater than what is there (`MonInv`), the place of
the application thread and that `Thread` is joinable as long as there is or was a monitor to
join (`AppInv`), and the two parts of the property. One slot per reader is what makes the
count of events work: the event of a reader is recorded on one slot, an event
recorded over another one must not need two wakeups, and the waiter that takes one
takes one wakeup. That the monitor never
sees an empty list needs that the sweep never erases the last slot while the thread
runs, in every order of plugging and `C_*` calls. `WaiterHasMonitor` assumes
`Undisturbed` (a reader is plugged, none is unplugged, the service stays, nobody forks),
which is what the run `monitor_live` has; without it section 6 tells how a waiter
is left alone. Its invariant `LiveInv` says which flags are set at which place of
`C_Initialize` and `C_Finalize`, and that every reader the monitor watches is there.

**ChipReaderProofs.** `ChipInv` says where the thread can be with which secret
(`PlaceInv`); which keys chip and thread have at each place of the script, and that the counters
of a shared channel agree before each command (`KeyInv`); that the
exchange which costs a try is the last of its call (`ChargeInv`); and what the caller will
be told (`ToldInv`, `OutcomeTold`). For each command of the scripts a lemma
says what it does to the chip by the answer that comes back, since the counter of the channel is set
in four places (PACE, DH, DAPP, rollback after a broken link). `AtMostOneTry`,
`ChannelStaysInStep` and `OutcomeIsTold` follow.

`PromiseIsKept` is the refinement of `DocumentRead`, for every step of the thread and
every fault. It adds `DataInv`: what was read so far is the
beginning of the current file of the card in use, DG1 is complete once DG2 is begun,
and the caller has been given nothing before the end. That a delivery is of a card that knows the secret
follows from `KeyInv`: protected data only come over a channel whose key the chip shares,
which needs the right CAN, or after a VERIFY of the right PIN. It assumes
`SmallFiles`: a file that is read with the PIN ends below `SfiBit`. The restriction is necessary: READ
BINARY takes the bit 0x8000 of an offset for a short file identifier, and only
`cie_read_dgs_can` changes to the other instruction there. The run has files of 5
bytes and `SfiBit = 8`.

**EnrolDataProofs.** `StoredIsVouchedFor` rests on `VouchInv`: once everything
is read the buffers do not change, from Internal Authenticate on the chip is the one whose key the
buffer holds, and what is stored was accepted by the SOD check. The *source* of a buffer is the card whose file
it begins with, whatever repeated attempts appended. The rest is what
the two SOD predicates imply. For a key in `Issuers` it uses `IssuerAssumption`: the digests of files of
different cards can only all match one signed list when they are equal.
`GenuineIsNeverRefused` rests on `CleanInv`: while no link broke, every
buffer holds exactly the chunks of the card that were read so far.
`CacheNeverCorrupt` is about the instance of `CacheFile` with one writer: rename is
reached only after the last block, and nothing is written after it.

**NfcTransportProofs.** `TransportIsImplemented` maps each step of either backend to a
step of `CardTransport`: the field moves, the connection opens to the field or ends, or is
used while it is to the field (`Moves`, `Opens`, `Uses`). `ConnectionHasItsATR` rests on
`AtrInv`: a datagram in the netlink queue that names a target names one that was shown, and
the event of a lost target one that is not in the field (`SoundMsgs`); a target record without the ATS of
its card has left the field (`SoundTarget`), in whatever order replies and
events are read; and the cached ATR is that of the record.

**PairingProofs.** `TypeCorrect` rests on `TypeInv == TypeOK /\ Records`, where `Records` says
which calls reach which step with which locals. `OneAttempt` adds
`Ownership` (a call at a step that talks to a card has its transaction, and nobody else
does) and `SparedFree`: a card that the call has not yet asked for its PIN has cost it
nothing; the readers are visited once each, and a VERIFY whose link broke is not
repeated. These two hold for every call and every fault.

`CachedHalf` and `RightPin` assume `CacheKept`: only links fail or entries do not decrypt,
and the application
does not use `C_SetPIN` or `C_InitPIN`. Both restrictions are necessary: section 6 says
what these two calls do, and a process that dies (or an answer
that is lost, or a write that fails) between `ChangePIN` and `SetCache` leaves the old half. The
invariant `CacheIInv` says that what a call learnt about PIN and enrolment stays true
while it holds the card (`Sound`), and that the cached half is the card's unless the
owner is between `ChangePIN` and `SetCache` (`HalfOK`).

`EnrolmentsHaveCertificates` and `OnlyEnableEnrolsCards` hold for any number of
callers and every fault except entries that do not decrypt (`EntriesDecrypt`), as long as
`cie_disable` does not run beside another call (`DisableAlone`); both are necessary
(section 6). `EnrolIInv` adds `Noted` to the types: between looking
for the enrolment and writing it again, a call that saw an entry still has one to
write over, and the certificate it fetched is the stored one; the transaction on the card does not
help here, since `cie_disable` takes none.

**SignVerifyProofs.** `Inv` says what holds of the entry that is being made. `ChainPart`:
the certificate where the walk stands is reached from the signer's by links over compiled-in
certificates (`Reaches`), and the CA that the thread holds is the one that the store has for it.
`StatusPart`: as soon as the status is good, in the bits, in the REVOCATION_INFO or in the
local variable of the loop over distribution points, the update time noted is one
at which the certificate was not revoked, unless the answer is of a kind that shows
nothing (`Fine`). `Queue`: the jobs before the current one have
their entries, and every signer that is counted has a job (`Ready`).
Three lemmas carry the weight. `ReachTrusted`: a chain to an anchor that is as short as possible visits no
certificate twice, so it is no longer than the list that `Trusted` bounds it by. `OcspGood` and
`CrlGood`: what the checks of an answer let through is true, with `RevocationAssumption`; it is
necessary, since serial numbers are all that a CRL is searched for. `CmsReady`, `PdfReady`, `XmlReady`:
which jobs a document has. These lists, and the store, are folds of the library
(`FlattenSeq`, `FoldLeft`), so the proofs need induction over data: `LeastNumber` derives from the
well-foundedness of inclusion among finite sets that a set of numbers has a least member, and
`Induction` from it. The invariant speaks of the job only while nothing undefined happened
(`ub`); that entries are sound holds also then.

*Only model-checked.* Liveness (`FinalizeReturns`, `FinalizeWakes`, `EventDelivered`,
`CallsReturn`, `CallReturns`, `CancelEndsWait`) is out of reach of the prover used.
`ZeroMeansSigned`, `CheckedBeforeSigning` and `TokenIsFresh` of `SignSdk` are not proved
yet.

## 6. Where code and documentation part

Shown by a run, with the quotation in `PROJECT.json`:

- `enrol_retry`: the comment at `cie_enable.cpp:374` calls the public reads "safe to retry on a
  link drop". `IAS::readfile` appends to what the failed attempt left: once the SOD
  was begun, every repetition is refused, with the right card and the right PIN. With
  a public key file of several chunks the same holds for the header block.

Stated in the modules as properties, and refuted with these constants; no run is
kept for them:

- `GenuineTokenRecognised` (`SlotSessions`; one reader, two CIEs): `C_GetTokenInfo`
  without a session caches `pTemplate` outside `bUpdated`; removal clears the ATR and
  keeps the template, and the re-inserted card is "not recognised".
- `FinalizeReturns` (`SlotMonitor`; `MaxForks = 1`): the fork handler says the child may
  call `C_Initialize` again; it leaves `Thread` joinable, so no monitor starts and
  `C_Finalize` joins nothing for ever.
- `SweepReturns` (`SlotMonitor`; two readers, `CanUnplug`): the sweep over vanished
  readers finalises a slot without erasing it, steps back and visits it again,
  holding `p11Mutex`.
- `AddedReaderWatched` (`SlotMonitor`; `CanPlug`): `bMonitorUpdate` is reset after the
  snapshot, unlocked; an update in between is lost.
- `RightPinNotCharged` and `CachedHalfCurrent` (`Pairing`; `C_SetPIN` or `C_InitPIN` in
  `Ops`): neither call updates the cached half.
- `EnrolmentHasCertificate` (`Pairing`; `"data"` in `Faults`): for an entry that does not
  decrypt `IAS::GetCertificate` returns an empty certificate (`ias.cpp:1245`), which
  `cie_change_pin` stores.
- `CachedHalfCurrent` (`Pairing`; `"disk"` in `Faults`): `SetCache` throws after the card has
  taken the new PIN.
- `OnlyEnableEnrols` (`Pairing`; two callers): `cie_change_pin` reads `isEnrolled` before
  and writes after `ChangePIN`; a `cie_disable` in between is undone.
- `NeverCorrupt` (`CacheFile`; two writers): the comment at `cache_lib.cpp:94` promises it
  for "two concurrent writers", who share the temporary name; one can rename what the other is
  still writing.
- `OkMeansSigned` (`SignSdk`): `cie_sign` of a file that is not there returns CKR_OK.
- `SignValidIsSigned` (`SignVerify`): a PDF signature with an unknown `/SubFilter` stores
  the error −5 where the bits go, and `isSignValid` reads it as valid.

The models contain these further behaviours, met while translating.

*Slots, sessions, monitor.* `CSlot::Final` clears `P11Objects` and leaves the handle
maps, although `slot.h:9` says the object map is cleared on removal: old handles
still resolve. A card exchanged between two polls shows the same PRESENT bit, so that
its sessions stay open (`slot.h:9` says a removal closes them). `C_Finalize` may read
`ThreadContext`, an object on the monitor's stack, just after the monitor left. `slotMonitor`
sizes its arrays by a `size()` read without the lock and fills them over the whole map
under it (`slot.cpp:95`): a slot that `C_UpdateSlotList` adds in between is written past
their end. The model has of this the write that goes unnoticed, after which only the slots
counted are watched, and the end of the process, which is a stop; harm to other memory is
outside it. `monitor_live` has no hot plugging, where this cannot happen. With
the last reader unplugged the monitor returns and a thread in `C_WaitForSlotEvent` has
nobody to wake it. `cie_reader_watch` counts readers named "Virtual" and
`cie_reader_count` does not: a caller that passes one's result to the other is answered at once.

*Operations.* `C_SetPIN` works without a login (constant `AnonymousSetPIN`). After `C_SetPIN` the
`SessionPIN` is stale and each signature costs a try. `C_Sign` with a
small buffer answers CKR_GENERAL_ERROR after the card has signed; `C_Sign` with a
null buffer leaves its data buffered, which the next `C_Sign` resets. `C_GetOperationState`
stores a user type that `C_SetOperationState` never accepts. `C_DigestFinal` may
end an operation without delivering. `CKM_RSA_PKCS` advertises encryption, decryption and recovery that are not
supported. Mechanism and session own each other and are never freed.

*Pairing.* `cie_change_pin` killed between `ChangePIN` and `SetCache` leaves a stale half.
`cie_enable` does not use its PAN argument, and stops at the first enrolled card; it
writes under the lower case name, `IAS::IsEnrolled` reads the upper case one.
`cie_get_certificate` can write a `.der` file after `cie_disable` removed it: the card is
then enabled and cannot be disabled. `cie_disable` between `IsEnrolled` and
`GetCertificate` of `cie_change_pin` makes it store an empty certificate. A card exchanged
between two attempts of the header block gives an entry of the second card under the PAN
of the first, since no SOD lists the PAN. `VerificaSOD` only logs a digest that
differs and an issuer that does; the certificate in an SOD is chained to no CA; a group that
was read and is not listed is not asked for.

*Chip reading.* After a `6Cxx` the IAS channel sends again with a counter that is out
of step. A chip without EF.CardAccess is told to be lifted
(CARD_RESET_REQUIRED). A wrong PIN records no kind of error, a wrong CAN does. The
16-bit read counter wraps at 65532 bytes. With the PIN, a file of more than 0x8000 bytes is
read from the wrong offset. The output buffers can be freed twice after some
failures (`cie_read_chip.cpp:409`, `:843`, `:872`). A wrong CAN that was counted and whose
answer arrives damaged is answered CKR_GENERAL_ERROR. When the photo does not fit, DG1 has
already been copied to the caller.

*NFC.* The end of a dump stays in the queue and is misread later, contrary to the
comment at `linux_nfc_transport.cpp:302`. A lost target's event is read as a present
target. `GetStatusChange` without a timeout holds `mutex_` for its whole wait, never
reports a removal, and spins while a card is there. A `Cancel` before the wait is taken back by an
`EstablishContext` of another thread. `hasTarget_` survives a failed `Connect`,
`polling_` is never reset. On Android `Reconnect` does nothing and a transport keeps
the tag of its construction. A type B card has another ATR under each backend.

*Signature generation.* `cie_sign_sign_cleanup` may free a signer that was never set; signing
without IAS uses a null pointer, and taking IAS away keeps the old generator; a TSA user
without a URL has no client. A default output name sticks. Without CAdES the
signature is over SHA-1 and declares SHA-256. PDF errors are only logged. XAdES output has no
SignatureValue, no certificate and no certificate digest. Adding a signature to a `p7m` replaces the content; one
that does not parse becomes an empty detached signature. A short write is not noticed.
Every −1 becomes CKR_PIN_INCORRECT. Type `"PDF"`, as `docs/api.md:191` writes it, gives a CMS
file. `CIESign::sign` passes the page as an `int*` that is read as a `long*`
(`cie_sign_api.cpp:407`); `nPdfPage` keeps an `int` of it, so that it is the caller's page on a
little-endian host and any page elsewhere, and the model takes any. Checking the certificate
needs a store that only `cie_sign_verify_init` fills.

*Verification.* `cie_extract_p7m` never extracts, and a signature inside a signature is never
found. The imprint of a time stamp is not compared. The `thisUpdate` of an OCSP answer is
not checked, a `certStatus` that does not exist is good, and the last distribution point
wins. A CRL whose `nextUpdate` is a GeneralizedTime never expires (`crl.cpp:137`); in one of
version 1 or without `nextUpdate` a revoked certificate is not found and counts as good
(`crl.cpp:28`). VERIFIED_SIGNATURE is set for a PDF of which the `/ByteRange` covers
only a part (`pdf_verifier.cpp:218`), for `adbe.pkcs7.sha1` without a look at the PDF, and
for an XML file of which only a fragment is signed (`xades_verifier.cpp:245`).
The bits and the revocation info can disagree; `isCertValid` ignores the chain.
`cie_verify` swallows errors. `cie_sign_cleanup` leaves pointers to deleted certificates in the store, and cleaning a
result frees a time stamp record that may not have been written. Two XAdES signatures
overrun the result, one without a certificate is undefined. An `m7m` whose token
comes first has none; a countersignature shows its parent's token; a `tsd` answers 0 with
entries that were not written. VERIFIED_CERT_SHA256 is never set.

## 7. Not modelled

- ASN.1 classes and parsers, TLV, the encoding of APDUs, the layout of PDF and XML: data
  transformations without state; TLC cannot enumerate encodings long enough to
  matter. Lengths of four bytes (files of 64 kB and more) in `cie_read_chip` are among them.
- Cryptography and big numbers (the latter vendored): out of TLC's reach; keys, digests and
  cryptograms are symbolic.
- Calls that change nothing: `C_GetInfo`, `C_GetSlotInfo`, `C_GetAttributeValue`,
  `C_GetObjectSize`, `cie_reader_count`, `cie_reader_watch`, `cie_reader_name`; the table of
  error texts.
- `C_Encrypt`, `C_Decrypt` and the recovering calls, which no key of a CIE permits;
  the countersignature generators, which nothing calls; `readerMonitor`
  (`pcsc.cpp`), which only tests use.
- In `Pairing`, the reconnection and repetition of a command on SCARD_W_RESET_CARD
  (`cie_enable.cpp:780`): while the transaction is held nobody else resets the card, PC/SC reports the
  reset before it transmits, so that a VERIFY has not reached the card, and a protected
  command that is sent again after a reset is refused.
- Logging, settings, formatting.

## 8. Plan

1. Proofs for `SignSdk`: `TokenIsFresh` needs that a nonce is used once;
   `CheckedBeforeSigning` the chain lemmas of `SignVerifyProofs`, for the walk that
   `CCertificate::verify` makes by itself; `ZeroMeansSigned` the state of the
   generator at each place.
2. `cie_reader_watch` against the NFC transports, which would compose the reader queries
   with `NfcTransport`.
