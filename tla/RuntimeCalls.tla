------------------------------ MODULE RuntimeCalls ------------------------------
(***************************************************************************)
(* The calls of rt/runtime.c that work with something they must give back:  *)
(* files, pipes, buffers, TLS and crypto objects.  A call is the sequence   *)
(* of its acquisitions, releases and tests; after each that can fail comes  *)
(* what the code releases before it returns.  What is given to the caller   *)
(* is the caller's until another call, or bux_free, takes it.               *)
(*                                                                         *)
(* An operator marked (slip) is a call with a plausible programming mistake *)
(* in it, used by nothing here.                                            *)
(***************************************************************************)
EXTENDS Integers, Sequences, SequencesExt

VARIABLES
    call,     \* the name of the call in progress, or "none"
    step,     \* its next step
    held,     \* what it has acquired and not released
    owned,    \* what callers have
    lost      \* <<call, resource>>: neither released nor given to anyone

call_vars == <<call, step, held, owned, lost>>

------------------------------------------------------------------------------
\* Steps.  Get cannot fail, or its result is not looked at; Try and Test return
\* after releasing what stands in undo; Take ends the caller's hold of a handle.
Step(do, what, undo) == [do |-> do, what |-> what, undo |-> undo, instead |-> {}]
Get(r) == Step("get", r, {})
Try(r, undo) == Step("try", r, undo)
Test(undo) == Step("test", "none", undo)
Put(r) == Step("put", r, {})
Give(r) == Step("give", r, {})
Use(r) == Step("use", r, {})
Take(r) == Step("take", r, {})

\* Files.  NULL arguments return before the first step.
FileCalls == [
    read_file |-> <<Try("file", {}), Try("text", {"file"}), Put("file"), Give("text")>>,
    write_file |-> <<Try("file", {}), Put("file")>>,
    file_exists |-> <<Try("file", {}), Put("file")>>]

\* In the small runtimes a length that is not known is an error.
MinimalFileCalls == [
    minimal_read_file |->
        <<Try("file", {}), Test({"file"}), Get("text"), Put("file"), Give("text")>>,
    minimal_write_file |-> <<Try("file", {}), Put("file")>>,
    minimal_file_exists |-> <<Try("file", {}), Put("file")>>]

WinFileCalls == [
    win_read_file |-> MinimalFileCalls.minimal_read_file,
    win_write_file |-> MinimalFileCalls.minimal_write_file,
    win_file_exists |-> MinimalFileCalls.minimal_file_exists]

\* (slip) The pipe stays open when the buffer cannot grow.
ProcessOutputLeavesPipe ==
    <<Try("pipe", {}), Try("text", {"pipe"}), Test({"text"}), Put("pipe"), Give("text")>>

\* The buffer grows once or more, or not at all.
ProcessOutput ==
    <<Try("pipe", {}), Try("text", {"pipe"}), Test({"text", "pipe"}), Put("pipe"), Give("text")>>

\* Sockets.  A receive of nothing returns the constant "".
SocketCalls == [
    socket_create |-> <<Try("fd", {}), Give("fd")>>,
    socket_bind |-> <<Use("fd"), Test({})>>,
    socket_accept |-> <<Use("fd"), Try("conn", {}), Give("conn")>>,
    socket_connect |-> <<Use("fd"), Test({})>>,
    socket_send |-> <<Use("fd")>>,
    socket_recv |-> <<Use("fd"), Get("text"), Test({}), Give("text")>>,
    socket_close |-> <<Take("fd"), Put("fd")>>,
    socket_close_conn |-> <<Take("conn"), Put("conn")>>]

\* TLS: the certificate, the key, whether they match, and the clients' CA.
TlsContext == [
    tls_server_ctx_ex |->
        <<Try("ctx", {}), Test({"ctx"}), Test({"ctx"}), Test({"ctx"}), Test({"ctx"}), Give("ctx")>>,
    tls_ctx_free |-> <<Take("ctx"), Put("ctx")>>]

TlsConnection == [
    tls_accept |-> <<Use("ctx"), Use("conn"), Try("ssl", {}), Test({"ssl"}), Give("ssl")>>,
    tls_send |-> <<Use("ssl")>>,
    tls_recv |-> <<Use("ssl"), Get("text"), Test({}), Give("text")>>,
    tls_close |-> <<Use("ssl"), Take("ssl"), Put("ssl")>>]

\* Digests, AES, keys and signatures.  The contexts' creation is not looked at.
Digest == <<Get("md"), Put("md")>>
Digests == [sha256 |-> Digest, digest |-> Digest]

Ciphers == [
    aes_cbc |-> <<Get("text"), Get("cipher"), Put("cipher"), Give("text")>>,
    aes_gcm_encrypt |-> <<Get("cipher"), Get("text"), Put("cipher"), Give("text")>>,
    aes_gcm_decrypt |-> <<Get("cipher"), Get("text"), Put("cipher"), Give("text")>>]

\* Without a key a verifier returns 0, and a signer a new text: the empty one.
LoadKey(otherwise) ==
    LET load == <<Try("bio", {}), Try("pkey", {"bio"}), Put("bio")>>
    IN  [i \in 1..3 |-> [load[i] EXCEPT !.instead = otherwise]]

Sign == LoadKey({"text"}) \o <<Get("md"), Get("text"), Put("md"), Put("pkey"), Give("text")>>
Verify == LoadKey({}) \o <<Get("md"), Put("md"), Put("pkey")>>

RsaCalls == [rsa_sign |-> Sign, rsa_verify |-> Verify]
EcdsaCalls == [ecdsa_sign |-> Sign, ecdsa_verify |-> Verify]

Ed25519Calls == [
    ed25519_keypair |->
        <<Try("pctx", {}), Test({"pctx"}), Try("pkey", {"pctx"}), Put("pctx"), Put("pkey")>>,
    ed25519_sign |-> <<Try("pkey", {}), Get("md"), Put("md"), Put("pkey")>>,
    ed25519_verify |-> <<Try("pkey", {}), Get("md"), Put("md"), Put("pkey")>>]

\* Mutex and rwlock objects, and the texts callers are done with.
LockObjects == [
    mutex_new |-> <<Try("mutex", {}), Give("mutex")>>,
    mutex_free |-> <<Take("mutex"), Put("mutex")>>,
    rwlock_new |-> <<Try("rwlock", {}), Give("rwlock")>>,
    rwlock_free |-> <<Take("rwlock"), Put("rwlock")>>,
    bux_free |-> <<Take("text"), Put("text")>>]

Tables ==
    {FileCalls, MinimalFileCalls, WinFileCalls, [process_output |-> ProcessOutput], SocketCalls,
     TlsContext, TlsConnection, Digests, Ciphers, RsaCalls, EcdsaCalls, Ed25519Calls, LockObjects}

Calls == [c \in UNION {DOMAIN t : t \in Tables} |-> (CHOOSE t \in Tables : c \in DOMAIN t)[c]]

------------------------------------------------------------------------------
CallInit ==
    /\ call = "none" /\ step = 1
    /\ held = {} /\ owned = {} /\ lost = {}

This == Calls[call][step]

Named(c, do) == {Calls[c][i].what : i \in {j \in 1..Len(Calls[c]) : Calls[c][j].do = do}}

\* Callers pass handles they have, and (a bound) want one of each kind.
Begin(c) ==
    /\ call = "none"
    /\ Named(c, "use") \cup Named(c, "take") \subseteq owned
    /\ Named(c, "give") \cap owned = {}
    /\ call' = c /\ step' = 1
    /\ UNCHANGED <<held, owned, lost>>

Proceed ==
    /\ call # "none" /\ step <= Len(Calls[call])
    /\ step' = step + 1
    /\ held' = CASE This.do \in {"get", "try", "take"} -> held \cup {This.what}
                 [] This.do \in {"put", "give"} -> held \ {This.what}
                 [] OTHER -> held
    /\ owned' = CASE This.do = "take" -> owned \ {This.what}
                  [] This.do = "give" -> owned \cup {This.what}
                  [] OTHER -> owned
    /\ UNCHANGED <<call, lost>>

Return(left, given) ==
    /\ call' = "none" /\ step' = 1
    /\ held' = {}
    /\ owned' = owned \cup given
    /\ lost' = lost \cup {<<call, r>> : r \in left}

Fail ==
    /\ call # "none" /\ step <= Len(Calls[call])
    /\ This.do \in {"try", "test"}
    /\ Return(held \ This.undo, This.instead)

Finish ==
    /\ call # "none" /\ step > Len(Calls[call])
    /\ Return(held, {})

CallNext == (\E c \in DOMAIN Calls : Begin(c)) \/ Proceed \/ Fail \/ Finish

------------------------------------------------------------------------------
\* The two receives drop the buffer they have allocated when nothing comes.
KnownLosses == {<<"socket_recv", "text">>, <<"tls_recv", "text">>}

\* Whatever fails, and in whatever order callers make the calls: nothing is
\* released that is not held, nothing is acquired over something held, and every
\* way out has released or handed over everything, but for the two receives.
ResourcesSettled ==
    /\ lost \subseteq KnownLosses
    /\ held \cap owned = {}
    /\ call # "none" /\ step <= Len(Calls[call]) =>
          /\ This.do \in {"put", "give"} => This.what \in held
          /\ This.do \in {"get", "try"} => This.what \notin held \cup owned
          /\ This.undo \subseteq held
==============================================================================
