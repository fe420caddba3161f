------------------------------- MODULE Egress -------------------------------
(***************************************************************************)
(* The http.request capability (src/caps/http_request.rs) behind its       *)
(* egress guard (src/net_guard.rs): a name is resolved, its addresses are  *)
(* checked and pinned, and only then connected to, while DNS may change    *)
(* its answer at any time and a server may redirect anywhere.              *)
(*                                                                         *)
(* A host is a sequence of labels, or a literal IPv4 or IPv6 address.      *)
(***************************************************************************)
EXTENDS SequencesExt

CONSTANTS
  Names,      \* hosts that are names
  Addresses,  \* what names resolve to, and the literal hosts
  Allowlists, \* possible values of allowed_egress_hosts
  Answers,    \* sets of addresses DNS may answer with
  MaxHops     \* redirects that are followed without the guard

Octets == 0..255
Segments == {n \in Nat : n < 65536}

(* An address has a kind, "v4", "v6" or "mapped" (IPv4 in IPv6), the four  *)
(* octets of an IPv4 address and, of an IPv6 address, its first two        *)
(* segments and the other six: 0, 1, or 2 for any other value.             *)
IsAddress(a) ==
  /\ a.kind \in {"v4", "v6", "mapped"}
  /\ a.octets \in [1..4 -> Octets]
  /\ a.seg0 \in Segments /\ a.seg1 \in Segments
  /\ a.rest \in {0, 1, 2}

(* A pattern is "any", that is *, or a host, to be matched exactly or as a *)
(* suffix.                                                                 *)
ASSUME EgressAssumption ==
  /\ \A a \in Addresses : IsAddress(a)
  /\ \A l \in Allowlists : \A p \in l : p.match \in {"any", "exact", "suffix"}
  /\ Answers \subseteq SUBSET Addresses /\ MaxHops \in Nat

(* A literal is written as its numbers; a name has no address yet. *)
Written(a) ==
  CASE a.kind = "v4" -> a.octets
    [] a.kind = "v6" -> <<a.seg0, a.seg1, a.rest>>
    [] a.kind = "mapped" -> <<0, 0>> \o a.octets

Hosts ==
  {[name |-> Written(a), addrs |-> {a}] : a \in Addresses}
  \cup {[name |-> n, addrs |-> {}] : n \in Names}
IsLiteral(h) == h.addrs # {}
IsBracketed(h) == \E a \in h.addrs : a.kind # "v4"

VARIABLES
  allowlist,  \* of the configuration
  url,        \* the host asked for
  pc,         \* where the handler stands: "build", "check", "connect",
              \* "connected", "reading", or its end: "done", "invalid",
              \* "blocked", "error", "cut"
  host,       \* the host to connect to next
  pinned,     \* addresses of url's host that were checked and are pinned
  isPinned,
  hops,       \* redirects followed
  checked,    \* history: the answer the guard looked at
  reached,    \* <<host, address>> of the last connection, or nothing
  exit,       \* exit code of the result: "none", "zero", or "status"
  failed      \* history: the network failed, or was too slow, after the send

vars == <<allowlist, url, pc, host, pinned, isPinned, hops, checked, reached,
          exit, failed>>
input == <<allowlist, url>>
outcome == <<exit, failed>>

-----------------------------------------------------------------------------
(* net_guard.rs: the classification of addresses *)

(* Mutant: the mask of the carrier-grade range is 0x80. *)
IsBlockedV4Wide(o) ==
  \/ o[1] = 10 \/ (o[1] = 172 /\ o[2] \in 16..31) \/ (o[1] = 192 /\ o[2] = 168)
  \/ o[1] = 127 \/ (o[1] = 169 /\ o[2] = 254) \/ o = <<255, 255, 255, 255>>
  \/ <<o[1], o[2], o[3]>> \in {<<192, 0, 2>>, <<198, 51, 100>>, <<203, 0, 113>>}
  \/ o[1] \in 224..239
  \/ o[1] = 0
  \/ (o[1] = 100 /\ o[2] - (o[2] % 128) = 0)
  \/ (o[1] = 192 /\ o[2] = 0 /\ o[3] = 0)
  \/ (o[1] = 198 /\ o[2] - (o[2] % 2) = 18)

(* The predicates of std::net::Ipv4Addr, then the masks of the code:       *)
(* x & 0xc0 is x - x % 64, x & 0xfe is x - x % 2.                          *)
IsBlockedV4(o) ==
  \/ o[1] = 10 \/ (o[1] = 172 /\ o[2] \in 16..31) \/ (o[1] = 192 /\ o[2] = 168)
  \/ o[1] = 127 \/ (o[1] = 169 /\ o[2] = 254) \/ o = <<255, 255, 255, 255>>
  \/ <<o[1], o[2], o[3]>> \in {<<192, 0, 2>>, <<198, 51, 100>>, <<203, 0, 113>>}
  \/ o[1] \in 224..239
  \/ o[1] = 0
  \/ (o[1] = 100 /\ o[2] - (o[2] % 64) = 64)
  \/ (o[1] = 192 /\ o[2] = 0 /\ o[3] = 0)
  \/ (o[1] = 198 /\ o[2] - (o[2] % 2) = 18)

(* Loopback, unspecified and multicast; s & 0xfe00 is s - s % 512, and     *)
(* s & 0xffc0 is s - s % 64.                                               *)
IsBlockedV6(s, t, rest) ==
  \/ s = 0 /\ t = 0 /\ rest \in {0, 1}
  \/ s \div 256 = 255
  \/ s - (s % 512) = 64512
  \/ s - (s % 64) = 65152

IsBlockedIp(a) ==
  IF a.kind = "v6" THEN IsBlockedV6(a.seg0, a.seg1, a.rest) ELSE IsBlockedV4(a.octets)

-----------------------------------------------------------------------------
(* The guard *)

(* What a lookup may return: every name may resolve to anything, at any    *)
(* time anew.  An answer without addresses stands for a failure as well.   *)
Lookup(h) == IF IsLiteral(h) THEN {h.addrs} ELSE Answers

(* The guard is given what Url::host_str returns, an IPv6 literal in its   *)
(* brackets: they neither parse as an address nor resolve.                 *)
GuardLookup(h) == IF IsBracketed(h) THEN {{}} ELSE Lookup(h)

Enforcing == \A p \in allowlist : p.match # "any"

HostAllowed(h) ==
  \E p \in allowlist :
    \/ p.match = "any"
    \/ p.match = "exact" /\ h.name = p.name
    \/ p.match = "suffix" /\ IsSuffix(p.name, h.name)

Init ==
  /\ allowlist \in Allowlists
  /\ url \in Hosts
  /\ pc = "build"
  /\ host = url
  /\ pinned = {} /\ isPinned = FALSE
  /\ hops = 0
  /\ checked = {} /\ reached = {}
  /\ exit = "none" /\ failed = FALSE

(* Nothing is resolved before url, method and headers have been parsed.    *)
BuildRequest ==
  /\ pc = "build"
  /\ pc' = "check"
  /\ UNCHANGED <<input, host, pinned, isPinned, hops, checked, reached, outcome>>

(* No url, or one that does not parse; no method token; headers that the   *)
(* protocol forbids; under the guard, no host or no port in the url.       *)
InvalidPayload ==
  /\ pc = "build" \/ (pc = "check" /\ Enforcing)
  /\ pc' = "invalid"
  /\ UNCHANGED <<input, host, pinned, isPinned, hops, checked, reached, outcome>>

(* Mutant: the addresses are checked but not pinned. *)
ResolveOnly ==
  /\ pc = "check" /\ Enforcing /\ ~HostAllowed(host)
  /\ \E addrs \in GuardLookup(host) :
         /\ checked' = addrs
         /\ IF addrs # {} /\ \A a \in addrs : ~IsBlockedIp(a)
              THEN pc' = "connect"
              ELSE pc' = "blocked"
  /\ UNCHANGED <<input, host, pinned, isPinned, hops, reached, outcome>>

(* resolve_checked: a literal is checked as it is; of a name, every        *)
(* address it resolves to at this moment.  What passes is pinned; what     *)
(* does not resolve is refused with the same error as what is blocked.     *)
ResolveChecked ==
  /\ pc = "check" /\ Enforcing /\ ~HostAllowed(host)
  /\ \E addrs \in GuardLookup(host) :
         /\ checked' = addrs
         /\ IF addrs # {} /\ \A a \in addrs : ~IsBlockedIp(a)
              THEN pc' = "connect" /\ pinned' = addrs /\ isPinned' = TRUE
              ELSE pc' = "blocked" /\ UNCHANGED <<pinned, isPinned>>
  /\ UNCHANGED <<input, host, hops, reached, outcome>>

(* Disabled by "*", or the host is exempt: nothing is resolved or pinned.  *)
SkipCheck ==
  /\ pc = "check" /\ (~Enforcing \/ HostAllowed(host))
  /\ pc' = "connect"
  /\ UNCHANGED <<input, host, pinned, isPinned, hops, checked, reached, outcome>>

-----------------------------------------------------------------------------
(* The request *)

(* The connector tries the override of the host it was pinned for, or what *)
(* a lookup says now.                                                      *)
Connect ==
  /\ pc = "connect"
  /\ \E addrs \in IF isPinned /\ host = url THEN {pinned} ELSE Lookup(host) :
       \E a \in addrs : reached' = {<<host, a>>}
  /\ pc' = "connected"
  /\ UNCHANGED <<input, host, pinned, isPinned, hops, checked, outcome>>

(* No address, no connection, or the payload's timeout before the headers  *)
(* of the response: send() fails, and with it the handler.                 *)
RequestFails ==
  /\ pc \in {"connect", "connected"}
  /\ pc' = "error"
  /\ failed' = TRUE
  /\ UNCHANGED <<input, host, pinned, isPinned, hops, checked, reached, exit>>

(* The headers of a response.  A 2xx or a 3xx (under the guard a redirect  *)
(* is an answer like any other) will be exit code 0, else it is the status. *)
Respond ==
  /\ pc = "connected"
  /\ pc' = "reading"
  /\ exit' \in {"zero", "status"}
  /\ UNCHANGED <<input, host, pinned, isPinned, hops, checked, reached, failed>>

(* text().await.unwrap_or_default(): the result is made of the body, or of *)
(* nothing when the connection breaks or the timeout strikes meanwhile.    *)
ReadBody ==
  /\ pc = "reading"
  /\ pc' = "done"
  /\ failed' \in BOOLEAN
  /\ UNCHANGED <<input, host, pinned, isPinned, hops, checked, reached, exit>>

(* The worker's hard timeout drops the handler; it alone bounds the lookup *)
(* of the guard, which comes before the timer of the request.              *)
HardTimeoutElapses ==
  /\ pc \in {"check", "connect", "connected", "reading"}
  /\ pc' = "cut"
  /\ UNCHANGED <<input, host, pinned, isPinned, hops, checked, reached, outcome>>

(* Mutant: redirects are followed whether or not the guard is on. *)
FollowAlways(h) ==
  /\ pc = "connected" /\ hops < MaxHops
  /\ host' = h /\ hops' = hops + 1
  /\ pc' = "connect"
  /\ UNCHANGED <<input, pinned, isPinned, checked, reached, outcome>>

(* Mutant: redirects without end. *)
FollowEndless(h) ==
  /\ pc = "connected" /\ hops <= MaxHops
  /\ ~Enforcing
  /\ host' = h /\ hops' = hops + 1
  /\ pc' = "connect"
  /\ UNCHANGED <<input, pinned, isPinned, checked, reached, outcome>>

(* redirect::Policy::none() is set with the guard, the default without.    *)
FollowRedirect(h) ==
  /\ pc = "connected" /\ hops < MaxHops
  /\ ~Enforcing
  /\ host' = h /\ hops' = hops + 1
  /\ pc' = "connect"
  /\ UNCHANGED <<input, pinned, isPinned, checked, reached, outcome>>

Next ==
  \/ BuildRequest \/ InvalidPayload \/ ResolveChecked \/ SkipCheck
  \/ Connect \/ RequestFails \/ Respond \/ ReadBody \/ HardTimeoutElapses
  \/ \E h \in Hosts : FollowRedirect(h)

Spec == Init /\ [][Next]_vars

-----------------------------------------------------------------------------
(* What "global" means, from the address registries and not from the code. *)
(* IPv4: the special-purpose and multicast ranges as blocks <<first        *)
(* address, size>> over the first 24 bits: /8 is a size of 65536.          *)
Blocks4 ==
  {<<<<0, 0, 0>>, 65536>>, <<<<10, 0, 0>>, 65536>>, <<<<100, 64, 0>>, 16384>>,
   <<<<127, 0, 0>>, 65536>>, <<<<169, 254, 0>>, 256>>, <<<<172, 16, 0>>, 4096>>,
   <<<<192, 0, 0>>, 1>>, <<<<192, 0, 2>>, 1>>, <<<<192, 168, 0>>, 256>>,
   <<<<198, 18, 0>>, 512>>, <<<<198, 51, 100>>, 1>>, <<<<203, 0, 113>>, 1>>,
   <<<<224, 0, 0>>, 1048576>>, <<<<240, 0, 0>>, 1048576>>}

First24(o) == (o[1] * 256 + o[2]) * 256 + o[3]
Within(n, first, size) == first <= n /\ n < first + size

(* Within 2000::/3: 2001::/23 (protocol assignments, Teredo), 2001:db8::/32 *)
(* and 3fff::/20 (documentation), 2002::/16 (6to4).                        *)
Reserved6(s, t) ==
  \/ s = 8193 /\ (t < 512 \/ t = 3512)
  \/ s = 8194
  \/ s = 16383 /\ t < 4096

(* IPv6: all but the global unicast space, 2000::/3, and what is reserved  *)
(* within it.                                                              *)
IsSpecial(a) ==
  IF a.kind = "v6"
    THEN ~Within(a.seg0, 8192, 8192) \/ Reserved6(a.seg0, a.seg1)
    ELSE \E b \in Blocks4 : Within(First24(a.octets), First24(b[1]), b[2])

(* The special addresses the guard lets through all the same: 240.0.0.0/4  *)
(* but the broadcast address; the reserved ranges above; 0000::/3 but ::   *)
(* and ::1, with 64:ff9b::/96 in it; 4000:: up to fc00::; fe00::/9; and    *)
(* fec0::/10.                                                              *)
Overlooked(a) ==
  IF a.kind = "v6"
    THEN \/ Reserved6(a.seg0, a.seg1)
         \/ a.seg0 < 8192 /\ ~(a.seg0 = 0 /\ a.seg1 = 0 /\ a.rest # 2)
         \/ \E b \in {<<16384, 48128>>, <<65024, 128>>, <<65216, 64>>} :
               Within(a.seg0, b[1], b[2])
    ELSE a.octets[1] \in 240..255 /\ a.octets # <<255, 255, 255, 255>>

TypeOK ==
  /\ allowlist \in Allowlists
  /\ url \in Hosts /\ host \in Hosts
  /\ pc \in {"build", "check", "connect", "connected", "reading",
             "done", "invalid", "blocked", "error", "cut"}
  /\ pinned \subseteq Addresses /\ isPinned \in BOOLEAN
  /\ hops \in 0..MaxHops
  /\ checked \subseteq Addresses
  /\ reached \subseteq Hosts \X Addresses
  /\ exit \in {"none", "zero", "status"}
  /\ failed \in BOOLEAN

(* While the guard is on, a connection goes to a global address, to one of *)
(* the ranges the guard overlooks, or to a host the operator exempted,     *)
(* whatever DNS answers between the check and the connection and wherever  *)
(* the server redirects.  config.rs:64-67 and net_guard.rs:20 promise it   *)
(* without the second case.                                                *)
OnlyGlobalReached ==
  Enforcing => \A r \in reached :
    ~IsSpecial(r[2]) \/ Overlooked(r[2]) \/ HostAllowed(r[1])

(* A destination is refused while the guard is on, when its host is not    *)
(* exempt, and for a special address it really has or for having none: no  *)
(* host that resolves to global addresses is refused, nor a global IPv4    *)
(* literal.  An IPv6 literal in its brackets, global or not, is: it has    *)
(* none for the guard (net_guard.rs:110-141, http_request.rs:40-47).       *)
RefusedForCause ==
  pc = "blocked" =>
    /\ Enforcing /\ ~HostAllowed(url)
    /\ \/ \E a \in checked : IsSpecial(a)
       \/ checked = {} /\ (IsLiteral(url) => IsBracketed(url))

(* Under the guard the one host asked for is the one connected to, at one  *)
(* of the addresses that were checked (http_request.rs:40-51).             *)
ReachedAsChecked ==
  Enforcing => \A r \in reached :
    r[1] = url /\ (HostAllowed(url) \/ r[2] \in checked)

(* http_request.rs:90: a network failure never becomes a result, it is an  *)
(* error of the handler.                                                   *)
NetworkFailuresAreErrors == pc = "done" => ~failed
=============================================================================
