------------------------------ MODULE MCEgress ------------------------------
(* Instances of Egress for TLC. *)
EXTENDS Egress

CONSTANTS com, site, api

V4(o) == [kind |-> "v4", octets |-> o, seg0 |-> 0, seg1 |-> 0, rest |-> 2]
Mapped(o) == [kind |-> "mapped", octets |-> o, seg0 |-> 0, seg1 |-> 0, rest |-> 2]
V6(s, t, r) ==
  [kind |-> "v6", octets |-> <<0, 0, 0, 0>>, seg0 |-> s, seg1 |-> t, rest |-> r]

(* The first and last address of each range, and their neighbours outside. *)
MCAddresses ==
  {V4(o) : o \in {
     <<0, 255, 255, 255>>, <<1, 0, 0, 0>>,
     <<9, 255, 255, 255>>, <<10, 0, 0, 0>>, <<10, 255, 255, 255>>, <<11, 0, 0, 0>>,
     <<100, 63, 255, 255>>, <<100, 64, 0, 0>>, <<100, 127, 255, 255>>, <<100, 128, 0, 0>>,
     <<126, 255, 255, 255>>, <<127, 0, 0, 1>>, <<128, 0, 0, 0>>,
     <<169, 253, 255, 255>>, <<169, 254, 169, 254>>, <<169, 255, 0, 0>>,
     <<172, 15, 255, 255>>, <<172, 16, 0, 0>>, <<172, 31, 255, 255>>, <<172, 32, 0, 0>>,
     <<192, 0, 0, 1>>, <<192, 0, 1, 0>>, <<192, 0, 2, 1>>, <<192, 0, 3, 0>>,
     <<192, 167, 255, 255>>, <<192, 168, 0, 0>>, <<192, 169, 0, 0>>,
     <<198, 17, 255, 255>>, <<198, 18, 0, 0>>, <<198, 19, 255, 255>>, <<198, 20, 0, 0>>,
     <<198, 51, 100, 0>>, <<198, 51, 101, 0>>, <<203, 0, 113, 0>>, <<203, 0, 114, 0>>,
     <<223, 255, 255, 255>>, <<224, 0, 0, 0>>, <<239, 255, 255, 255>>, <<240, 0, 0, 0>>,
     <<255, 255, 255, 254>>, <<255, 255, 255, 255>>}}
  \cup {Mapped(<<10, 0, 0, 1>>), Mapped(<<8, 8, 8, 8>>)}
  \cup {V6(0, 0, 0), V6(0, 0, 1), V6(0, 0, 2), V6(0, 1, 0), V6(100, 65435, 2),
        V6(8191, 0, 2), V6(8192, 0, 2), V6(8193, 511, 2), V6(8193, 512, 2),
        V6(8193, 3511, 2), V6(8193, 3512, 2), V6(8193, 3513, 2), V6(8194, 0, 2),
        V6(8195, 0, 2), V6(16383, 4095, 2), V6(16383, 4096, 2), V6(16384, 0, 2)}
  \cup {V6(s, 0, 2) : s \in {64511, 64512, 65023, 65024, 65151, 65152, 65215,
                             65216, 65279, 65280}}

(* One address of every range on its own, and pairs of which one may be   *)
(* private.                                                                *)
MCAnswers ==
  {{}} \cup {{a} : a \in MCAddresses}
  \cup {{V4(<<1, 0, 0, 0>>), a} : a \in MCAddresses}

MCNames == {<<site, com>>, <<api, site, com>>}

MCAllowlists ==
  {{}, {[match |-> "any", name |-> <<>>]},
   {[match |-> "exact", name |-> <<site, com>>]},
   {[match |-> "suffix", name |-> <<api, site, com>>],
    [match |-> "exact", name |-> <<10, 0, 0, 0>>]}}
=============================================================================
