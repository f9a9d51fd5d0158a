------------------------------ MODULE HeapProofs ------------------------------
(***************************************************************************)
(* Proofs about the memory pools, for pools of any size: how many losses   *)
(* they can stand.                                                         *)
(***************************************************************************)
EXTENDS Heap, FiniteSetTheorems, TLAPS

(***************************************************************************)
(* What a function needs: the blocks of each pool that one call of it and  *)
(* the calls it makes hold together at most.                               *)
(***************************************************************************)

Functions ==
  {"fs_log", "wifi_send_data", "wifi_send_raw", "wifi_transmit", "wifi_send_ip",
   "core_get_nilm_ip_addr", "core_get_nilm_ip_addr_cb", "wifi_init", "core_process_wifi_data",
   "core_log_power_data", "mon_config", "mon_rtc", "mon_wifi", "mon_log", "mon_data",
   "fs_info", "UART0_Handler", "UART1_Handler"}

Amount(md, lg, xl) == [p \in Pools |-> IF p = "MD" THEN md ELSE IF p = "LG" THEN lg ELSE xl]

Need(f) ==
  CASE f \in {"mon_config", "mon_rtc", "mon_log", "fs_info", "UART0_Handler"} -> Amount(1, 0, 0)
    [] f \in {"fs_log", "mon_data", "UART1_Handler"} -> Amount(2, 0, 0)
    [] f = "wifi_send_data"           -> Amount(3, 0, 0)
    [] f = "wifi_send_raw"            -> Amount(4, 0, 0)
    [] f = "wifi_transmit"            -> Amount(6, 0, 0)
    [] f = "wifi_send_ip"             -> Amount(6, 2, 0)
    [] f = "core_get_nilm_ip_addr"    -> Amount(7, 0, 0)
    [] f = "core_get_nilm_ip_addr_cb" -> Amount(7, 2, 0)
    [] f \in {"wifi_init", "mon_wifi", "core_log_power_data"} -> Amount(9, 2, 0)
    [] f = "core_process_wifi_data"   -> Amount(9, 2, 1)

LEMMA NeedType == \A f \in Functions, p \in Pools : Need(f)[p] \in Nat
  BY DEF Functions, Pools, Need, Amount

(***************************************************************************)
(* The plan of a path: before its operation k it has taken n[k] blocks, of *)
(* the pools in taken; those in out[k] it has not given back, which are    *)
(* lev[p][k] of pool p.                                                    *)
(***************************************************************************)

One(b) == IF b THEN 1 ELSE 0

\* Operation k of path keeps to the plan and to what f needs.
Follows(f, path, taken, n, out, lev, k) ==
  LET op  == path[k][1]
      arg == path[k][2]
  IN \/ /\ op = "take" /\ arg \in Pools
        /\ n[k + 1] = n[k] + 1 /\ taken[n[k] + 1] = arg
        /\ out[k + 1] = out[k] \cup {n[k] + 1}
        /\ \A p \in Pools : /\ lev[p][k + 1] = lev[p][k] + One(p = arg)
                            /\ lev[p][k + 1] =< Need(f)[p]
     \/ /\ op = "give" /\ arg \in out[k] /\ taken[arg] \in Pools
        /\ n[k + 1] = n[k] /\ out[k + 1] = out[k] \ {arg}
        /\ \A p \in Pools : lev[p][k + 1] = lev[p][k] - One(p = taken[arg])
     \/ /\ op = "keep" /\ arg \in Pools
        /\ n[k + 1] = n[k] /\ out[k + 1] = out[k]
        /\ \A p \in Pools : lev[p][k + 1] = lev[p][k]
     \/ /\ op \in {"call", "loop"} /\ arg \in Functions
        /\ n[k + 1] = n[k] /\ out[k + 1] = out[k]
        /\ \A p \in Pools : /\ lev[p][k + 1] = lev[p][k]
                            /\ lev[p][k] + Need(arg)[p] =< Need(f)[p]

\* At the end everything is given back, or at most what a leaking function has
\* not is lost.
Ends(f, taken, n, out, lev, k) ==
  /\ IsFiniteSet(out[k])
  /\ \A j \in out[k] : taken[j] \in Pools
  /\ \A p \in Pools : IF f \in Leaking THEN lev[p][k] =< Cardinality(out[k]) ELSE lev[p][k] = 0

Starts(out, n, lev) == n[1] = 0 /\ out[1] = {} /\ \A p \in Pools : lev[p][1] = 0

Bounded(f, lev, last) == \A k \in 1 .. last, p \in Pools : lev[p][k] \in 0 .. Need(f)[p]

Op == ({"take", "keep"} \X Pools) \cup ({"give"} \X Nat) \cup ({"call", "loop"} \X Functions)

Plan(f, path, taken, n, out, lev) ==
  /\ path \in Seq(Op)
  /\ Starts(out, n, lev)
  /\ \A k \in 1 .. Len(path) : Follows(f, path, taken, n, out, lev, k)
  /\ Bounded(f, lev, Len(path) + 1)
  /\ Ends(f, taken, n, out, lev, Len(path) + 1)

Planned(f, path) == \E taken, n, out, lev : Plan(f, path, taken, n, out, lev)

LEMMA FewBlocks ==
  /\ IsFiniteSet({}) /\ Cardinality({}) = 0
  /\ IsFiniteSet({1}) /\ Cardinality({1}) = 1
  /\ IsFiniteSet({1, 2}) /\ Cardinality({1, 2}) = 2
  <1>1. IsFiniteSet({}) /\ Cardinality({}) = 0
    BY FS_EmptySet
  <1>2. IsFiniteSet({1}) /\ Cardinality({1}) = 1
    BY FS_Singleton
  <1>3. {1, 2} = {1} \cup {2} /\ 2 \notin {1}
    OBVIOUS
  <1> QED
    BY <1>1, <1>2, <1>3, FS_AddElement

\* The paths that several functions have.
LEMMA NoBlock ==
  ASSUME NEW f \in Functions
  PROVE  Planned(f, <<>>)
  <1> DEFINE path  == <<>>
             n     == <<0>>
             out   == <<{}>>
             lev   == Amount(<<0>>, <<0>>, <<0>>)
  <1>1. path \in Seq(Op) /\ Starts(out, n, lev) /\ Bounded(f, lev, 1)
    BY NeedType DEF Op, Starts, Bounded, Amount, Pools
  <1>2. Ends(f, <<>>, n, out, lev, 1)
    BY FewBlocks DEF Ends, Amount, Pools
  <1> QED
    BY <1>1, <1>2 DEF Plan, Planned

LEMMA OneBlock ==
  ASSUME NEW f \in Functions, NEW p \in Pools, Need(f)[p] >= 1
  PROVE  Planned(f, <<take(p), give(1)>>)
  <1> DEFINE path  == <<take(p), give(1)>>
             taken == <<p>>
             n     == <<0, 1, 1>>
             out   == <<{}, {1}, {}>>
             lev   == [q \in Pools |-> <<0, One(q = p), 0>>]
             O(k)  == Follows(f, path, taken, n, out, lev, k)
  <1>1. \A q \in Pools : Need(f)[q] \in Nat
    BY NeedType
  <1>2. O(1) /\ O(2)
    BY <1>1 DEF Follows, One, take, give
  <1>3. path \in Seq(Op) /\ Starts(out, n, lev) /\ Bounded(f, lev, 3)
    BY <1>1 DEF Op, Starts, Bounded, One, take, give
  <1>4. Ends(f, taken, n, out, lev, 3)
    BY FewBlocks DEF Ends
  <1> QED
    BY <1>2, <1>3, <1>4 DEF Plan, Planned

LEMMA OnlyCall ==
  ASSUME NEW f \in Functions, NEW g \in Functions, \A p \in Pools : Need(g)[p] =< Need(f)[p]
  PROVE  Planned(f, <<call(g)>>)
  <1> DEFINE path  == <<call(g)>>
             n     == <<0, 0>>
             out   == <<{}, {}>>
             lev   == Amount(<<0, 0>>, <<0, 0>>, <<0, 0>>)
  <1>1. \A q \in Pools : Need(f)[q] \in Nat /\ Need(g)[q] \in Nat
    BY NeedType
  <1>2. Follows(f, path, <<>>, n, out, lev, 1)
    BY <1>1 DEF Follows, Amount, Pools, call
  <1>3. path \in Seq(Op) /\ Starts(out, n, lev) /\ Bounded(f, lev, 2)
    BY <1>1 DEF Op, Starts, Bounded, Amount, Pools, call
  <1>4. Ends(f, <<>>, n, out, lev, 2)
    BY FewBlocks DEF Ends, Amount, Pools
  <1> QED
    BY <1>2, <1>3, <1>4 DEF Plan, Planned

LEMMA CallWithBlock ==
  ASSUME NEW f \in Functions, NEW g \in Functions, NEW p \in Pools,
         \A q \in Pools : Need(g)[q] + One(q = p) =< Need(f)[q]
  PROVE  Planned(f, <<take(p), call(g), give(1)>>)
  <1> DEFINE path  == <<take(p), call(g), give(1)>>
             taken == <<p>>
             n     == <<0, 1, 1, 1>>
             out   == <<{}, {1}, {1}, {}>>
             lev   == [q \in Pools |-> <<0, One(q = p), One(q = p), 0>>]
             O(k)  == Follows(f, path, taken, n, out, lev, k)
  <1>1. \A q \in Pools : Need(f)[q] \in Nat /\ Need(g)[q] \in Nat
    BY NeedType
  <1>2. O(1) /\ O(2) /\ O(3)
    BY <1>1 DEF Follows, One, take, call, give
  <1>3. path \in Seq(Op) /\ Starts(out, n, lev) /\ Bounded(f, lev, 4)
    BY <1>1 DEF Op, Starts, Bounded, One, take, call, give
  <1>4. Ends(f, taken, n, out, lev, 4)
    BY FewBlocks DEF Ends
  <1> QED
    BY <1>2, <1>3, <1>4 DEF Plan, Planned

LEMMA LogPlan == \A path \in fs_log : Planned("fs_log", path)
  <1>1. Planned("fs_log", <<take("MD"), take("MD"), give(1), give(2)>>)
    <2> DEFINE path  == <<take("MD"), take("MD"), give(1), give(2)>>
               taken == <<"MD", "MD">>
               n     == <<0, 1, 2, 2, 2>>
               out   == <<{}, {1}, {1, 2}, {2}, {}>>
               lev   == Amount(<<0, 1, 2, 1, 0>>, <<0, 0, 0, 0, 0>>,
                               <<0, 0, 0, 0, 0>>)
               O(k)  == Follows("fs_log", path, taken, n, out, lev, k)
    <2>1. O(1) /\ O(2) /\ O(3) /\ O(4)
      BY DEF Follows, Amount, One, Pools, Functions, Need, give, take
    <2>2. path \in Seq(Op) /\ Starts(out, n, lev) /\ Bounded("fs_log", lev, 5)
      BY DEF Op, Starts, Bounded, Amount, Need, Pools, Functions, give, take
    <2>3. Ends("fs_log", taken, n, out, lev, 5)
      BY FewBlocks DEF Ends, Amount, Pools, Leaking
    <2> QED
      BY <2>1, <2>2, <2>3 DEF Plan, Planned
  <1> QED
    BY <1>1 DEF fs_log

LEMMA SendDataPlan == \A path \in wifi_send_data : Planned("wifi_send_data", path)
  <1>1. Planned("wifi_send_data", <<take("MD"), call("fs_log"), call("fs_log"), give(1)>>)
    <2> DEFINE path  == <<take("MD"), call("fs_log"), call("fs_log"), give(1)>>
               taken == <<"MD">>
               n     == <<0, 1, 1, 1, 1>>
               out   == <<{}, {1}, {1}, {1}, {}>>
               lev   == Amount(<<0, 1, 1, 1, 0>>, <<0, 0, 0, 0, 0>>,
                               <<0, 0, 0, 0, 0>>)
               O(k)  == Follows("wifi_send_data", path, taken, n, out, lev, k)
    <2>1. O(1) /\ O(2) /\ O(3) /\ O(4)
      BY DEF Follows, Amount, One, Pools, Functions, Need, call, give, take
    <2>2. path \in Seq(Op) /\ Starts(out, n, lev) /\ Bounded("wifi_send_data", lev, 5)
      BY DEF Op, Starts, Bounded, Amount, Need, Pools, Functions, call, give, take
    <2>3. Ends("wifi_send_data", taken, n, out, lev, 5)
      BY FewBlocks DEF Ends, Amount, Pools, Leaking
    <2> QED
      BY <2>1, <2>2, <2>3 DEF Plan, Planned
  <1>2. Planned("wifi_send_data", <<take("MD"), give(1)>>)
    BY OneBlock DEF Need, Amount, Pools, One, Functions
  <1>3. Planned("wifi_send_data", <<take("MD"), call("fs_log"), give(1)>>)
    <2>1. \A q \in Pools : Need("fs_log")[q] + One(q = "MD") =< Need("wifi_send_data")[q]
      BY DEF Need, Amount, Pools, One
    <2>2. "wifi_send_data" \in Functions /\ "fs_log" \in Functions /\ "MD" \in Pools
      BY DEF Functions, Pools
    <2> QED
      BY <2>1, <2>2, CallWithBlock
  <1> QED
    BY <1>1, <1>2, <1>3 DEF wifi_send_data

LEMMA SendRawPlan == \A path \in wifi_send_raw : Planned("wifi_send_raw", path)
  <1>1. Planned("wifi_send_raw", <<take("MD"), call("wifi_send_data"), loop("wifi_send_data"),
                                   give(1)>>)
    <2> DEFINE path  == <<take("MD"), call("wifi_send_data"), loop("wifi_send_data"),
                          give(1)>>
               taken == <<"MD">>
               n     == <<0, 1, 1, 1, 1>>
               out   == <<{}, {1}, {1}, {1}, {}>>
               lev   == Amount(<<0, 1, 1, 1, 0>>, <<0, 0, 0, 0, 0>>,
                               <<0, 0, 0, 0, 0>>)
               O(k)  == Follows("wifi_send_raw", path, taken, n, out, lev, k)
    <2>1. O(1) /\ O(2) /\ O(3) /\ O(4)
      BY DEF Follows, Amount, One, Pools, Functions, Need, call, give, loop, take
    <2>2. path \in Seq(Op) /\ Starts(out, n, lev) /\ Bounded("wifi_send_raw", lev, 5)
      BY DEF Op, Starts, Bounded, Amount, Need, Pools, Functions, call, give, loop, take
    <2>3. Ends("wifi_send_raw", taken, n, out, lev, 5)
      BY FewBlocks DEF Ends, Amount, Pools, Leaking
    <2> QED
      BY <2>1, <2>2, <2>3 DEF Plan, Planned
  <1> QED
    BY <1>1 DEF wifi_send_raw

LEMMA TransmitPlan == \A path \in wifi_transmit : Planned("wifi_transmit", path)
  <1>1. Planned("wifi_transmit", <<take("MD"), take("MD"), give(1), give(2)>>)
    <2> DEFINE path  == <<take("MD"), take("MD"), give(1), give(2)>>
               taken == <<"MD", "MD">>
               n     == <<0, 1, 2, 2, 2>>
               out   == <<{}, {1}, {1, 2}, {2}, {}>>
               lev   == Amount(<<0, 1, 2, 1, 0>>, <<0, 0, 0, 0, 0>>,
                               <<0, 0, 0, 0, 0>>)
               O(k)  == Follows("wifi_transmit", path, taken, n, out, lev, k)
    <2>1. O(1) /\ O(2) /\ O(3) /\ O(4)
      BY DEF Follows, Amount, One, Pools, Functions, Need, give, take
    <2>2. path \in Seq(Op) /\ Starts(out, n, lev) /\ Bounded("wifi_transmit", lev, 5)
      BY DEF Op, Starts, Bounded, Amount, Need, Pools, Functions, give, take
    <2>3. Ends("wifi_transmit", taken, n, out, lev, 5)
      BY FewBlocks DEF Ends, Amount, Pools, Leaking
    <2> QED
      BY <2>1, <2>2, <2>3 DEF Plan, Planned
  <1>2. Planned("wifi_transmit", <<take("MD"), take("MD"), call("wifi_send_raw"),
                                   give(1), give(2)>>)
    <2> DEFINE path  == <<take("MD"), take("MD"), call("wifi_send_raw"), give(1), give(2)>>
               taken == <<"MD", "MD">>
               n     == <<0, 1, 2, 2, 2, 2>>
               out   == <<{}, {1}, {1, 2}, {1, 2}, {2}, {}>>
               lev   == Amount(<<0, 1, 2, 2, 1, 0>>, <<0, 0, 0, 0, 0, 0>>,
                               <<0, 0, 0, 0, 0, 0>>)
               O(k)  == Follows("wifi_transmit", path, taken, n, out, lev, k)
    <2>1. O(1) /\ O(2) /\ O(3) /\ O(4) /\ O(5)
      BY DEF Follows, Amount, One, Pools, Functions, Need, call, give, take
    <2>2. path \in Seq(Op) /\ Starts(out, n, lev) /\ Bounded("wifi_transmit", lev, 6)
      BY DEF Op, Starts, Bounded, Amount, Need, Pools, Functions, call, give, take
    <2>3. Ends("wifi_transmit", taken, n, out, lev, 6)
      BY FewBlocks DEF Ends, Amount, Pools, Leaking
    <2> QED
      BY <2>1, <2>2, <2>3 DEF Plan, Planned
  <1> QED
    BY <1>1, <1>2 DEF wifi_transmit

LEMMA SendIpPlan == \A path \in wifi_send_ip : Planned("wifi_send_ip", path)
  <1>1. Planned("wifi_send_ip", <<take("LG"), take("LG"), call("wifi_transmit"),
                                  give(1), give(2)>>)
    <2> DEFINE path  == <<take("LG"), take("LG"), call("wifi_transmit"), give(1), give(2)>>
               taken == <<"LG", "LG">>
               n     == <<0, 1, 2, 2, 2, 2>>
               out   == <<{}, {1}, {1, 2}, {1, 2}, {2}, {}>>
               lev   == Amount(<<0, 0, 0, 0, 0, 0>>, <<0, 1, 2, 2, 1, 0>>,
                               <<0, 0, 0, 0, 0, 0>>)
               O(k)  == Follows("wifi_send_ip", path, taken, n, out, lev, k)
    <2>1. O(1) /\ O(2) /\ O(3) /\ O(4) /\ O(5)
      BY DEF Follows, Amount, One, Pools, Functions, Need, call, give, take
    <2>2. path \in Seq(Op) /\ Starts(out, n, lev) /\ Bounded("wifi_send_ip", lev, 6)
      BY DEF Op, Starts, Bounded, Amount, Need, Pools, Functions, call, give, take
    <2>3. Ends("wifi_send_ip", taken, n, out, lev, 6)
      BY FewBlocks DEF Ends, Amount, Pools, Leaking
    <2> QED
      BY <2>1, <2>2, <2>3 DEF Plan, Planned
  <1> QED
    BY <1>1 DEF wifi_send_ip

LEMMA AskPlan == \A path \in core_get_nilm_ip_addr : Planned("core_get_nilm_ip_addr", path)
  <1>1. Planned("core_get_nilm_ip_addr", <<take("MD"), call("wifi_transmit"), give(1)>>)
    <2>1. \A q \in Pools : Need("wifi_transmit")[q] + One(q = "MD") =< Need("core_get_nilm_ip_addr")[q]
      BY DEF Need, Amount, Pools, One
    <2>2. "core_get_nilm_ip_addr" \in Functions /\ "wifi_transmit" \in Functions /\ "MD" \in Pools
      BY DEF Functions, Pools
    <2> QED
      BY <2>1, <2>2, CallWithBlock
  <1> QED
    BY <1>1 DEF core_get_nilm_ip_addr

LEMMA CallbackPlan == \A path \in core_get_nilm_ip_addr_cb : Planned("core_get_nilm_ip_addr_cb", path)
  <1>1. Planned("core_get_nilm_ip_addr_cb", <<take("MD"), give(1)>>)
    BY OneBlock DEF Need, Amount, Pools, One, Functions
  <1>2. Planned("core_get_nilm_ip_addr_cb", <<take("MD"), call("wifi_send_ip"), give(1)>>)
    <2>1. \A q \in Pools : Need("wifi_send_ip")[q] + One(q = "MD") =< Need("core_get_nilm_ip_addr_cb")[q]
      BY DEF Need, Amount, Pools, One
    <2>2. "core_get_nilm_ip_addr_cb" \in Functions /\ "wifi_send_ip" \in Functions /\ "MD" \in Pools
      BY DEF Functions, Pools
    <2> QED
      BY <2>1, <2>2, CallWithBlock
  <1> QED
    BY <1>1, <1>2 DEF core_get_nilm_ip_addr_cb

LEMMA InitPlan == \A path \in wifi_init : Planned("wifi_init", path)
  <1>1. Planned("wifi_init", <<keep("LG"), keep("MD"), keep("XL")>>)
    <2> DEFINE path  == <<keep("LG"), keep("MD"), keep("XL")>>
               taken == <<>>
               n     == <<0, 0, 0, 0>>
               out   == <<{}, {}, {}, {}>>
               lev   == Amount(<<0, 0, 0, 0>>, <<0, 0, 0, 0>>,
                               <<0, 0, 0, 0>>)
               O(k)  == Follows("wifi_init", path, taken, n, out, lev, k)
    <2>1. O(1) /\ O(2) /\ O(3)
      BY DEF Follows, Amount, One, Pools, Functions, Need, keep
    <2>2. path \in Seq(Op) /\ Starts(out, n, lev) /\ Bounded("wifi_init", lev, 4)
      BY DEF Op, Starts, Bounded, Amount, Need, Pools, Functions, keep
    <2>3. Ends("wifi_init", taken, n, out, lev, 4)
      BY FewBlocks DEF Ends, Amount, Pools, Leaking
    <2> QED
      BY <2>1, <2>2, <2>3 DEF Plan, Planned
  <1>2. Planned("wifi_init", <<keep("LG"), keep("MD"), keep("XL"), take("MD"), take("MD"),
                               give(1), give(2)>>)
    <2> DEFINE path  == <<keep("LG"), keep("MD"), keep("XL"), take("MD"), take("MD"),
                          give(1), give(2)>>
               taken == <<"MD", "MD">>
               n     == <<0, 0, 0, 0, 1, 2, 2, 2>>
               out   == <<{}, {}, {}, {}, {1}, {1, 2}, {2}, {}>>
               lev   == Amount(<<0, 0, 0, 0, 1, 2, 1, 0>>, <<0, 0, 0, 0, 0, 0, 0, 0>>,
                               <<0, 0, 0, 0, 0, 0, 0, 0>>)
               O(k)  == Follows("wifi_init", path, taken, n, out, lev, k)
    <2>1. O(1) /\ O(2) /\ O(3) /\ O(4) /\ O(5) /\ O(6) /\ O(7)
      BY DEF Follows, Amount, One, Pools, Functions, Need, give, keep, take
    <2>2. path \in Seq(Op) /\ Starts(out, n, lev) /\ Bounded("wifi_init", lev, 8)
      BY DEF Op, Starts, Bounded, Amount, Need, Pools, Functions, give, keep, take
    <2>3. Ends("wifi_init", taken, n, out, lev, 8)
      BY FewBlocks DEF Ends, Amount, Pools, Leaking
    <2> QED
      BY <2>1, <2>2, <2>3 DEF Plan, Planned
  <1>3. Planned("wifi_init", <<keep("LG"), keep("MD"), keep("XL"), take("MD"), take("MD"),
                               call("fs_log"), give(1), give(2)>>)
    <2> DEFINE path  == <<keep("LG"), keep("MD"), keep("XL"), take("MD"), take("MD"),
                          call("fs_log"), give(1), give(2)>>
               taken == <<"MD", "MD">>
               n     == <<0, 0, 0, 0, 1, 2, 2, 2, 2>>
               out   == <<{}, {}, {}, {}, {1}, {1, 2}, {1, 2}, {2}, {}>>
               lev   == Amount(<<0, 0, 0, 0, 1, 2, 2, 1, 0>>, <<0, 0, 0, 0, 0, 0, 0, 0, 0>>,
                               <<0, 0, 0, 0, 0, 0, 0, 0, 0>>)
               O(k)  == Follows("wifi_init", path, taken, n, out, lev, k)
    <2>1. O(1) /\ O(2) /\ O(3) /\ O(4) /\ O(5) /\ O(6) /\ O(7) /\ O(8)
      BY DEF Follows, Amount, One, Pools, Functions, Need, call, give, keep, take
    <2>2. path \in Seq(Op) /\ Starts(out, n, lev) /\ Bounded("wifi_init", lev, 9)
      BY DEF Op, Starts, Bounded, Amount, Need, Pools, Functions, call, give, keep, take
    <2>3. Ends("wifi_init", taken, n, out, lev, 9)
      BY FewBlocks DEF Ends, Amount, Pools, Leaking
    <2> QED
      BY <2>1, <2>2, <2>3 DEF Plan, Planned
  <1>4. Planned("wifi_init", <<keep("LG"), keep("MD"), keep("XL"),
                               take("MD"), take("MD"), call("wifi_send_ip")>>)
    <2> DEFINE path  == <<keep("LG"), keep("MD"), keep("XL"),
                          take("MD"), take("MD"), call("wifi_send_ip")>>
               taken == <<"MD", "MD">>
               n     == <<0, 0, 0, 0, 1, 2, 2>>
               out   == <<{}, {}, {}, {}, {1}, {1, 2}, {1, 2}>>
               lev   == Amount(<<0, 0, 0, 0, 1, 2, 2>>, <<0, 0, 0, 0, 0, 0, 0>>,
                               <<0, 0, 0, 0, 0, 0, 0>>)
               O(k)  == Follows("wifi_init", path, taken, n, out, lev, k)
    <2>1. O(1) /\ O(2) /\ O(3) /\ O(4) /\ O(5) /\ O(6)
      BY DEF Follows, Amount, One, Pools, Functions, Need, call, keep, take
    <2>2. path \in Seq(Op) /\ Starts(out, n, lev) /\ Bounded("wifi_init", lev, 7)
      BY DEF Op, Starts, Bounded, Amount, Need, Pools, Functions, call, keep, take
    <2>3. Ends("wifi_init", taken, n, out, lev, 7)
      BY FewBlocks DEF Ends, Amount, Pools, Leaking
    <2> QED
      BY <2>1, <2>2, <2>3 DEF Plan, Planned
  <1>5. Planned("wifi_init", <<keep("LG"), keep("MD"), keep("XL"), take("MD"), take("MD"),
                               call("wifi_send_ip"), call("fs_log"), give(2), give(1)>>)
    <2> DEFINE path  == <<keep("LG"), keep("MD"), keep("XL"), take("MD"), take("MD"),
                          call("wifi_send_ip"), call("fs_log"), give(2), give(1)>>
               taken == <<"MD", "MD">>
               n     == <<0, 0, 0, 0, 1, 2, 2, 2, 2, 2>>
               out   == <<{}, {}, {}, {}, {1}, {1, 2}, {1, 2}, {1, 2}, {1}, {}>>
               lev   == Amount(<<0, 0, 0, 0, 1, 2, 2, 2, 1, 0>>, <<0, 0, 0, 0, 0, 0, 0, 0, 0, 0>>,
                               <<0, 0, 0, 0, 0, 0, 0, 0, 0, 0>>)
               O(k)  == Follows("wifi_init", path, taken, n, out, lev, k)
    <2>1. O(1) /\ O(2) /\ O(3) /\ O(4) /\ O(5) /\ O(6) /\ O(7) /\ O(8) /\ O(9)
      BY DEF Follows, Amount, One, Pools, Functions, Need, call, give, keep, take
    <2>2. path \in Seq(Op) /\ Starts(out, n, lev) /\ Bounded("wifi_init", lev, 10)
      BY DEF Op, Starts, Bounded, Amount, Need, Pools, Functions, call, give, keep, take
    <2>3. Ends("wifi_init", taken, n, out, lev, 10)
      BY FewBlocks DEF Ends, Amount, Pools, Leaking
    <2> QED
      BY <2>1, <2>2, <2>3 DEF Plan, Planned
  <1>6. Planned("wifi_init", <<keep("LG"), keep("MD"), keep("XL"), take("MD"), take("MD"),
                               call("core_get_nilm_ip_addr"), call("fs_log"), give(2), give(1)>>)
    <2> DEFINE path  == <<keep("LG"), keep("MD"), keep("XL"), take("MD"), take("MD"),
                          call("core_get_nilm_ip_addr"), call("fs_log"), give(2), give(1)>>
               taken == <<"MD", "MD">>
               n     == <<0, 0, 0, 0, 1, 2, 2, 2, 2, 2>>
               out   == <<{}, {}, {}, {}, {1}, {1, 2}, {1, 2}, {1, 2}, {1}, {}>>
               lev   == Amount(<<0, 0, 0, 0, 1, 2, 2, 2, 1, 0>>, <<0, 0, 0, 0, 0, 0, 0, 0, 0, 0>>,
                               <<0, 0, 0, 0, 0, 0, 0, 0, 0, 0>>)
               O(k)  == Follows("wifi_init", path, taken, n, out, lev, k)
    <2>1. O(1) /\ O(2) /\ O(3) /\ O(4) /\ O(5) /\ O(6) /\ O(7) /\ O(8) /\ O(9)
      BY DEF Follows, Amount, One, Pools, Functions, Need, call, give, keep, take
    <2>2. path \in Seq(Op) /\ Starts(out, n, lev) /\ Bounded("wifi_init", lev, 10)
      BY DEF Op, Starts, Bounded, Amount, Need, Pools, Functions, call, give, keep, take
    <2>3. Ends("wifi_init", taken, n, out, lev, 10)
      BY FewBlocks DEF Ends, Amount, Pools, Leaking
    <2> QED
      BY <2>1, <2>2, <2>3 DEF Plan, Planned
  <1> QED
    BY <1>1, <1>2, <1>3, <1>4, <1>5, <1>6 DEF wifi_init

LEMMA ProcessPlan == \A path \in core_process_wifi_data : Planned("core_process_wifi_data", path)
  <1>1. Planned("core_process_wifi_data", <<take("XL"), take("MD"), call("fs_log"),
                                            give(2), call("wifi_send_raw"), give(1)>>)
    <2> DEFINE path  == <<take("XL"), take("MD"), call("fs_log"),
                          give(2), call("wifi_send_raw"), give(1)>>
               taken == <<"XL", "MD">>
               n     == <<0, 1, 2, 2, 2, 2, 2>>
               out   == <<{}, {1}, {1, 2}, {1, 2}, {1}, {1}, {}>>
               lev   == Amount(<<0, 0, 1, 1, 0, 0, 0>>, <<0, 0, 0, 0, 0, 0, 0>>,
                               <<0, 1, 1, 1, 1, 1, 0>>)
               O(k)  == Follows("core_process_wifi_data", path, taken, n, out, lev, k)
    <2>1. O(1) /\ O(2) /\ O(3) /\ O(4) /\ O(5) /\ O(6)
      BY DEF Follows, Amount, One, Pools, Functions, Need, call, give, take
    <2>2. path \in Seq(Op) /\ Starts(out, n, lev) /\ Bounded("core_process_wifi_data", lev, 7)
      BY DEF Op, Starts, Bounded, Amount, Need, Pools, Functions, call, give, take
    <2>3. Ends("core_process_wifi_data", taken, n, out, lev, 7)
      BY FewBlocks DEF Ends, Amount, Pools, Leaking
    <2> QED
      BY <2>1, <2>2, <2>3 DEF Plan, Planned
  <1>2. Planned("core_process_wifi_data", <<take("XL"), call("wifi_send_raw"), call("wifi_init"),
                                            loop("wifi_init"), give(1)>>)
    <2> DEFINE path  == <<take("XL"), call("wifi_send_raw"), call("wifi_init"),
                          loop("wifi_init"), give(1)>>
               taken == <<"XL">>
               n     == <<0, 1, 1, 1, 1, 1>>
               out   == <<{}, {1}, {1}, {1}, {1}, {}>>
               lev   == Amount(<<0, 0, 0, 0, 0, 0>>, <<0, 0, 0, 0, 0, 0>>,
                               <<0, 1, 1, 1, 1, 0>>)
               O(k)  == Follows("core_process_wifi_data", path, taken, n, out, lev, k)
    <2>1. O(1) /\ O(2) /\ O(3) /\ O(4) /\ O(5)
      BY DEF Follows, Amount, One, Pools, Functions, Need, call, give, loop, take
    <2>2. path \in Seq(Op) /\ Starts(out, n, lev) /\ Bounded("core_process_wifi_data", lev, 6)
      BY DEF Op, Starts, Bounded, Amount, Need, Pools, Functions, call, give, loop, take
    <2>3. Ends("core_process_wifi_data", taken, n, out, lev, 6)
      BY FewBlocks DEF Ends, Amount, Pools, Leaking
    <2> QED
      BY <2>1, <2>2, <2>3 DEF Plan, Planned
  <1>3. Planned("core_process_wifi_data", <<call("fs_log")>>)
    BY OnlyCall DEF Need, Amount, Pools, One, Functions
  <1>4. Planned("core_process_wifi_data", <<take("XL"), call("fs_log"), give(1)>>)
    <2>1. \A q \in Pools : Need("fs_log")[q] + One(q = "XL") =< Need("core_process_wifi_data")[q]
      BY DEF Need, Amount, Pools, One
    <2>2. "core_process_wifi_data" \in Functions /\ "fs_log" \in Functions /\ "XL" \in Pools
      BY DEF Functions, Pools
    <2> QED
      BY <2>1, <2>2, CallWithBlock
  <1>5. Planned("core_process_wifi_data", <<take("XL"), give(1)>>)
    BY OneBlock DEF Need, Amount, Pools, One, Functions
  <1>6. Planned("core_process_wifi_data", <<take("XL"), call("core_get_nilm_ip_addr_cb"), give(1)>>)
    <2>1. \A q \in Pools : Need("core_get_nilm_ip_addr_cb")[q] + One(q = "XL") =< Need("core_process_wifi_data")[q]
      BY DEF Need, Amount, Pools, One
    <2>2. "core_process_wifi_data" \in Functions /\ "core_get_nilm_ip_addr_cb" \in Functions /\ "XL" \in Pools
      BY DEF Functions, Pools
    <2> QED
      BY <2>1, <2>2, CallWithBlock
  <1>7. Planned("core_process_wifi_data", <<take("XL"), call("wifi_send_raw"), give(1)>>)
    <2>1. \A q \in Pools : Need("wifi_send_raw")[q] + One(q = "XL") =< Need("core_process_wifi_data")[q]
      BY DEF Need, Amount, Pools, One
    <2>2. "core_process_wifi_data" \in Functions /\ "wifi_send_raw" \in Functions /\ "XL" \in Pools
      BY DEF Functions, Pools
    <2> QED
      BY <2>1, <2>2, CallWithBlock
  <1> QED
    BY <1>1, <1>2, <1>3, <1>4, <1>5, <1>6, <1>7 DEF core_process_wifi_data

LEMMA LogPowerPlan == \A path \in core_log_power_data : Planned("core_log_power_data", path)
  <1>1. Planned("core_log_power_data", <<call("fs_log"), call("wifi_init")>>)
    <2> DEFINE path  == <<call("fs_log"), call("wifi_init")>>
               taken == <<>>
               n     == <<0, 0, 0>>
               out   == <<{}, {}, {}>>
               lev   == Amount(<<0, 0, 0>>, <<0, 0, 0>>,
                               <<0, 0, 0>>)
               O(k)  == Follows("core_log_power_data", path, taken, n, out, lev, k)
    <2>1. O(1) /\ O(2)
      BY DEF Follows, Amount, One, Pools, Functions, Need, call
    <2>2. path \in Seq(Op) /\ Starts(out, n, lev) /\ Bounded("core_log_power_data", lev, 3)
      BY DEF Op, Starts, Bounded, Amount, Need, Pools, Functions, call
    <2>3. Ends("core_log_power_data", taken, n, out, lev, 3)
      BY FewBlocks DEF Ends, Amount, Pools, Leaking
    <2> QED
      BY <2>1, <2>2, <2>3 DEF Plan, Planned
  <1>2. Planned("core_log_power_data", <<>>)
    BY NoBlock DEF Need, Amount, Pools, One, Functions
  <1> QED
    BY <1>1, <1>2 DEF core_log_power_data

LEMMA ConfigPlan == \A path \in mon_config : Planned("mon_config", path)
  <1>1. Planned("mon_config", <<take("MD")>>)
    <2> DEFINE path  == <<take("MD")>>
               taken == <<"MD">>
               n     == <<0, 1>>
               out   == <<{}, {1}>>
               lev   == Amount(<<0, 1>>, <<0, 0>>,
                               <<0, 0>>)
               O(k)  == Follows("mon_config", path, taken, n, out, lev, k)
    <2>1. O(1)
      BY DEF Follows, Amount, One, Pools, Functions, Need, take
    <2>2. path \in Seq(Op) /\ Starts(out, n, lev) /\ Bounded("mon_config", lev, 2)
      BY DEF Op, Starts, Bounded, Amount, Need, Pools, Functions, take
    <2>3. Ends("mon_config", taken, n, out, lev, 2)
      BY FewBlocks DEF Ends, Amount, Pools, Leaking
    <2> QED
      BY <2>1, <2>2, <2>3 DEF Plan, Planned
  <1>2. Planned("mon_config", <<>>)
    BY NoBlock DEF Need, Amount, Pools, One, Functions
  <1> QED
    BY <1>1, <1>2 DEF mon_config

LEMMA RtcPlan == \A path \in mon_rtc : Planned("mon_rtc", path)
  <1>1. Planned("mon_rtc", <<>>)
    BY NoBlock DEF Need, Amount, Pools, One, Functions
  <1>2. Planned("mon_rtc", <<take("MD"), give(1)>>)
    BY OneBlock DEF Need, Amount, Pools, One, Functions
  <1> QED
    BY <1>1, <1>2 DEF mon_rtc

LEMMA WifiPlan == \A path \in mon_wifi : Planned("mon_wifi", path)
  <1>1. Planned("mon_wifi", <<>>)
    BY NoBlock DEF Need, Amount, Pools, One, Functions
  <1>2. Planned("mon_wifi", <<call("wifi_init")>>)
    BY OnlyCall DEF Need, Amount, Pools, One, Functions
  <1> QED
    BY <1>1, <1>2 DEF mon_wifi

LEMMA MonLogPlan == \A path \in mon_log : Planned("mon_log", path)
  <1>1. Planned("mon_log", <<>>)
    BY NoBlock DEF Need, Amount, Pools, One, Functions
  <1>2. Planned("mon_log", <<take("MD"), give(1)>>)
    BY OneBlock DEF Need, Amount, Pools, One, Functions
  <1> QED
    BY <1>1, <1>2 DEF mon_log

LEMMA DataPlan == \A path \in mon_data : Planned("mon_data", path)
  <1>1. Planned("mon_data", <<>>)
    BY NoBlock DEF Need, Amount, Pools, One, Functions
  <1>2. Planned("mon_data", <<call("fs_log")>>)
    BY OnlyCall DEF Need, Amount, Pools, One, Functions
  <1> QED
    BY <1>1, <1>2 DEF mon_data

LEMMA InfoPlan == \A path \in fs_info : Planned("fs_info", path)
  <1>1. Planned("fs_info", <<take("MD"), give(1)>>)
    BY OneBlock DEF Need, Amount, Pools, One, Functions
  <1> QED
    BY <1>1 DEF fs_info

LEMMA Uart0Plan == \A path \in UART0_Handler : Planned("UART0_Handler", path)
  <1>1. Planned("UART0_Handler", <<>>)
    BY NoBlock DEF Need, Amount, Pools, One, Functions
  <1>2. Planned("UART0_Handler", <<take("MD"), give(1)>>)
    BY OneBlock DEF Need, Amount, Pools, One, Functions
  <1> QED
    BY <1>1, <1>2 DEF UART0_Handler

LEMMA Uart1Plan == \A path \in UART1_Handler : Planned("UART1_Handler", path)
  <1>1. Planned("UART1_Handler", <<>>)
    BY NoBlock DEF Need, Amount, Pools, One, Functions
  <1>2. Planned("UART1_Handler", <<call("fs_log")>>)
    BY OnlyCall DEF Need, Amount, Pools, One, Functions
  <1> QED
    BY <1>1, <1>2 DEF UART1_Handler

LEMMA BodyPlan == \A f \in Functions : \A path \in Body(f) : Planned(f, path)
  BY LogPlan, SendDataPlan, SendRawPlan, TransmitPlan, SendIpPlan, AskPlan,
     CallbackPlan, InitPlan, ProcessPlan, LogPowerPlan, ConfigPlan, RtcPlan,
     WifiPlan, MonLogPlan, DataPlan, InfoPlan, Uart0Plan, Uart1Plan
  DEF Body, Functions

(***************************************************************************)
(* One call: it is at some operation of a planned path.                    *)
(***************************************************************************)

Slots   == Pools \cup {"given"}
Frame   == [fn : Functions, rest : Seq(Op), held : Seq(Slots)]
Nothing == [p \in Pools |-> 0]

\* fr has done the first k - 1 operations of a planned path and holds load.
Point(fr, load, path, taken, n, out, lev, k) ==
  /\ Plan(fr.fn, path, taken, n, out, lev)
  /\ k \in 1 .. Len(path) + 1 /\ Len(fr.rest) = Len(path) + 1 - k
  /\ \A i \in 1 .. Len(fr.rest) : fr.rest[i] = path[k + i - 1]
  /\ Len(fr.held) = n[k] /\ out[k] \subseteq 1 .. n[k]
  /\ \A j \in 1 .. n[k] : fr.held[j] = IF j \in out[k] THEN taken[j] ELSE "given"
  /\ load = [p \in Pools |-> lev[p][k]]

OnPlan(fr, load) ==
  \E path, taken, n, out, lev, k : Point(fr, load, path, taken, n, out, lev, k)

LEMMA OneChanged ==
  ASSUME NEW load \in [Pools -> Nat], NEW next \in [Pools -> Nat], NEW p \in Pools,
         \A q \in Pools : q # p => next[q] = load[q], NEW amount, next[p] = amount
  PROVE  [load EXCEPT ![p] = amount] = next
  OBVIOUS

LEMMA BodyType ==
  ASSUME NEW f \in Functions, NEW path \in Body(f)
  PROVE  [fn |-> f, rest |-> path, held |-> <<>>] \in Frame
  BY BodyPlan DEF Planned, Plan, Frame

LEMMA EnterOnPlan ==
  ASSUME NEW f \in Functions, NEW path \in Body(f)
  PROVE  OnPlan([fn |-> f, rest |-> path, held |-> <<>>], Nothing)
  <1>1. PICK taken, n, out, lev : Plan(f, path, taken, n, out, lev)
    BY BodyPlan DEF Planned
  <1> DEFINE fr == [fn |-> f, rest |-> path, held |-> <<>>]
  <1>2. fr.fn = f /\ fr.rest = path /\ Len(fr.held) = 0
    OBVIOUS
  <1>3. path \in Seq(Op) /\ n[1] = 0 /\ out[1] = {} /\ \A p \in Pools : lev[p][1] = 0
    BY <1>1 DEF Plan, Starts
  <1>4. /\ 1 \in 1 .. Len(path) + 1 /\ Len(fr.rest) = Len(path) + 1 - 1
        /\ \A i \in 1 .. Len(fr.rest) : fr.rest[i] = path[1 + i - 1]
    BY <1>2, <1>3
  <1>5. Nothing = [p \in Pools |-> lev[p][1]]
    BY <1>3 DEF Nothing
  <1> HIDE DEF fr
  <1>6. Point(fr, Nothing, path, taken, n, out, lev, 1)
    BY <1>1, <1>2, <1>3, <1>4, <1>5 DEF Point
  <1> QED
    BY <1>6 DEF OnPlan, fr

\* fr when it has done its operation and holds the blocks in held.
Done(fr, held) == [fr EXCEPT !.rest = Tail(@), !.held = held]

LEMMA DoneFacts ==
  ASSUME NEW fr \in Frame, fr.rest # <<>>, NEW held \in Seq(Slots)
  PROVE  /\ Done(fr, held) \in Frame /\ Done(fr, held).fn = fr.fn
         /\ Done(fr, held).held = held /\ Done(fr, held).rest = Tail(fr.rest)
         /\ Head(fr.rest) = fr.rest[1] /\ Head(fr.rest) \in Op
         /\ Len(fr.rest) \in Nat \ {0} /\ Len(Tail(fr.rest)) = Len(fr.rest) - 1
         /\ \A i \in 1 .. Len(fr.rest) - 1 : Tail(fr.rest)[i] = fr.rest[i + 1]
  <1>1. fr.rest \in Seq(Op) /\ Tail(fr.rest) \in Seq(Op)
    BY DEF Frame
  <1>2. /\ Head(fr.rest) = fr.rest[1] /\ Head(fr.rest) \in Op
        /\ Len(fr.rest) \in Nat \ {0} /\ Len(Tail(fr.rest)) = Len(fr.rest) - 1
        /\ \A i \in 1 .. Len(fr.rest) - 1 : Tail(fr.rest)[i] = fr.rest[i + 1]
    BY <1>1
  <1>3. /\ Done(fr, held) \in Frame /\ Done(fr, held).fn = fr.fn
        /\ Done(fr, held).held = held /\ Done(fr, held).rest = Tail(fr.rest)
    BY <1>1 DEF Done, Frame
  <1> QED
    BY <1>2, <1>3

\* What the next operation of a call does to what it holds.
LEMMA OpOnPlan ==
  ASSUME NEW fr \in Frame, NEW load, OnPlan(fr, load), fr.rest # <<>>,
         NEW op, NEW arg, op = Head(fr.rest)[1], arg = Head(fr.rest)[2]
  PROVE  /\ op = "take" =>
              /\ arg \in Pools /\ load[arg] + 1 =< Need(fr.fn)[arg]
              /\ OnPlan(Done(fr, Append(fr.held, arg)), [load EXCEPT ![arg] = @ + 1])
         /\ op = "give" =>
              /\ arg \in DOMAIN fr.held /\ fr.held[arg] \in Pools
              /\ OnPlan(Done(fr, [fr.held EXCEPT ![arg] = "given"]),
                        [load EXCEPT ![fr.held[arg]] = @ - 1])
         /\ op \in {"keep", "call", "loop"} => OnPlan(Done(fr, fr.held), load)
         /\ op = "keep" => arg \in Pools
         /\ op \in {"call", "loop"} =>
              arg \in Functions /\ \A p \in Pools : load[p] + Need(arg)[p] =< Need(fr.fn)[p]
  <1>1. PICK path, taken, n, out, lev, k :
          /\ Plan(fr.fn, path, taken, n, out, lev)
          /\ k \in 1 .. Len(path) + 1 /\ Len(fr.rest) = Len(path) + 1 - k
          /\ \A i \in 1 .. Len(fr.rest) : fr.rest[i] = path[k + i - 1]
          /\ Len(fr.held) = n[k] /\ out[k] \subseteq 1 .. n[k]
          /\ \A j \in 1 .. n[k] : fr.held[j] = IF j \in out[k] THEN taken[j] ELSE "given"
          /\ load = [p \in Pools |-> lev[p][k]]
    BY DEF OnPlan, Point
  <1>2. /\ fr.held \in Seq(Slots) /\ fr.rest \in Seq(Op) /\ fr.fn \in Functions
        /\ n[k] \in Nat /\ DOMAIN fr.held = 1 .. n[k]
    BY <1>1 DEF Frame
  <1>3. Len(path) \in Nat /\ path \in Seq(Op)
    BY <1>1 DEF Plan
  <1>4. k \in 1 .. Len(path) /\ path[k] = Head(fr.rest) /\ k + 1 \in 1 .. Len(path) + 1
    <2>1. Len(fr.rest) \in Nat \ {0} /\ Head(fr.rest) = fr.rest[1]
      BY <1>2
    <2>2. 1 \in 1 .. Len(fr.rest) /\ k \in 1 .. Len(path) /\ k + 1 - 1 = k
      BY <1>1, <1>3, <2>1
    <2>3. fr.rest[1] = path[k + 1 - 1]
      BY <1>1, <2>2
    <2> QED
      BY <1>3, <2>1, <2>2, <2>3
  <1>5. Follows(fr.fn, path, taken, n, out, lev, k)
    BY <1>1, <1>4 DEF Plan
  <1>6. \A p \in Pools : load[p] = lev[p][k] /\ lev[p][k] \in Nat /\ lev[p][k + 1] \in Nat
    BY <1>1, <1>2, <1>3, <1>4, NeedType DEF Plan, Bounded
  \* The state behind the operation, if held and out fit together.
  <1>7. ASSUME NEW held \in Seq(Slots), Len(held) = n[k + 1], out[k + 1] \subseteq 1 .. n[k + 1],
               \A j \in 1 .. n[k + 1] : held[j] = IF j \in out[k + 1] THEN taken[j] ELSE "given"
        PROVE  OnPlan(Done(fr, held), [p \in Pools |-> lev[p][k + 1]])
    <2> DEFINE g == Done(fr, held)
    <2>0. /\ g.fn = fr.fn /\ g.held = held /\ g.rest = Tail(fr.rest)
          /\ Len(fr.rest) \in Nat \ {0} /\ Len(Tail(fr.rest)) = Len(fr.rest) - 1
          /\ \A i \in 1 .. Len(fr.rest) - 1 : Tail(fr.rest)[i] = fr.rest[i + 1]
      BY DoneFacts
    <2> HIDE DEF g
    <2>1. /\ g.fn = fr.fn /\ g.held = held /\ g.rest = Tail(fr.rest)
          /\ Len(fr.rest) \in Nat \ {0} /\ Len(g.rest) = Len(fr.rest) - 1
          /\ \A i \in 1 .. Len(fr.rest) - 1 : g.rest[i] = fr.rest[i + 1]
      BY <2>0
    <2>2. Len(g.rest) = Len(path) + 1 - (k + 1)
      BY <1>1, <1>3, <1>4, <2>1
    <2>3. \A i \in 1 .. Len(g.rest) : g.rest[i] = path[(k + 1) + i - 1]
      <3> TAKE i \in 1 .. Len(g.rest)
      <3>1. i \in 1 .. Len(fr.rest) - 1 /\ i + 1 \in 1 .. Len(fr.rest)
        BY <2>1
      <3>2. g.rest[i] = fr.rest[i + 1] /\ fr.rest[i + 1] = path[k + (i + 1) - 1]
        BY <1>1, <2>1, <3>1
      <3>3. k + (i + 1) - 1 = (k + 1) + i - 1
        BY <1>4
      <3> QED
        BY <3>2, <3>3
    <2>4. Point(g, [p \in Pools |-> lev[p][k + 1]], path, taken, n, out, lev, k + 1)
      BY <1>1, <1>4, <1>7, <2>1, <2>2, <2>3 DEF Point
    <2> QED
      BY <2>4 DEF OnPlan, g
  <1>8. ASSUME op = "take"
        PROVE  /\ arg \in Pools /\ load[arg] + 1 =< Need(fr.fn)[arg]
               /\ OnPlan(Done(fr, Append(fr.held, arg)), [load EXCEPT ![arg] = @ + 1])
    <2>1. /\ arg \in Pools /\ n[k + 1] = n[k] + 1 /\ taken[n[k] + 1] = arg
          /\ out[k + 1] = out[k] \cup {n[k] + 1}
          /\ \A p \in Pools : /\ lev[p][k + 1] = lev[p][k] + One(p = arg)
                              /\ lev[p][k + 1] =< Need(fr.fn)[p]
      BY <1>4, <1>5, <1>8 DEF Follows
    <2>2. [load EXCEPT ![arg] = @ + 1] = [p \in Pools |-> lev[p][k + 1]]
      <3> DEFINE next == [p \in Pools |-> lev[p][k + 1]]
      <3>1. load \in [Pools -> Nat] /\ next \in [Pools -> Nat]
        BY <1>1, <1>6
      <3>2. next[arg] = load[arg] + 1 /\ \A q \in Pools : q # arg => next[q] = load[q]
        BY <1>6, <2>1 DEF One
      <3> QED
        BY <2>1, <3>1, <3>2, OneChanged
    <2> DEFINE held == Append(fr.held, arg)
    <2>3. held \in Seq(Slots) /\ Len(held) = n[k + 1]
      BY <1>1, <1>2, <2>1 DEF Slots
    <2>4. \A j \in 1 .. n[k + 1] : held[j] = IF j \in out[k + 1] THEN taken[j] ELSE "given"
      <3>1. ASSUME NEW j \in 1 .. n[k] PROVE held[j] = fr.held[j] /\ j # n[k] + 1
        BY <1>1, <1>2
      <3>2. held[n[k] + 1] = arg
        BY <1>1, <1>2
      <3> HIDE DEF held
      <3> QED
        BY <1>1, <1>2, <2>1, <3>1, <3>2
    <2>5. out[k + 1] \subseteq 1 .. n[k + 1]
      BY <1>1, <1>2, <2>1
    <2>6. OnPlan(Done(fr, held), [p \in Pools |-> lev[p][k + 1]])
      <3> HIDE DEF held
      <3> QED
        BY <1>7, <2>3, <2>4, <2>5
    <2> QED
      BY <1>6, <2>1, <2>2, <2>6 DEF One
  <1>9. ASSUME op = "give"
        PROVE  /\ arg \in DOMAIN fr.held /\ fr.held[arg] \in Pools
               /\ OnPlan(Done(fr, [fr.held EXCEPT ![arg] = "given"]),
                         [load EXCEPT ![fr.held[arg]] = @ - 1])
    <2>1. /\ arg \in out[k] /\ taken[arg] \in Pools
          /\ n[k + 1] = n[k] /\ out[k + 1] = out[k] \ {arg}
          /\ \A p \in Pools : lev[p][k + 1] = lev[p][k] - One(p = taken[arg])
      BY <1>4, <1>5, <1>9 DEF Follows
    <2>2. arg \in 1 .. n[k] /\ fr.held[arg] = taken[arg]
      BY <1>1, <2>1
    <2>3. [load EXCEPT ![fr.held[arg]] = @ - 1] = [p \in Pools |-> lev[p][k + 1]]
      <3> DEFINE next == [p \in Pools |-> lev[p][k + 1]]
      <3>1. load \in [Pools -> Nat] /\ next \in [Pools -> Nat]
        BY <1>1, <1>6
      <3>2. /\ next[taken[arg]] = load[taken[arg]] - 1
            /\ \A q \in Pools : q # taken[arg] => next[q] = load[q]
        BY <1>6, <2>1 DEF One
      <3> HIDE DEF next
      <3>3. [load EXCEPT ![taken[arg]] = @ - 1] = next
        BY <2>1, <3>1, <3>2, OneChanged
      <3> QED
        BY <2>2, <3>3 DEF next
    <2> DEFINE held == [fr.held EXCEPT ![arg] = "given"]
    <2>4. /\ held \in Seq(Slots) /\ Len(held) = n[k + 1]
          /\ \A j \in 1 .. n[k] : held[j] = IF j = arg THEN "given" ELSE fr.held[j]
      BY <1>1, <1>2, <2>1, <2>2 DEF Slots
    <2> HIDE DEF held
    <2>5. \A j \in 1 .. n[k + 1] : held[j] = IF j \in out[k + 1] THEN taken[j] ELSE "given"
      BY <1>1, <2>1, <2>4
    <2>6. OnPlan(Done(fr, held), [p \in Pools |-> lev[p][k + 1]])
      BY <1>1, <1>7, <2>1, <2>4, <2>5
    <2> QED
      BY <1>2, <2>1, <2>2, <2>3, <2>6 DEF held
  <1>10. ASSUME op \in {"keep", "call", "loop"}
         PROVE  /\ OnPlan(Done(fr, fr.held), load)
                /\ op = "keep" => arg \in Pools
                /\ op # "keep" =>
                     arg \in Functions /\ \A p \in Pools : load[p] + Need(arg)[p] =< Need(fr.fn)[p]
    <2>1. /\ n[k + 1] = n[k] /\ out[k + 1] = out[k]
          /\ \A p \in Pools : lev[p][k + 1] = lev[p][k]
      BY <1>4, <1>5, <1>10 DEF Follows
    <2>2. load = [p \in Pools |-> lev[p][k + 1]]
      BY <1>1, <2>1
    <2>3. /\ op = "keep" => arg \in Pools
          /\ op # "keep" =>
               arg \in Functions /\ \A p \in Pools : lev[p][k] + Need(arg)[p] =< Need(fr.fn)[p]
      BY <1>4, <1>5, <1>10 DEF Follows
    <2>4. OnPlan(Done(fr, fr.held), load)
      BY <1>1, <1>2, <1>7, <2>1, <2>2
    <2> QED
      BY <1>6, <2>3, <2>4
  <1> QED
    BY <1>8, <1>9, <1>10

\* A call holds no more than it needs, and at the end nothing, or what is lost.
LEMMA LoadOnPlan ==
  ASSUME NEW fr \in Frame, NEW load, OnPlan(fr, load)
  PROVE  /\ load \in [Pools -> Nat] /\ \A p \in Pools : load[p] =< Need(fr.fn)[p]
         /\ fr.rest = <<>> /\ fr.fn \notin Leaking => \A p \in Pools : load[p] = 0
         /\ fr.rest = <<>> /\ fr.fn \in Leaking =>
              \A p \in Pools : load[p] =< Cardinality({j \in DOMAIN fr.held : fr.held[j] # "given"})
  <1>1. PICK path, taken, n, out, lev, k :
          /\ Plan(fr.fn, path, taken, n, out, lev)
          /\ k \in 1 .. Len(path) + 1 /\ Len(fr.rest) = Len(path) + 1 - k
          /\ \A i \in 1 .. Len(fr.rest) : fr.rest[i] = path[k + i - 1]
          /\ Len(fr.held) = n[k] /\ out[k] \subseteq 1 .. n[k]
          /\ \A j \in 1 .. n[k] : fr.held[j] = IF j \in out[k] THEN taken[j] ELSE "given"
          /\ load = [p \in Pools |-> lev[p][k]]
    BY DEF OnPlan, Point
  <1>2. /\ fr.held \in Seq(Slots) /\ fr.rest \in Seq(Op) /\ fr.fn \in Functions
        /\ n[k] \in Nat /\ DOMAIN fr.held = 1 .. n[k] /\ Len(path) \in Nat
    BY <1>1 DEF Frame, Plan
  <1>3. \A p \in Pools : load[p] = lev[p][k] /\ lev[p][k] \in 0 .. Need(fr.fn)[p]
    BY <1>1 DEF Plan, Bounded
  <1>4. load \in [Pools -> Nat] /\ \A p \in Pools : load[p] =< Need(fr.fn)[p]
    BY <1>1, <1>2, <1>3, NeedType
  <1>5. ASSUME fr.rest = <<>>
        PROVE  /\ fr.fn \notin Leaking => \A p \in Pools : load[p] = 0
               /\ fr.fn \in Leaking =>
                    \A p \in Pools :
                      load[p] =< Cardinality({j \in DOMAIN fr.held : fr.held[j] # "given"})
    <2>1. k = Len(path) + 1
      BY <1>1, <1>2, <1>5
    <2>2. Ends(fr.fn, taken, n, out, lev, k)
      BY <1>1, <2>1 DEF Plan
    <2>3. {j \in DOMAIN fr.held : fr.held[j] # "given"} = out[k]
      BY <1>1, <1>2, <2>2 DEF Ends, Pools
    <2> QED
      BY <1>3, <2>2, <2>3 DEF Ends
  <1> QED
    BY <1>4, <1>5

(***************************************************************************)
(* The calls in progress, counted from the outermost: what is under a call *)
(* and what the call needs fit below its limit.                            *)
(***************************************************************************)

Depth(s, d) == s[Len(s) + 1 - d]

Handler(s, h, d) == \E e \in 1 .. d : Depth(s, e).fn = h

Handlers == {"UART1_Handler", "UART0_Handler"}

\* What the deepest main loop call needs, and each handler that has interrupted it.
Total(one, zero, p) ==
  Need("core_process_wifi_data")[p]
    + (IF one THEN Need("UART1_Handler")[p] ELSE 0)
    + (IF zero THEN Need("UART0_Handler")[p] ELSE 0)

Limit(s, d, p) == Total(Handler(s, "UART1_Handler", d), Handler(s, "UART0_Handler", d), p)

\* below[d] is what the d outermost calls hold.
Loaded(s, below) ==
  /\ below \in [Nat -> [Pools -> Nat]] /\ below[0] = Nothing
  /\ \A d \in 1 .. Len(s) :
       /\ OnPlan(Depth(s, d), [p \in Pools |-> below[d][p] - below[d - 1][p]])
       /\ \A p \in Pools : below[d - 1][p] + Need(Depth(s, d).fn)[p] =< Limit(s, d, p)

Holding(s, sum) == \E below : Loaded(s, below) /\ below[Len(s)] = sum

\* A call on top of s, and its limit.
LEMMA OnTop ==
  ASSUME NEW s \in Seq(Frame), NEW fr \in Frame
  PROVE  LET t == <<fr>> \o s
         IN /\ t \in Seq(Frame) /\ Len(t) = Len(s) + 1 /\ Depth(t, Len(s) + 1) = fr
            /\ \A d \in 1 .. Len(s) : Depth(t, d) = Depth(s, d)
  <1> DEFINE t == <<fr>> \o s
  <1>1. /\ t \in Seq(Frame) /\ Len(t) = Len(s) + 1 /\ t[1] = fr /\ Len(s) \in Nat
        /\ \A i \in 1 .. Len(s) : t[i + 1] = s[i]
    OBVIOUS
  <1> HIDE DEF t
  <1>2. Depth(t, Len(s) + 1) = fr
    BY <1>1 DEF Depth
  <1>3. ASSUME NEW d \in 1 .. Len(s) PROVE Depth(t, d) = Depth(s, d)
    <2>1. Len(s) + 1 - d \in 1 .. Len(s) /\ Len(t) + 1 - d = (Len(s) + 1 - d) + 1
      BY <1>1
    <2> QED
      BY <1>1, <2>1 DEF Depth
  <1> QED
    BY <1>1, <1>2, <1>3 DEF t

LEMMA LimitOnTop ==
  ASSUME NEW s \in Seq(Frame), NEW fr \in Frame
  PROVE  LET t == <<fr>> \o s
         IN /\ \A d \in 1 .. Len(s) : \A p : Limit(t, d, p) = Limit(s, d, p)
            /\ \A p : Limit(t, Len(s) + 1, p)
                        = Total(fr.fn = "UART1_Handler" \/ Handler(s, "UART1_Handler", Len(s)),
                                fr.fn = "UART0_Handler" \/ Handler(s, "UART0_Handler", Len(s)), p)
  <1> DEFINE t == <<fr>> \o s
  <1>1. /\ Depth(t, Len(s) + 1) = fr /\ Len(s) \in Nat
        /\ \A d \in 1 .. Len(s) : Depth(t, d) = Depth(s, d)
    BY OnTop
  <1> HIDE DEF t
  <1>2. ASSUME NEW d \in 1 .. Len(s), NEW h PROVE Handler(t, h, d) <=> Handler(s, h, d)
    <2>1. \A e \in 1 .. d : e \in 1 .. Len(s)
      BY <1>1
    <2> QED
      BY <1>1, <2>1 DEF Handler
  <1>3. ASSUME NEW h
        PROVE  Handler(t, h, Len(s) + 1) <=> fr.fn = h \/ Handler(s, h, Len(s))
    <2>1. 1 .. Len(s) + 1 = (1 .. Len(s)) \cup {Len(s) + 1}
      BY <1>1
    <2> QED
      BY <1>1, <2>1 DEF Handler
  <1>4. \A d \in 1 .. Len(s) : \A p : Limit(t, d, p) = Limit(s, d, p)
    BY <1>2 DEF Limit, Total
  <1>5. \A p : Limit(t, Len(s) + 1, p)
                 = Total(fr.fn = "UART1_Handler" \/ Handler(s, "UART1_Handler", Len(s)),
                         fr.fn = "UART0_Handler" \/ Handler(s, "UART0_Handler", Len(s)), p)
    BY <1>3 DEF Limit, Total
  <1> QED
    BY <1>4, <1>5 DEF t

LEMMA NotEmpty ==
  ASSUME NEW s \in Seq(Frame), s # <<>>
  PROVE  /\ s[1] \in Frame /\ Tail(s) \in Seq(Frame) /\ s = <<s[1]>> \o Tail(s)
         /\ Len(s) = Len(Tail(s)) + 1
  OBVIOUS

LEMMA LimitType ==
  ASSUME NEW s, NEW d, NEW p \in Pools
  PROVE  Limit(s, d, p) \in Nat
  BY NeedType DEF Limit, Total, Functions

\* A call that holds load and whose need fits can be put on top.
LEMMA Onto ==
  ASSUME NEW s \in Seq(Frame), NEW sum, Holding(s, sum), NEW fr \in Frame,
         NEW load, OnPlan(fr, load),
         \A p \in Pools : sum[p] + Need(fr.fn)[p] =< Limit(<<fr>> \o s, Len(s) + 1, p)
  PROVE  Holding(<<fr>> \o s, [p \in Pools |-> sum[p] + load[p]])
  <1>1. PICK below : Loaded(s, below) /\ below[Len(s)] = sum
    BY DEF Holding
  <1> DEFINE t    == <<fr>> \o s
             more == [p \in Pools |-> sum[p] + load[p]]
             upto == [below EXCEPT ![Len(s) + 1] = more]
  <1>2. below \in [Nat -> [Pools -> Nat]] /\ Len(s) \in Nat /\ load \in [Pools -> Nat]
    BY <1>1, LoadOnPlan DEF Loaded
  <1>3. more \in [Pools -> Nat]
    BY <1>1, <1>2
  <1>4. /\ upto \in [Nat -> [Pools -> Nat]] /\ upto[Len(s) + 1] = more
        /\ \A d \in 0 .. Len(s) : upto[d] = below[d]
    BY <1>2, <1>3
  <1>5. /\ Len(t) = Len(s) + 1 /\ Depth(t, Len(s) + 1) = fr
        /\ \A d \in 1 .. Len(s) : Depth(t, d) = Depth(s, d)
    BY OnTop
  <1>6. \A d \in 1 .. Len(s), p \in Pools : Limit(t, d, p) = Limit(s, d, p)
    BY LimitOnTop
  <1>7. \A p \in Pools : sum[p] + Need(fr.fn)[p] =< Limit(t, Len(s) + 1, p)
    OBVIOUS
  <1> HIDE DEF t, upto
  <1>8. ASSUME NEW d \in 1 .. Len(s)
        PROVE  /\ OnPlan(Depth(t, d), [p \in Pools |-> upto[d][p] - upto[d - 1][p]])
               /\ \A p \in Pools : upto[d - 1][p] + Need(Depth(t, d).fn)[p] =< Limit(t, d, p)
    <2>1. d \in 0 .. Len(s) /\ d - 1 \in 0 .. Len(s)
      BY <1>2
    <2>2. upto[d] = below[d] /\ upto[d - 1] = below[d - 1] /\ Depth(t, d) = Depth(s, d)
      BY <1>4, <1>5, <2>1
    <2> QED
      BY <1>1, <1>6, <2>2 DEF Loaded
  <1>9. [p \in Pools |-> upto[Len(s) + 1][p] - upto[(Len(s) + 1) - 1][p]] = load
    <2>1. upto[(Len(s) + 1) - 1] = sum
      <3>1. (Len(s) + 1) - 1 = Len(s) /\ Len(s) \in 0 .. Len(s)
        BY <1>2
      <3> QED
        BY <1>1, <1>4, <3>1
    <2>2. sum \in [Pools -> Nat]
      BY <1>1, <1>2
    <2> QED
      BY <1>2, <1>4, <2>1, <2>2
  <1>10. Loaded(t, upto)
    <2>1. upto[0] = Nothing /\ upto[(Len(s) + 1) - 1] = sum
      <3>1. (Len(s) + 1) - 1 = Len(s) /\ Len(s) \in 0 .. Len(s) /\ 0 \in 0 .. Len(s)
        BY <1>2
      <3> QED
        BY <1>1, <1>4, <3>1 DEF Loaded
    <2>2. \A d \in 1 .. Len(t) : d \in 1 .. Len(s) \/ d = Len(s) + 1
      BY <1>2, <1>5
    <2> QED
      BY <1>4, <1>5, <1>7, <1>8, <1>9, <2>1, <2>2 DEF Loaded
  <1> QED
    BY <1>4, <1>5, <1>10 DEF Holding, t

\* The call on top, and what is under it.
LEMMA Under ==
  ASSUME NEW s \in Seq(Frame), NEW fr \in Frame, NEW sum, Holding(<<fr>> \o s, sum)
  PROVE  \E low, load :
           /\ Holding(s, low) /\ OnPlan(fr, load) /\ low \in [Pools -> Nat]
           /\ sum = [p \in Pools |-> low[p] + load[p]]
           /\ \A p \in Pools : low[p] + Need(fr.fn)[p] =< Limit(<<fr>> \o s, Len(s) + 1, p)
  <1> DEFINE t == <<fr>> \o s
  <1>1. PICK below : Loaded(t, below) /\ below[Len(t)] = sum
    BY DEF Holding
  <1>2. /\ Len(t) = Len(s) + 1 /\ Depth(t, Len(s) + 1) = fr /\ Len(s) \in Nat
        /\ \A d \in 1 .. Len(s) : Depth(t, d) = Depth(s, d)
    BY OnTop
  <1>3. \A d \in 1 .. Len(s), p \in Pools : Limit(t, d, p) = Limit(s, d, p)
    BY LimitOnTop
  <1> HIDE DEF t
  <1> DEFINE low  == below[Len(s)]
             load == [p \in Pools |-> below[Len(s) + 1][p] - below[Len(s)][p]]
  <1>4. low \in [Pools -> Nat] /\ sum \in [Pools -> Nat] /\ below[Len(s) + 1] = sum
    BY <1>1, <1>2 DEF Loaded
  <1>5. (Len(s) + 1) - 1 = Len(s) /\ Len(s) + 1 \in 1 .. Len(t)
    BY <1>2
  <1>6. OnPlan(fr, load) /\ \A p \in Pools : low[p] + Need(fr.fn)[p] =< Limit(t, Len(s) + 1, p)
    BY <1>1, <1>2, <1>5 DEF Loaded
  <1>7. sum = [p \in Pools |-> low[p] + load[p]]
    BY <1>4
  <1>8. Loaded(s, below)
    <2>1. \A d \in 1 .. Len(s) : d \in 1 .. Len(t)
      BY <1>2
    <2> QED
      BY <1>1, <1>2, <1>3, <2>1 DEF Loaded
  <1>9. Holding(s, low)
    BY <1>8 DEF Holding
  <1> HIDE DEF low, load
  <1> QED
    BY <1>4, <1>6, <1>7, <1>9 DEF t

\* What is held stays below the limit.
LEMMA Below ==
  ASSUME NEW s \in Seq(Frame), NEW sum, Holding(s, sum)
  PROVE  sum \in [Pools -> Nat] /\ \A p \in Pools : sum[p] =< Limit(s, Len(s), p)
  <1>1. CASE s = <<>>
    <2>1. Len(s) = 0 /\ sum = Nothing
      BY <1>1 DEF Holding, Loaded
    <2> QED
      BY <2>1, LimitType DEF Nothing
  <1>2. CASE s # <<>>
    <2>1. PICK fr \in Frame, t \in Seq(Frame) : s = <<fr>> \o t /\ Len(s) = Len(t) + 1
      BY <1>2, NotEmpty
    <2>2. PICK low, load :
            /\ OnPlan(fr, load) /\ low \in [Pools -> Nat]
            /\ sum = [p \in Pools |-> low[p] + load[p]]
            /\ \A p \in Pools : low[p] + Need(fr.fn)[p] =< Limit(s, Len(s), p)
      BY <2>1, Under
    <2>3. load \in [Pools -> Nat] /\ \A p \in Pools : load[p] =< Need(fr.fn)[p]
      BY <2>2, LoadOnPlan
    <2>4. \A p \in Pools : Need(fr.fn)[p] \in Nat /\ Limit(s, Len(s), p) \in Nat
      BY NeedType, LimitType DEF Frame
    <2> QED
      BY <2>2, <2>3, <2>4
  <1> QED
    BY <1>1, <1>2

(***************************************************************************)
(* The invariant: until Reserve blocks are lost, each pool has free what   *)
(* is not held by a call, kept, lost or the command buffer.                *)
(***************************************************************************)

Own(p) == IF p = "MD" THEN 1 ELSE 0

In(k, p) == IF p \in k THEN 1 ELSE 0

Covered(f, k, sum, l) == \A p \in Pools : f[p] >= N[p] - Own(p) - In(k, p) - sum[p] - l

Charged == \E sum : Holding(stack, sum) /\ Covered(free, kept, sum, lost)

HTypes ==
  /\ stack \in Seq(Frame) /\ free \in [Pools -> Int] /\ kept \subseteq Pools
  /\ panicked \in BOOLEAN /\ lost \in Nat

HInv ==
  /\ HTypes
  /\ panicked => lost >= Reserve
  /\ lost < Reserve => Charged

\* The most that calls hold together: the deepest main loop call with both
\* handlers on top of it.
Most(p) == Total(TRUE, TRUE, p)

\* One block more than the deepest calls with both handlers on top of them hold.
Sizes == N_MD_BUF >= 13 + Reserve /\ N_LG_BUF >= 2 + Reserve /\ N_XL_BUF >= 1 + Reserve

LEMMA NType == N \in [Pools -> Nat]
  BY HeapAssumption DEF N, Pools

LEMMA InitHInv == Init => HInv
  <1> SUFFICES ASSUME Init PROVE HInv
    OBVIOUS
  <1>1. HTypes /\ panicked = FALSE
    <2>1. "MD" \in Pools /\ N["MD"] - 1 \in Int /\ <<>> \in Seq(Frame)
      BY NType DEF Pools
    <2>2. free \in [Pools -> Int]
      BY NType, <2>1 DEF Init
    <2>3. stack \in Seq(Frame) /\ lost \in Nat /\ kept \subseteq Pools /\ panicked = FALSE
      BY <2>1 DEF Init
    <2> QED
      BY <2>2, <2>3 DEF HTypes
  <1> DEFINE below == [d \in Nat |-> Nothing]
  <1>2. Len(stack) = 0 /\ below \in [Nat -> [Pools -> Nat]] /\ below[0] = Nothing
    BY DEF Init, Nothing
  <1> HIDE DEF below
  <1>3. Holding(stack, Nothing)
    <2>1. Loaded(stack, below)
      BY <1>2 DEF Loaded
    <2> QED
      BY <1>2, <2>1 DEF Holding
  <1>4. Covered(free, kept, Nothing, lost)
    BY NType DEF Covered, Init, Nothing, Own, In, Pools
  <1> QED
    BY <1>1, <1>3, <1>4 DEF HInv, Charged

\* The next operation of the innermost call.
LEMMA TopOp ==
  ASSUME HTypes, stack # <<>>
  PROVE  /\ Top \in Frame /\ Tail(stack) \in Seq(Frame) /\ stack = <<Top>> \o Tail(stack)
         /\ Len(stack) = Len(Tail(stack)) + 1
         /\ \A held \in Seq(Slots) : After(held) = <<Done(Top, held)>> \o Tail(stack)
  BY NotEmpty DEF HTypes, Top, After, Done

LEMMA ArgType ==
  ASSUME NEW op, At(op), HTypes
  PROVE  /\ op \in {"take", "keep"} => Arg \in Pools
         /\ op = "give" => Arg \in Nat
         /\ op \in {"call", "loop"} => Arg \in Functions
         /\ \A held \in Seq(Slots) : After(held) \in Seq(Frame)
  <1>1. stack # <<>> /\ Top.rest # <<>>
    BY DEF At
  <1>2. Top \in Frame /\ Tail(stack) \in Seq(Frame)
    BY <1>1, TopOp
  <1>3. Head(Top.rest) \in Op /\ Head(Top.rest)[1] = op /\ Head(Top.rest)[2] = Arg
    BY <1>1, <1>2 DEF At, Arg, Frame
  <1>4. \A held \in Seq(Slots) : After(held) \in Seq(Frame)
    <2> TAKE held \in Seq(Slots)
    <2>1. Done(Top, held) \in Frame
      BY <1>1, <1>2, DoneFacts
    <2>2. After(held) = <<Done(Top, held)>> \o Tail(stack)
      BY <1>1, TopOp
    <2> QED
      BY <1>2, <2>1, <2>2
  <1> QED
    BY <1>3, <1>4 DEF Op

LEMMA SlotChanged ==
  ASSUME NEW held \in Seq(Slots), NEW i, NEW x \in Slots
  PROVE  [held EXCEPT ![i] = x] \in Seq(Slots)
  <1>1. held \in [1 .. Len(held) -> Slots] /\ Len(held) \in Nat
    OBVIOUS
  <1>2. [held EXCEPT ![i] = x] \in [1 .. Len(held) -> Slots]
    BY <1>1
  <1> QED
    BY <1>1, <1>2

LEMMA HeldNat ==
  ASSUME NEW held \in Seq(Slots)
  PROVE  Cardinality({k \in DOMAIN held : held[k] # "given"}) \in Nat
  <1> DEFINE L == {k \in DOMAIN held : held[k] # "given"}
  <1>1. L \subseteq 1 .. Len(held) /\ Len(held) \in Int
    OBVIOUS
  <1> HIDE DEF L
  <1>2. IsFiniteSet(1 .. Len(held))
    BY <1>1, FS_Interval
  <1>3. IsFiniteSet(L)
    BY <1>1, <1>2, FS_Subset
  <1>4. Cardinality(L) \in Nat
    BY <1>3, FS_CardinalityType
  <1> QED
    BY <1>4 DEF L

\* Every step keeps to the types.
LEMMA NextHTypes == HTypes /\ [Next]_vars => HTypes'
  <1> SUFFICES ASSUME HTypes, [Next]_vars PROVE HTypes'
    OBVIOUS
  <1>0. stack # <<>> => Top.held \in Seq(Slots) /\ Top.fn \in Functions /\ Tail(stack) \in Seq(Frame)
    BY TopOp DEF Frame
  <1>1. ASSUME NEW f \in Functions, NEW below \in Seq(Frame), Enter(f, below)
        PROVE  stack' \in Seq(Frame)
    <2>1. PICK path \in Body(f) : stack' = <<[fn |-> f, rest |-> path, held |-> <<>>]>> \o below
      BY <1>1 DEF Enter
    <2>2. [fn |-> f, rest |-> path, held |-> <<>>] \in Frame
      BY BodyType
    <2> QED
      BY <2>1, <2>2
  <1>2. CASE Take
    <2>1. PICK q \in Pools : free' = [free EXCEPT ![q] = @ - 1] /\ stack' = After(Append(Top.held, q))
      BY <1>2 DEF Take
    <2>2. Append(Top.held, q) \in Seq(Slots)
      BY <1>0, <1>2 DEF Take, At, Slots
    <2>3. stack' \in Seq(Frame)
      BY <1>2, <2>1, <2>2, ArgType DEF Take
    <2> QED
      BY <1>2, <2>1, <2>3 DEF Take, HTypes
  <1>3. CASE Panic
    BY <1>3 DEF Panic, HTypes
  <1>4. CASE Keep
    <2>1. stack' \in Seq(Frame) /\ Arg \in Pools
      BY <1>0, <1>4, ArgType DEF Keep, At
    <2> QED
      BY <1>4, <2>1 DEF Keep, HTypes
  <1>5. CASE Give
    <2>1. [Top.held EXCEPT ![Arg] = "given"] \in Seq(Slots)
      <3>1. Top.held \in Seq(Slots) /\ "given" \in Slots
        BY <1>0, <1>5 DEF Give, At, Slots
      <3> QED
        BY <3>1, SlotChanged
    <2>2. stack' \in Seq(Frame)
      BY <1>5, <2>1, ArgType DEF Give
    <2>3. free' \in [Pools -> Int]
      <3> DEFINE q == Top.held[Arg]
      <3>1. free \in [Pools -> Int] /\ free' = [free EXCEPT ![q] = @ + 1]
        BY <1>5 DEF Give, HTypes
      <3> HIDE DEF q
      <3>2. CASE q \in Pools
        BY <3>1, <3>2
      <3>3. CASE q \notin Pools
        BY <3>1, <3>3
      <3> QED
        BY <3>2, <3>3
    <2> QED
      BY <1>5, <2>2, <2>3 DEF Give, HTypes
  <1>6. CASE Call
    <2>1. Arg \in Functions /\ After(Top.held) \in Seq(Frame) /\ Enter(Arg, After(Top.held))
      BY <1>0, <1>6, ArgType DEF Call, At
    <2>2. stack' \in Seq(Frame)
      BY <1>1, <2>1
    <2> QED
      BY <1>6, <2>2 DEF Call, HTypes
  <1>7. CASE Loop
    <2>1. Arg \in Functions /\ After(Top.held) \in Seq(Frame)
      BY <1>0, <1>7, ArgType DEF Loop, At
    <2>2. stack' \in Seq(Frame)
      BY <1>1, <1>7, <2>1 DEF Loop, HTypes
    <2> QED
      BY <1>7, <2>2 DEF Loop, HTypes
  <1>8. CASE Return
    <2>1. Cardinality({k \in DOMAIN Top.held : Top.held[k] # "given"}) \in Nat
      BY <1>0, <1>8, HeldNat DEF Return
    <2>2. lost' \in Nat
      BY <1>8, <2>1 DEF Return, HTypes
    <2> QED
      BY <1>0, <1>8, <2>2 DEF Return, HTypes
  <1>9. CASE MainLoop
    <2>1. PICK f \in Functions : Enter(f, <<>>)
      BY <1>9 DEF MainLoop, Commands, Functions
    <2>2. stack' \in Seq(Frame)
      <3>1. <<>> \in Seq(Frame)
        OBVIOUS
      <3> QED
        BY <1>1, <2>1, <3>1
    <2> QED
      BY <1>9, <2>2 DEF MainLoop, HTypes
  <1>10. CASE Interrupt
    <2>1. stack' \in Seq(Frame)
      BY <1>1, <1>10 DEF Interrupt, Functions, HTypes
    <2> QED
      BY <1>10, <2>1 DEF Interrupt, HTypes
  <1>11. CASE UNCHANGED vars
    BY <1>11 DEF vars, HTypes
  <1> QED
    BY <1>2, <1>3, <1>4, <1>5, <1>6, <1>7, <1>8, <1>9, <1>10, <1>11 DEF Next

(***************************************************************************)
(* What the invariant says of the innermost call, and what a step makes of *)
(* it.                                                                     *)
(***************************************************************************)

\* The innermost call holds load, and low is held under it.
TopHolds(low, load) ==
  /\ Holding(Tail(stack), low) /\ OnPlan(Top, load)
  /\ low \in [Pools -> Nat] /\ load \in [Pools -> Nat]
  /\ Covered(free, kept, [p \in Pools |-> low[p] + load[p]], lost)
  /\ Holding(stack, [p \in Pools |-> low[p] + load[p]])
  /\ \A p \in Pools : /\ load[p] =< Need(Top.fn)[p]
                      /\ low[p] + Need(Top.fn)[p] =< Limit(stack, Len(stack), p)

LEMMA ChargedTop ==
  ASSUME HTypes, Charged, stack # <<>>
  PROVE  \E low, load : TopHolds(low, load)
  <1>1. PICK sum : Holding(stack, sum) /\ Covered(free, kept, sum, lost)
    BY DEF Charged
  <1>2. /\ Top \in Frame /\ Tail(stack) \in Seq(Frame) /\ stack = <<Top>> \o Tail(stack)
        /\ Len(stack) = Len(Tail(stack)) + 1
    BY TopOp
  <1> DEFINE s == Tail(stack)
             fr == Top
  <1> HIDE DEF s, fr
  <1>3. /\ fr \in Frame /\ s \in Seq(Frame) /\ stack = <<fr>> \o s /\ Len(stack) = Len(s) + 1
        /\ Holding(<<fr>> \o s, sum)
    BY <1>1, <1>2 DEF s, fr
  <1>4. PICK low, load :
          /\ Holding(s, low) /\ OnPlan(fr, load) /\ low \in [Pools -> Nat]
          /\ sum = [p \in Pools |-> low[p] + load[p]]
          /\ \A p \in Pools : low[p] + Need(fr.fn)[p] =< Limit(<<fr>> \o s, Len(s) + 1, p)
    BY <1>3, Under
  <1>5. load \in [Pools -> Nat] /\ \A p \in Pools : load[p] =< Need(fr.fn)[p]
    BY <1>3, <1>4, LoadOnPlan
  <1>6. TopHolds(low, load)
    BY <1>1, <1>3, <1>4, <1>5 DEF TopHolds, s, fr
  <1> QED
    BY <1>6

\* The operation is done, and the call holds more or less.
LEMMA TopDone ==
  ASSUME HTypes, stack # <<>>, Top.rest # <<>>, NEW low, NEW load, TopHolds(low, load),
         NEW held \in Seq(Slots), NEW next, OnPlan(Done(Top, held), next)
  PROVE  /\ Holding(After(held), [p \in Pools |-> low[p] + next[p]])
         /\ After(held) \in Seq(Frame) /\ Len(After(held)) = Len(stack)
         /\ \A p \in Pools : Limit(After(held), Len(stack), p) = Limit(stack, Len(stack), p)
  <1> DEFINE s  == Tail(stack)
             fr == Top
             g  == Done(Top, held)
  <1>1. /\ fr \in Frame /\ s \in Seq(Frame) /\ stack = <<fr>> \o s /\ Len(stack) = Len(s) + 1
        /\ After(held) = <<g>> \o s
    BY TopOp
  <1>2. g \in Frame /\ g.fn = fr.fn
    BY <1>1, DoneFacts
  <1>3. /\ Holding(s, low) /\ OnPlan(g, next)
        /\ \A p \in Pools : low[p] + Need(fr.fn)[p] =< Limit(stack, Len(s) + 1, p)
    BY <1>1 DEF TopHolds
  <1> HIDE DEF s, fr, g
  <1>4. <<g>> \o s \in Seq(Frame) /\ Len(<<g>> \o s) = Len(s) + 1
    BY <1>1, <1>2
  <1>5. \A p \in Pools : Limit(<<g>> \o s, Len(s) + 1, p) = Limit(<<fr>> \o s, Len(s) + 1, p)
    BY <1>1, <1>2, LimitOnTop
  <1>6. \A p \in Pools : low[p] + Need(g.fn)[p] =< Limit(<<g>> \o s, Len(s) + 1, p)
    BY <1>1, <1>2, <1>3, <1>5
  <1>7. Holding(<<g>> \o s, [p \in Pools |-> low[p] + next[p]])
    BY <1>1, <1>2, <1>3, <1>6, Onto
  <1> QED
    BY <1>1, <1>4, <1>5, <1>7

\* A call of f on top of s holds nothing at first.
LEMMA Entered ==
  ASSUME NEW s \in Seq(Frame), NEW sum, Holding(s, sum), NEW f \in Functions, Enter(f, s),
         \A p \in Pools :
           sum[p] + Need(f)[p] =< Total(f = "UART1_Handler" \/ Handler(s, "UART1_Handler", Len(s)),
                                        f = "UART0_Handler" \/ Handler(s, "UART0_Handler", Len(s)), p)
  PROVE  Holding(stack', sum)
  <1>1. PICK path \in Body(f) : stack' = <<[fn |-> f, rest |-> path, held |-> <<>>]>> \o s
    BY DEF Enter
  <1> DEFINE fr == [fn |-> f, rest |-> path, held |-> <<>>]
  <1>2. fr \in Frame /\ OnPlan(fr, Nothing) /\ fr.fn = f
    BY BodyType, EnterOnPlan
  <1> HIDE DEF fr
  <1>3. \A p \in Pools : sum[p] + Need(fr.fn)[p] =< Limit(<<fr>> \o s, Len(s) + 1, p)
    BY <1>2, LimitOnTop
  <1>4. Holding(<<fr>> \o s, [p \in Pools |-> sum[p] + Nothing[p]])
    BY <1>2, <1>3, Onto
  <1>5. [p \in Pools |-> sum[p] + Nothing[p]] = sum
    <2>1. sum \in [Pools -> Nat]
      BY Below
    <2> QED
      BY <2>1 DEF Nothing
  <1> QED
    BY <1>1, <1>4, <1>5 DEF fr

LEMMA LimitGrows ==
  ASSUME NEW s, NEW d, NEW one \in BOOLEAN, NEW zero \in BOOLEAN, NEW p \in Pools,
         Handler(s, "UART1_Handler", d) => one, Handler(s, "UART0_Handler", d) => zero
  PROVE  Limit(s, d, p) =< Total(one, zero, p)
  <1>1. /\ Need("core_process_wifi_data")[p] \in Nat /\ Need("UART1_Handler")[p] \in Nat
        /\ Need("UART0_Handler")[p] \in Nat
    BY NeedType DEF Functions
  <1> QED
    BY <1>1 DEF Limit, Total

\* There is a block in the pool that a call asks first.
LEMMA Room ==
  ASSUME HTypes, HeapAssumption, Sizes, lost < Reserve, NEW sum \in [Pools -> Nat], NEW p \in Pools,
         Covered(free, kept, sum, lost), sum[p] + In(kept, p) =< Most(p)
  PROVE  free[p] >= 1
  <1>1. free[p] \in Int /\ lost \in Nat /\ sum[p] \in Nat /\ In(kept, p) \in {0, 1}
    BY DEF HTypes, In
  <1>2. free[p] >= N[p] - Own(p) - In(kept, p) - sum[p] - lost
    BY DEF Covered
  <1>3. N[p] - Own(p) - Most(p) >= Reserve /\ N[p] \in Nat /\ Own(p) \in {0, 1}
    BY DEF HeapAssumption, Sizes, N, Own, Most, Total, Need, Amount, Pools
  <1>4. Most(p) \in Nat /\ Reserve \in Nat
    BY DEF HeapAssumption, Most, Total, Need, Amount, Pools
  <1> QED
    BY <1>1, <1>2, <1>3, <1>4

LEMMA FirstBlock ==
  ASSUME NEW p \in Pools, NEW q \in Pools, Block(p, q), free[p] >= 1, free \in [Pools -> Int]
  PROVE  q = p
  <1>1. 1 \in DOMAIN Larger[p] /\ Larger[p][1] = p /\ DOMAIN Larger[p] \subseteq {1, 2, 3}
    BY DEF Larger, Pools
  <1> DEFINE fit == {i \in DOMAIN Larger[p] : free[Larger[p][i]] > 0}
  <1>2. 1 \in fit
    BY <1>1
  <1>3. PICK i \in fit : q = Larger[p][i] /\ \A j \in fit : i =< j
    BY DEF Block
  <1>4. i = 1
    BY <1>1, <1>2, <1>3
  <1> QED
    BY <1>1, <1>3, <1>4

(***************************************************************************)
(* Until Reserve blocks are lost, every step keeps to what is charged.     *)
(***************************************************************************)

Safe == HTypes /\ lost < Reserve /\ Charged

LEMMA MostType == \A p \in Pools : Most(p) \in Nat
  BY DEF Most, Total, Need, Amount, Pools

\* A call that asks for a block finds one in the pool it asks first.
LEMMA BlockFree ==
  ASSUME Sizes, Safe, At("take") \/ (At("keep") /\ Arg \notin kept)
  PROVE  Arg \in Pools /\ free[Arg] >= 1
  <1>1. HTypes /\ lost < Reserve /\ Charged
    BY DEF Safe
  <1>2. PICK op \in {"take", "keep"} : At(op) /\ (op = "keep" => Arg \notin kept)
    OBVIOUS
  <1>3. stack # <<>> /\ Top.rest # <<>> /\ op = Head(Top.rest)[1] /\ Arg = Head(Top.rest)[2]
    BY <1>2 DEF At, Arg
  <1>4. PICK low, load : TopHolds(low, load)
    BY <1>1, <1>3, ChargedTop
  <1>5. Top \in Frame /\ OnPlan(Top, load)
    BY <1>1, <1>3, <1>4, TopOp DEF TopHolds
  <1>6. Arg \in Pools /\ (op = "take" => load[Arg] + 1 =< Need(Top.fn)[Arg])
    BY <1>2, <1>3, <1>5, OpOnPlan
  <1> DEFINE sum == [p \in Pools |-> low[p] + load[p]]
  <1>7. /\ low[Arg] \in Nat /\ load[Arg] \in Nat /\ sum \in [Pools -> Nat]
        /\ sum[Arg] = low[Arg] + load[Arg]
        /\ Covered(free, kept, sum, lost) /\ load[Arg] =< Need(Top.fn)[Arg]
        /\ low[Arg] + Need(Top.fn)[Arg] =< Limit(stack, Len(stack), Arg)
    BY <1>4, <1>6 DEF TopHolds
  <1> HIDE DEF sum
  <1>8. Limit(stack, Len(stack), Arg) =< Most(Arg)
    BY <1>6, LimitGrows DEF Most
  <1>9. /\ Limit(stack, Len(stack), Arg) \in Nat /\ Need(Top.fn)[Arg] \in Nat /\ Most(Arg) \in Nat
    BY <1>5, <1>6, LimitType, NeedType, MostType DEF Frame
  <1>10. In(kept, Arg) \in {0, 1} /\ (op = "keep" => In(kept, Arg) = 0)
    BY <1>2 DEF In
  <1>11. sum[Arg] + In(kept, Arg) =< Most(Arg)
    BY <1>2, <1>6, <1>7, <1>8, <1>9, <1>10
  <1> QED
    BY <1>1, <1>6, <1>7, <1>11, HeapAssumption, Room

LEMMA NoPanic ==
  ASSUME Sizes, Safe
  PROVE  ~Panic
  BY BlockFree DEF Panic

\* A block has gone from pool p: to the innermost call, or to be kept.
LEMMA Taken ==
  ASSUME HTypes, NEW p \in Pools, free' = [free EXCEPT ![p] = @ - 1], lost' = lost,
         NEW sum \in [Pools -> Nat], NEW after \in [Pools -> Nat],
         Covered(free, kept, sum, lost),
         \A q \in Pools :
           after[q] + In(kept', q) = sum[q] + In(kept, q) + (IF q = p THEN 1 ELSE 0)
  PROVE  Covered(free', kept', after, lost')
  <1> SUFFICES ASSUME NEW q \in Pools
               PROVE  free'[q] >= N[q] - Own(q) - In(kept', q) - after[q] - lost'
    BY DEF Covered
  <1>1. /\ free[q] >= N[q] - Own(q) - In(kept, q) - sum[q] - lost
        /\ N[q] \in Nat /\ Own(q) \in {0, 1} /\ In(kept, q) \in {0, 1} /\ In(kept', q) \in {0, 1}
        /\ lost \in Nat /\ free[q] \in Int /\ sum[q] \in Nat /\ after[q] \in Nat
    BY NType DEF Covered, Own, In, HTypes
  <1>2. free'[q] = (IF q = p THEN free[q] - 1 ELSE free[q])
    BY DEF HTypes
  <1> QED
    BY <1>1, <1>2

LEMMA TakeCharged ==
  ASSUME Sizes, Safe, Take
  PROVE  Charged'
  <1>1. HTypes /\ lost < Reserve /\ Charged
    BY DEF Safe
  <1>2. stack # <<>> /\ Top.rest # <<>> /\ "take" = Head(Top.rest)[1] /\ Arg = Head(Top.rest)[2]
    BY DEF Take, At, Arg
  <1>3. PICK low, load : TopHolds(low, load)
    BY <1>1, <1>2, ChargedTop
  <1>4. Top \in Frame /\ OnPlan(Top, load)
    BY <1>1, <1>2, <1>3, TopOp DEF TopHolds
  <1> DEFINE next == [load EXCEPT ![Arg] = @ + 1]
  <1>5. Arg \in Pools /\ OnPlan(Done(Top, Append(Top.held, Arg)), next)
    BY <1>2, <1>4, OpOnPlan
  <1>6. PICK q \in Pools :
          /\ Block(Arg, q) /\ free' = [free EXCEPT ![q] = @ - 1]
          /\ stack' = After(Append(Top.held, q))
    BY DEF Take
  <1>7. q = Arg
    BY <1>1, <1>5, <1>6, BlockFree, FirstBlock DEF HTypes, Take
  <1> DEFINE sum   == [p \in Pools |-> low[p] + load[p]]
             after == [p \in Pools |-> low[p] + next[p]]
  <1>8. /\ sum \in [Pools -> Nat] /\ after \in [Pools -> Nat] /\ Covered(free, kept, sum, lost)
        /\ \A p \in Pools : after[p] = sum[p] + (IF p = Arg THEN 1 ELSE 0)
    BY <1>3, <1>5 DEF TopHolds
  <1>9. Append(Top.held, Arg) \in Seq(Slots)
    BY <1>4, <1>5 DEF Frame, Slots
  <1> HIDE DEF next, sum
  <1>10. Holding(stack', after)
    BY <1>1, <1>2, <1>3, <1>5, <1>6, <1>7, <1>9, TopDone
  <1> HIDE DEF after
  <1>11. Covered(free', kept', after, lost')
    <2>1. kept' = kept /\ lost' = lost
      BY DEF Take
    <2>2. \A p \in Pools :
            after[p] + In(kept', p) = sum[p] + In(kept, p) + (IF p = Arg THEN 1 ELSE 0)
      BY <1>8, <2>1 DEF In
    <2> QED
      BY <1>1, <1>5, <1>6, <1>7, <1>8, <2>1, <2>2, Taken
  <1> QED
    BY <1>10, <1>11 DEF Charged

LEMMA KeepCharged ==
  ASSUME Sizes, Safe, Keep
  PROVE  Charged'
  <1>1. HTypes /\ lost < Reserve /\ Charged
    BY DEF Safe
  <1>2. stack # <<>> /\ Top.rest # <<>> /\ "keep" = Head(Top.rest)[1] /\ Arg = Head(Top.rest)[2]
    BY DEF Keep, At, Arg
  <1>3. PICK low, load : TopHolds(low, load)
    BY <1>1, <1>2, ChargedTop
  <1>4. Top \in Frame /\ OnPlan(Top, load)
    BY <1>1, <1>2, <1>3, TopOp DEF TopHolds
  <1>5. OnPlan(Done(Top, Top.held), load) /\ Arg \in Pools
    BY <1>2, <1>4, OpOnPlan
  <1> DEFINE sum == [p \in Pools |-> low[p] + load[p]]
  <1>6. Holding(stack', sum)
    <2>1. Top.held \in Seq(Slots) /\ stack' = After(Top.held)
      BY <1>4 DEF Frame, Keep
    <2> QED
      BY <1>1, <1>2, <1>3, <1>5, <2>1, TopDone
  <1>7. Covered(free, kept, sum, lost) /\ sum \in [Pools -> Nat] /\ lost' = lost
    BY <1>3 DEF TopHolds, Keep
  <1> HIDE DEF sum
  <1>8. CASE Arg \in kept
    BY <1>6, <1>7, <1>8 DEF Charged, Keep
  <1>9. CASE Arg \notin kept
    <2>1. PICK q \in Pools :
            Block(Arg, q) /\ free' = [free EXCEPT ![q] = @ - 1] /\ kept' = kept \cup {Arg}
      BY <1>9 DEF Keep
    <2>2. q = Arg
      BY <1>1, <1>5, <1>9, <2>1, BlockFree, FirstBlock DEF HTypes, Keep
    <2>3. \A p \in Pools :
            sum[p] + In(kept', p) = sum[p] + In(kept, p) + (IF p = Arg THEN 1 ELSE 0)
      BY <1>7, <1>9, <2>1 DEF In
    <2>4. Covered(free', kept', sum, lost')
      BY <1>1, <1>5, <1>7, <2>1, <2>2, <2>3, Taken
    <2> QED
      BY <1>6, <2>4 DEF Charged
  <1> QED
    BY <1>8, <1>9

LEMMA GiveCharged ==
  ASSUME Safe, Give
  PROVE  Charged'
  <1>1. HTypes /\ lost < Reserve /\ Charged
    BY DEF Safe
  <1>2. stack # <<>> /\ Top.rest # <<>> /\ "give" = Head(Top.rest)[1] /\ Arg = Head(Top.rest)[2]
    BY DEF Give, At, Arg
  <1>3. PICK low, load : TopHolds(low, load)
    BY <1>1, <1>2, ChargedTop
  <1>4. Top \in Frame /\ OnPlan(Top, load)
    BY <1>1, <1>2, <1>3, TopOp DEF TopHolds
  <1> DEFINE given == Top.held[Arg]
             held == [Top.held EXCEPT ![Arg] = "given"]
             next == [load EXCEPT ![given] = @ - 1]
             sum   == [p \in Pools |-> low[p] + load[p]]
             after == [p \in Pools |-> low[p] + next[p]]
  <1>5. given \in Pools /\ OnPlan(Done(Top, held), next)
    BY <1>2, <1>4, OpOnPlan
  <1>6. held \in Seq(Slots) /\ Top.held \in Seq(Slots)
    BY <1>4, SlotChanged DEF Frame, Slots
  <1>7. stack' = After(held) /\ free' = [free EXCEPT ![given] = @ + 1]
    BY DEF Give
  <1> HIDE DEF given, held
  <1>8. /\ sum \in [Pools -> Nat] /\ Covered(free, kept, sum, lost)
        /\ \A p \in Pools : after[p] = sum[p] - (IF p = given THEN 1 ELSE 0)
    <2>1. /\ low \in [Pools -> Nat] /\ load \in [Pools -> Nat]
          /\ Covered(free, kept, sum, lost)
      BY <1>3 DEF TopHolds
    <2>2. \A p \in Pools : next[p] = load[p] - (IF p = given THEN 1 ELSE 0)
      BY <1>5, <2>1
    <2> HIDE DEF next
    <2>3. /\ sum \in [Pools -> Nat]
          /\ \A p \in Pools : sum[p] = low[p] + load[p] /\ after[p] = low[p] + next[p]
      BY <2>1
    <2>4. Covered(free, kept, sum, lost)
      BY <2>1
    <2> HIDE DEF sum, after
    <2> QED
      BY <2>1, <2>2, <2>3, <2>4
  <1> HIDE DEF next, sum
  <1>9. Holding(stack', after)
    BY <1>1, <1>2, <1>3, <1>5, <1>6, <1>7, TopDone
  <1> HIDE DEF after
  <1>10. Covered(free', kept', after, lost')
    <2>1. kept' = kept /\ lost' = lost
      BY DEF Give
    <2>2. ASSUME NEW p \in Pools
          PROVE  free'[p] >= N[p] - Own(p) - In(kept, p) - after[p] - lost
      <3>1. /\ free[p] >= N[p] - Own(p) - In(kept, p) - sum[p] - lost
            /\ N[p] \in Nat /\ Own(p) \in {0, 1} /\ In(kept, p) \in {0, 1}
            /\ lost \in Nat /\ free[p] \in Int /\ sum[p] \in Nat
        BY <1>1, <1>8, NType DEF Covered, Own, In, HTypes
      <3>2. free'[p] = (IF p = given THEN free[p] + 1 ELSE free[p])
        BY <1>1, <1>7 DEF HTypes
      <3> QED
        BY <1>8, <3>1, <3>2
    <2> QED
      BY <2>1, <2>2 DEF Covered
  <1> QED
    BY <1>9, <1>10 DEF Charged

\* A call that the innermost one makes: now, or again.
LEMMA CalleeCharged ==
  ASSUME Safe, stack # <<>>, NEW low, NEW load, TopHolds(low, load), NEW f \in Functions,
         \A p \in Pools : load[p] + Need(f)[p] =< Need(Top.fn)[p],
         NEW s \in Seq(Frame), Len(s) = Len(stack), Holding(s, [p \in Pools |-> low[p] + load[p]]),
         \A p \in Pools : Limit(s, Len(stack), p) = Limit(stack, Len(stack), p),
         Enter(f, s), UNCHANGED <<free, kept, lost>>
  PROVE  Charged'
  <1> DEFINE sum == [p \in Pools |-> low[p] + load[p]]
             one == f = "UART1_Handler" \/ Handler(s, "UART1_Handler", Len(s))
             zero == f = "UART0_Handler" \/ Handler(s, "UART0_Handler", Len(s))
  <1>1. Covered(free, kept, sum, lost)
    BY DEF TopHolds
  <1>2. ASSUME NEW p \in Pools PROVE sum[p] + Need(f)[p] =< Total(one, zero, p)
    <2>1. /\ sum[p] = low[p] + load[p] /\ low[p] \in Nat /\ load[p] \in Nat
          /\ low[p] + Need(Top.fn)[p] =< Limit(stack, Len(stack), p)
      BY DEF TopHolds
    <2>2. Limit(s, Len(s), p) =< Total(one, zero, p)
      BY LimitGrows
    <2>3. Limit(stack, Len(stack), p) = Limit(s, Len(s), p)
      OBVIOUS
    <2>4. /\ Need(f)[p] \in Nat /\ Need(Top.fn)[p] \in Nat /\ Limit(s, Len(s), p) \in Nat
          /\ Total(one, zero, p) \in Nat
      <3>1. Top.fn \in Functions
        BY TopOp DEF Safe, Frame
      <3>2. Total(one, zero, p) \in Nat
        BY NeedType DEF Total, Functions
      <3> QED
        BY <3>1, <3>2, NeedType, LimitType
    <2>5. load[p] + Need(f)[p] =< Need(Top.fn)[p]
      OBVIOUS
    <2> HIDE DEF sum, one, zero
    <2> QED
      BY <2>1, <2>2, <2>3, <2>4, <2>5
  <1>3. Holding(stack', sum)
    <2> HIDE DEF sum
    <2> QED
      BY <1>2, Entered DEF sum
  <1> QED
    BY <1>1, <1>3 DEF Charged

LEMMA CallCharged ==
  ASSUME Safe, Call \/ Loop
  PROVE  Charged'
  <1>1. HTypes /\ Charged
    BY DEF Safe
  <1>2. PICK op \in {"call", "loop"} : At(op)
    BY DEF Call, Loop
  <1>3. stack # <<>> /\ Top.rest # <<>> /\ op = Head(Top.rest)[1] /\ Arg = Head(Top.rest)[2]
    BY <1>2 DEF At, Arg
  <1>4. PICK low, load : TopHolds(low, load)
    BY <1>1, <1>3, ChargedTop
  <1>5. Top \in Frame /\ OnPlan(Top, load)
    BY <1>1, <1>3, <1>4, TopOp DEF TopHolds
  <1>6. /\ Arg \in Functions /\ OnPlan(Done(Top, Top.held), load)
        /\ \A p \in Pools : load[p] + Need(Arg)[p] =< Need(Top.fn)[p]
    BY <1>2, <1>3, <1>5, OpOnPlan
  <1> DEFINE sum == [p \in Pools |-> low[p] + load[p]]
             s   == After(Top.held)
  <1>7. Top.held \in Seq(Slots)
    BY <1>5 DEF Frame
  <1>8. /\ Holding(s, sum) /\ s \in Seq(Frame) /\ Len(s) = Len(stack)
        /\ \A p \in Pools : Limit(s, Len(stack), p) = Limit(stack, Len(stack), p)
    BY <1>1, <1>3, <1>4, <1>6, <1>7, TopDone
  <1>9. stack \in Seq(Frame) /\ Holding(stack, sum) /\ Covered(free, kept, sum, lost)
    BY <1>1, <1>4 DEF HTypes, TopHolds
  <1>10. UNCHANGED <<free, kept, lost>>
    BY DEF Call, Loop
  <1>11. CASE Enter(Arg, s)
    BY <1>3, <1>4, <1>6, <1>8, <1>10, <1>11, CalleeCharged
  <1>12. CASE Enter(Arg, stack)
    BY <1>3, <1>4, <1>6, <1>9, <1>10, <1>12, CalleeCharged
  <1>13. CASE stack' = s
    BY <1>8, <1>9, <1>10, <1>13 DEF Charged
  <1> QED
    BY <1>11, <1>12, <1>13 DEF Call, Loop

\* What a call that forgets blocks held is lost from now on.
LEMMA ReturnCharged ==
  ASSUME Safe, Return, lost' \in Nat
  PROVE  Charged'
  <1>1. HTypes /\ Charged /\ stack # <<>>
    BY DEF Safe, Return
  <1>2. PICK low, load : TopHolds(low, load)
    BY <1>1, ChargedTop
  <1>3. Top \in Frame /\ OnPlan(Top, load) /\ Holding(Tail(stack), low)
    BY <1>1, <1>2, TopOp DEF TopHolds
  <1> DEFINE sum == [p \in Pools |-> low[p] + load[p]]
  <1>4. /\ low \in [Pools -> Nat] /\ load \in [Pools -> Nat] /\ sum \in [Pools -> Nat]
        /\ \A p \in Pools : sum[p] = low[p] + load[p]
    BY <1>2 DEF TopHolds
  <1>5. Covered(free, kept, sum, lost)
    BY <1>2 DEF TopHolds
  <1>6. \A p \in Pools : load[p] + lost =< lost'
    <2>1. lost \in Nat /\ Top.rest = <<>>
      BY <1>1 DEF HTypes, Return
    <2>2. CASE Top.fn \in Leaking
      <3> DEFINE left == Cardinality({j \in DOMAIN Top.held : Top.held[j] # "given"})
      <3>1. lost' = lost + left
        BY <2>2 DEF Return
      <3>2. \A p \in Pools : load[p] =< left
        BY <1>3, <2>1, <2>2, LoadOnPlan
      <3>3. left \in Nat
        BY <1>3, HeldNat DEF Frame
      <3> HIDE DEF left
      <3> QED
        BY <1>4, <2>1, <3>1, <3>2, <3>3
    <2>3. CASE Top.fn \notin Leaking
      <3>1. lost' = lost /\ \A p \in Pools : load[p] = 0
        BY <1>3, <2>1, <2>3, LoadOnPlan DEF Return
      <3> QED
        BY <2>1, <3>1
    <2> QED
      BY <2>2, <2>3
  <1> HIDE DEF sum
  <1>7. Covered(free', kept', low, lost')
    <2>1. free' = free /\ kept' = kept
      BY DEF Return
    <2>2. ASSUME NEW p \in Pools
          PROVE  free[p] >= N[p] - Own(p) - In(kept, p) - low[p] - lost'
      <3>1. /\ free[p] >= N[p] - Own(p) - In(kept, p) - sum[p] - lost
            /\ N[p] \in Nat /\ Own(p) \in {0, 1} /\ In(kept, p) \in {0, 1}
            /\ lost \in Nat /\ free[p] \in Int /\ low[p] \in Nat /\ load[p] \in Nat
        BY <1>1, <1>4, <1>5, NType DEF Covered, Own, In, HTypes
      <3> QED
        BY <1>4, <1>6, <3>1
    <2> QED
      BY <2>1, <2>2 DEF Covered
  <1> QED
    BY <1>3, <1>7 DEF Charged, Return

LEMMA MainLoopCharged ==
  ASSUME Safe, MainLoop
  PROVE  Charged'
  <1>1. stack = <<>> /\ Charged /\ UNCHANGED <<free, kept, lost>>
    BY DEF Safe, MainLoop
  <1>2. PICK sum : Holding(stack, sum) /\ Covered(free, kept, sum, lost)
    BY <1>1 DEF Charged
  <1>3. sum = Nothing /\ stack \in Seq(Frame) /\ Len(stack) = 0
    BY <1>1, <1>2 DEF Holding, Loaded
  <1>4. PICK f \in Functions \ Handlers : Enter(f, stack)
    BY <1>1 DEF MainLoop, Commands, Functions, Handlers
  <1> DEFINE one  == f = "UART1_Handler" \/ Handler(stack, "UART1_Handler", Len(stack))
             zero == f = "UART0_Handler" \/ Handler(stack, "UART0_Handler", Len(stack))
  <1>5. ASSUME NEW p \in Pools PROVE sum[p] + Need(f)[p] =< Total(one, zero, p)
    <2>1. sum[p] = 0 /\ Need(f)[p] =< Need("core_process_wifi_data")[p]
      BY <1>3 DEF Nothing, Need, Amount, Functions, Handlers, Pools
    <2>2. /\ Need("core_process_wifi_data")[p] \in Nat /\ Need("UART1_Handler")[p] \in Nat
          /\ Need("UART0_Handler")[p] \in Nat /\ Need(f)[p] \in Nat
      BY NeedType DEF Functions, Handlers
    <2> HIDE DEF one, zero
    <2> QED
      BY <2>1, <2>2 DEF Total
  <1>6. Holding(stack', sum)
    BY <1>2, <1>3, <1>4, <1>5, Entered
  <1> QED
    BY <1>1, <1>2, <1>6 DEF Charged

LEMMA InterruptCharged ==
  ASSUME Safe, Interrupt
  PROVE  Charged'
  <1>1. HTypes /\ Charged /\ UNCHANGED <<free, kept, lost>>
    BY DEF Safe, Interrupt
  <1>2. PICK sum : Holding(stack, sum) /\ Covered(free, kept, sum, lost)
    BY <1>1 DEF Charged
  <1>3. PICK h \in Handlers : Enter(h, stack) /\ ~Active(h)
    BY DEF Interrupt, Handlers
  <1>4. ~Handler(stack, h, Len(stack))
    <2>1. stack \in Seq(Frame)
      BY <1>1 DEF HTypes
    <2>2. \A e \in 1 .. Len(stack) : Len(stack) + 1 - e \in DOMAIN stack
      BY <2>1
    <2> QED
      BY <1>3, <2>2 DEF Active, Handler, Depth
  <1> DEFINE one  == h = "UART1_Handler" \/ Handler(stack, "UART1_Handler", Len(stack))
             zero == h = "UART0_Handler" \/ Handler(stack, "UART0_Handler", Len(stack))
  <1>5. ASSUME NEW p \in Pools PROVE sum[p] + Need(h)[p] =< Total(one, zero, p)
    <2>1. sum[p] \in Nat /\ sum[p] =< Limit(stack, Len(stack), p)
      BY <1>1, <1>2, Below DEF HTypes
    <2>2. /\ Need("core_process_wifi_data")[p] \in Nat /\ Need("UART1_Handler")[p] \in Nat
          /\ Need("UART0_Handler")[p] \in Nat /\ Need(h)[p] \in Nat
      BY NeedType DEF Functions, Handlers
    <2>3. Limit(stack, Len(stack), p) + Need(h)[p] = Total(one, zero, p)
      BY <1>4, <2>2 DEF Limit, Total, Handlers
    <2>4. Limit(stack, Len(stack), p) \in Nat
      BY LimitType
    <2> HIDE DEF one, zero
    <2> QED
      BY <2>1, <2>2, <2>3, <2>4
  <1>6. Holding(stack', sum)
    BY <1>1, <1>2, <1>3, <1>5, Entered DEF HTypes, Handlers, Functions
  <1> QED
    BY <1>1, <1>2, <1>6 DEF Charged

LEMMA NextHInv == Sizes /\ HInv /\ [Next]_vars => HInv'
  <1> SUFFICES ASSUME Sizes, HInv, [Next]_vars PROVE HInv'
    OBVIOUS
  <1>1. HTypes /\ HTypes' /\ lost \in Nat /\ lost' \in Nat /\ Reserve \in Nat
    BY NextHTypes, HeapAssumption DEF HInv, HTypes
  <1>2. lost =< lost'
    <2>1. CASE Return
      <3>1. Top \in Frame
        BY <1>1, <2>1, TopOp DEF Return
      <3>2. Cardinality({k \in DOMAIN Top.held : Top.held[k] # "given"}) \in Nat
        BY <3>1, HeldNat DEF Frame
      <3> QED
        BY <1>1, <2>1, <3>2 DEF Return
    <2>2. CASE ~Return
      BY <1>1, <2>2 DEF Next, Take, Panic, Keep, Give, Call, Loop, MainLoop, Interrupt, vars
    <2> QED
      BY <2>1, <2>2
  <1>3. CASE lost >= Reserve
    BY <1>1, <1>2, <1>3 DEF HInv
  <1>4. CASE lost < Reserve
    <2>1. Safe
      BY <1>4 DEF Safe, HInv
    <2>2. ~panicked /\ ~Panic
      BY <1>1, <1>4, <2>1, NoPanic DEF HInv
    <2>3. panicked' = panicked
      BY <2>2 DEF Next, Take, Keep, Give, Call, Loop, Return, MainLoop, Interrupt, vars
    <2>4. CASE UNCHANGED vars
      BY <1>1, <2>1, <2>2, <2>3, <2>4 DEF HInv, Safe, Charged, vars
    <2>5. CASE Take \/ Keep \/ Give \/ Call \/ Loop \/ Return \/ MainLoop \/ Interrupt
      <3>1. Charged'
        BY <1>1, <2>1, <2>5, TakeCharged, KeepCharged, GiveCharged, CallCharged, ReturnCharged,
           MainLoopCharged, InterruptCharged
      <3> QED
        BY <1>1, <2>2, <2>3, <3>1 DEF HInv
    <2> QED
      BY <2>2, <2>4, <2>5 DEF Next
  <1> QED
    BY <1>1, <1>3, <1>4

(***************************************************************************)
(* The theorem.                                                            *)
(***************************************************************************)

\* Pools with one block for the command buffer, one of each pool for wifi_init, what the
\* deepest main loop call and both handlers hold, and Reserve - 1 to lose: core_panic is
\* not reached before Reserve blocks are lost, however the calls nest.
THEOREM HeapSuffices == ASSUME Sizes PROVE Spec => []PoolsSuffice
  <1>1. HInv => PoolsSuffice
    BY DEF HInv, PoolsSuffice
  <1> QED
    BY <1>1, InitHInv, NextHInv, PTL DEF Spec
=============================================================================
