---------------------------- MODULE MCCryptoApi ----------------------------
(***************************************************************************)
(* Two API objects, a complete plug-in and one without release and init,   *)
(* and configurations of which each has something of its own.              *)
(***************************************************************************)
EXTENDS CryptoApi, TLC
CONSTANTS k1, k2

Plug(library, value) ==
  [parses |-> TRUE, key_vault |-> "vault", ext_priv |-> Nothing, ext_pub |-> Nothing,
   library_conf |-> TRUE, entry |-> TRUE, library_name |-> library,
   methods |-> [f \in Functions |-> IF f = "init" THEN "setup" ELSE Nothing], init_value |-> value]
Value(type, file) == [type |-> type, file |-> file]

MCConfigs ==
  [sys    |-> Plug("full", <<Value("PUB", "all"), Value("PRIV", "all")>>),
   other  |-> [Plug("full", <<Value("PUB", "all"), Value("PUB", "absent")>>) EXCEPT
                 !.key_vault = "other", !.ext_pub = "der"],
   wrong  |-> Plug("full", <<Value("PRIV", "all"), Value("wrong", "all")>>),
   bare   |-> [Plug("full", <<Value("PUB", "all")>>) EXCEPT !.key_vault = Nothing],
   keyed  |-> [Plug("partial", <<Value("PUB", "all")>>) EXCEPT !.methods["init"] = "start"],
   noinit |-> Plug("partial", <<>>),
   local  |-> [Plug("full", <<>>) EXCEPT !.library_conf = FALSE, !.key_vault = "long"],
   broken |-> [Plug("full", <<>>) EXCEPT !.parses = FALSE],
   absent |-> [Plug("full", <<>>) EXCEPT !.entry = FALSE],
   gone   |-> Plug("gone", <<>>)]

(* The second plug-in calls its init start and has no release and sign.    *)
MCLibraries ==
  [full |-> Functions, partial |-> (Functions \ {"init", "release", "sign"}) \cup {"start"}]

L(skip, k) == [skip |-> skip, key |-> k]
MCLists == [all |-> <<L(TRUE, k1), L(FALSE, k1), L(FALSE, k2)>>]

File(path, ext, k, private) == [path |-> path, ext |-> ext, key |-> k, private |-> private]
MCVault ==
  {File("vault", "cert", k1, FALSE), File("vault", "cert", k2, FALSE), File("vault", "der", k1, TRUE),
   File("other", "der", k2, FALSE), File("other", "der", k1, TRUE)}

Symmetry == Permutations(Apis)
=============================================================================
