---------------------------- MODULE MCBBSSession ----------------------------
(* Instances of BBSSession. *)
EXTENDS BBSSession, TLC

Everything == {"ZCYH", "QXZC", "SZXE", "QKYY", "CXXE", "PARSE_ERROR", "mail"}
FixedLimit == Everything \ {"SZXE"}
Exchangeable == Permutations(Pairs) \cup Permutations(Codes)
Binding == {"ZCYH", "QXZC"}
=============================================================================
