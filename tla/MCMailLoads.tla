---------------------------- MODULE MCMailLoads ----------------------------
(***************************************************************************)
(* Two loads: "internal", an administrator's mail that is sent, recalled,  *)
(* deleted and downloaded from while recipients delete their copies, with  *)
(* errors and crashes, and "inbox", mails that arrive and are deleted one  *)
(* by one, in bulk and with their account.                                 *)
(***************************************************************************)
EXTENDS MCMail

VARIABLE load

Requested == [internal |-> {"send", "recall", "remove", "fetch", "delete",
                            "bulk", "clear"},
              inbox |-> {"send", "remove", "delete", "bulk", "close", "inbound"}]

MCInit == Init /\ load \in DOMAIN Requested

MCNext ==
  /\ Next /\ UNCHANGED load
  /\ \A h \in Handlers : task'[h].op \in Requested[load] \cup {"none"}
  /\ load = "inbox" => failed' = {}

MCSpec == MCInit /\ [][MCNext]_<<vars, load>>
=============================================================================
