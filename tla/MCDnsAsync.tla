------------------------------ MODULE MCDnsAsync ------------------------------
(* Three names, of two, two and one labels: names that are split at the     *)
(* same time, and one that is whole after the first call.                   *)
EXTENDS DnsAsync

MCLabel == <<2, 2, 1>>
===============================================================================
