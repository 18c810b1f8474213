---------------------------- MODULE MCProcessCmd ----------------------------
(* ProcessCmd for TLC: with the status server, whose requests make most of the *)
(* states, a process lacks its configuration file and its data path together,  *)
(* or has both; without it, every configuration is tried.                      *)
EXTENDS ProcessCmd

MCSettings ==
    {c \in Configurations :
        c.serveHttp => (c.configFile = "none" <=> c.dataPath = "missing")}
=============================================================================
