-------------------------------- MODULE KvMap --------------------------------
(***************************************************************************)
(* What a kvstore engine promises its clients: a finite map from keys to   *)
(* values behind the five commands SET, GET, DEL, MOD and EXIST.  The      *)
(* promise is read off the return-value comments of kvs_array.c and the    *)
(* replies that kvs_filter_protocol (kvstore.c) derives from them; the     *)
(* engines are shown to implement it.                                      *)
(***************************************************************************)
CONSTANTS
  Key,        \* the keys clients use
  Value,      \* the values clients store
  NULL,       \* no value; also a key or value argument missing in a request
  Lost,       \* the value of a key whose MOD failed half way
  DelMissing  \* the answer to DEL of a key that is not stored

VARIABLES
  map,   \* what is stored under each key
  up,    \* the server process is running
  reply  \* the last request and its answer

mapVars == <<map, up, reply>>

Answer(cmd, key, res) == reply' = [cmd |-> cmd, key |-> key, res |-> res]

NoReply == [cmd |-> "none", key |-> NULL, res |-> "none"]

MapInit ==
  /\ map = [k \in Key |-> NULL]
  /\ up = TRUE
  /\ reply = NoReply

(* A request that misses its key (or, for SET and MOD, its value).         *)
MapMalformed(cmd) ==
  /\ up
  /\ \E k \in Key \cup {NULL}, r \in {"error", "no exist"} : Answer(cmd, k, r)
  /\ UNCHANGED <<map, up>>

(* SET never overwrites; it may refuse for lack of room.                   *)
MapSet(k, v) ==
  /\ up
  /\ \/ /\ Answer("SET", k, "ok")
        /\ map[k] = NULL
        /\ map' = [map EXCEPT ![k] = v]
     \/ /\ Answer("SET", k, "exist")
        /\ map[k] # NULL
        /\ UNCHANGED map
     \/ /\ Answer("SET", k, "error")
        /\ UNCHANGED map
  /\ UNCHANGED up

(* GET answers the stored value; after a failed MOD it may answer anything.*)
MapGet(k) ==
  /\ up
  /\ \/ Answer("GET", k, "no exist") /\ map[k] = NULL
     \/ \E v \in Value : Answer("GET", k, v) /\ map[k] = v
     \/ \E r \in {Lost, "no exist"} : Answer("GET", k, r) /\ map[k] = Lost
  /\ UNCHANGED <<map, up>>

MapDel(k) ==
  /\ up
  /\ \/ /\ Answer("DEL", k, "ok")
        /\ map[k] # NULL
        /\ map' = [map EXCEPT ![k] = NULL]
     \/ /\ Answer("DEL", k, DelMissing)
        /\ map[k] = NULL
        /\ UNCHANGED map
  /\ UNCHANGED up

(* MOD replaces; when it fails half way the old value is gone.             *)
MapMod(k, v) ==
  /\ up
  /\ \/ /\ Answer("MOD", k, "ok")
        /\ map[k] # NULL
        /\ map' = [map EXCEPT ![k] = v]
     \/ /\ Answer("MOD", k, "error")
        /\ map[k] # NULL
        /\ map' = [map EXCEPT ![k] = Lost]
     \/ /\ Answer("MOD", k, "no exist")
        /\ map[k] = NULL
        /\ UNCHANGED map
  /\ UNCHANGED up

MapExist(k) ==
  /\ up
  /\ \/ Answer("EXIST", k, "no exist") /\ map[k] = NULL
     \/ Answer("EXIST", k, "exist") /\ map[k] \in Value \cup {Lost}
  /\ UNCHANGED <<map, up>>

(* The process may die; nothing is persisted, so a restart is empty.       *)
MapCrash ==
  /\ up
  /\ up' = FALSE
  /\ UNCHANGED <<map, reply>>

MapRestart ==
  /\ ~up
  /\ up' = TRUE
  /\ map' = [k \in Key |-> NULL]
  /\ reply' = NoReply

MapNext ==
  \/ \E cmd \in {"SET", "GET", "DEL", "MOD", "EXIST"} : MapMalformed(cmd)
  \/ \E k \in Key :
       \/ \E v \in Value : MapSet(k, v) \/ MapMod(k, v)
       \/ MapGet(k) \/ MapDel(k) \/ MapExist(k)
  \/ MapCrash
  \/ MapRestart

MapSpec == MapInit /\ [][MapNext]_mapVars
==============================================================================
