-------------------------------- MODULE MCZones --------------------------------
(* Two zones, in each behaviour seen from one side: the launcher that keeps a process for
   each, or the world that has two processes to boot them in and a player who waits. *)
EXTENDS ZoneLauncher

VARIABLES
    side,
    zone_server_list, srv, client, proc, to_proc, to_world, dead, faulty, overtaken

world == <<zone_server_list, srv, client, proc, to_proc, to_world, dead, faulty, overtaken>>

World == INSTANCE ZoneServers WITH
    Processes <- {"p1", "p2"}, Players <- {"c1"}, Asleep <- "asleep",
    MayFail <- BOOLEAN, MayDie <- TRUE, Backlog <- [f \in BOOLEAN |-> IF f THEN 1 ELSE 3]

ASSUME WorldAssumption == World!ZoneServersAssumption

\* At rest, neither side has anything that its fairness asks for.
MCInit ==
    /\ side \in {"launcher", "world"} /\ Init /\ World!Init
    /\ side = "launcher" => ~faulty

MCNext ==
    /\ UNCHANGED side
    /\ \/ side = "launcher" /\ Next /\ UNCHANGED world
       \/ side = "world" /\ World!Next /\ UNCHANGED vars

MCSpec == MCInit /\ [][MCNext]_<<side, vars, world>> /\ Fairness /\ World!Fairness

\* ZoneServers: its types.
WorldTypeOK == World!TypeOK

\* ZoneServers: when nothing is in flight the world knows what every process hosts.
BooksAgree == World!BooksAgree

\* ZoneServers: no zone is hosted twice, while nothing fails and no boot overtakes the word of
\* a process that it hosts nothing.
HostedOnce == World!HostedOnce

\* ZoneServers: a player who waits for a boot is let through or told that there is none.
Answered == World!Answered
================================================================================
