--------------------------- MODULE MCControlPlane ---------------------------
(* Model values and conditions of the upload servers for ControlPlane. *)
EXTENDS ControlPlane, TLC

CONSTANTS root, op,       \* employee ids
          old, new,       \* passwords
          s1, s2,         \* sessions
          t1, t2,         \* threads
          srv,            \* a server
          m1, m2, m3,     \* machines
          here, there,    \* URLs
          silent          \* a server that does not answer

MCMachines == {m1, m2, m3}
MCNormal == [age |-> [m \in MCMachines |-> 5], jobs |-> [m \in MCMachines |-> 0],
             disk |-> 40, beat |-> 1, error |-> FALSE]

(* One trouble of each source: machine, queue, disk, worker. *)
MCConditions == { MCNormal,
                  [MCNormal EXCEPT !.age[m1] = 121],
                  [MCNormal EXCEPT !.jobs = [m \in MCMachines |-> 4]],
                  [MCNormal EXCEPT !.disk = 90],
                  [MCNormal EXCEPT !.beat = 31] }
=============================================================================
