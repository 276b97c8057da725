------------------------------ MODULE MCParts ------------------------------
(***************************************************************************)
(* Four parts of the program that share no state and have promises under   *)
(* fairness, checked side by side: the first state chooses which of them   *)
(* moves.                                                                  *)
(***************************************************************************)
EXTENDS ConnPool, ResponseWriter, ThreadPool, Lifecycle

VARIABLE part

partsVars == <<part, dbVars, writerVars, vars, lifeVars>>

PartsInit ==
  /\ part \in {"db", "writer", "pool", "life"}
  /\ DbInit /\ (part # "db" => kind = "pg")
  /\ WriterInit /\ (part # "writer" => ~link.tls /\ disk.size = 0)
  /\ Init
  /\ LifeInit /\ (part # "life" => told.file = "missing" /\ told.envPort = Unset
                                    /\ told.envCert = "none")

PartsNext ==
  /\ UNCHANGED part
  /\ \/ /\ part = "db" /\ DbNext
        /\ UNCHANGED <<writerVars, vars, lifeVars>>
     \/ /\ part = "writer" /\ WriterNext
        /\ UNCHANGED <<dbVars, vars, lifeVars>>
     \/ /\ part = "pool" /\ Next
        /\ UNCHANGED <<dbVars, writerVars, lifeVars>>
     \/ /\ part = "life" /\ LifeNext
        /\ UNCHANGED <<dbVars, writerVars, vars>>

\* The fairness of the parts that have one, for the part that moves.
PartsFairness ==
  /\ WF_dbVars(part = "db" /\ (OpenFails \/ \E h \in Handles : OpenOne(h)))
  /\ \A c \in Callers : WF_dbVars(part = "db" /\ Client(c))
  /\ WF_writerVars(part = "writer" /\ WriterWork)
  /\ WF_writerVars(part = "writer" /\ ClientReads)
  /\ WF_lifeVars(part = "life" /\ Main) /\ WF_lifeVars(part = "life" /\ CrewExits)
  /\ \A t \in Tasks : WF_vars(part = "pool" /\ (Enqueue(t) \/ NotifyOne(t)))
  /\ \A w \in Workers :
       /\ SF_vars(part = "pool" /\ Lock(w))
       /\ WF_vars(part = "pool" /\ (Sleep(w) \/ Wake(w) \/ Exit(w) \/ Take(w) \/ Run(w)))
  /\ WF_vars(part = "pool" /\ (SetStop \/ NotifyAll \/ Join))

PartsSpec == PartsInit /\ [][PartsNext]_partsVars /\ PartsFairness

\* Every variable of the parts keeps its type.
PartsTypeOK == DbTypeOK /\ WriterTypeOK /\ TypeOK /\ LifeTypeOK
=============================================================================
