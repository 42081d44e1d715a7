------------------------ MODULE MCSessionFinalizer ------------------------
(* The resolver, the discovery link updater and a debounced topology
   subscriber; the finalizer and one other publisher of entity events. *)
EXTENDS SessionFinalizer

CONSTANTS fin, api, hosts, links, topology

MCSubscribers == <<hosts, topology, links>>

MCWants == [s \in Names |-> CASE s = hosts -> {"Complete"} [] s = links -> {"Created"}
                              [] s = topology -> {"Created", "Updated"}]

MCProgram == [p \in Publishers |-> IF p = fin THEN <<"Complete", "Created">>
                                              ELSE <<"Updated", "Created", "Updated">>]
=============================================================================
