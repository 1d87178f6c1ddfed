--------------------------- MODULE MCFrameHandler ---------------------------
(***************************************************************************)
(* A small widget tree for TLC: a panel with a bitmap field and a panel   *)
(* with one reference field.                                               *)
(***************************************************************************)
EXTENDS FrameHandler

CONSTANTS contentPanel, referencePanel, icon, reference

MCPanelOf == [f \in {icon, reference} |->
                IF f = reference THEN referencePanel ELSE contentPanel]

\* As in the sample database: the panels are visible, the fields are not.
MCDdhVisible == [w \in {contentPanel, referencePanel, icon, reference} |->
                   w \in {contentPanel, referencePanel}]

\* Every database with at most one faulty widget.
MCDatabases ==
  {d \in [Described -> Faults] :
     /\ \A p \in Panels : d[p] \in PanelFaults
     /\ \A v, w \in Described : d[v] # "none" /\ d[w] # "none" => v = w}
=============================================================================
