----------------------------- MODULE MCMainLoop -----------------------------
(***************************************************************************)
(* The sample HMI for TLC, with small limits for the two telltales, and    *)
(* databases that are sound or have one fault.                             *)
(***************************************************************************)
EXTENDS MainLoop

CONSTANTS contentPanel, referencePanel,
          contentAirbag, contentBreak, referenceAirbag, referenceBreak,
          boolean

MCContent   == [t \in {Airbag, Break} |-> IF t = Airbag THEN contentAirbag ELSE contentBreak]
MCReference == [t \in {Airbag, Break} |-> IF t = Airbag THEN referenceAirbag ELSE referenceBreak]

MCPanelOf == [f \in Fields |-> IF f \in BitmapFields THEN contentPanel ELSE referencePanel]
MCDdhVisible == [w \in Described |-> w \in Panels]

\* The airbag's fallback waits for one error more than that of the break.
MCLimit == [t \in {Airbag, Break} |-> IF t = Airbag THEN 2 ELSE 1]

Sound == [w \in Described |-> "none"]

\* A sound database, and one with each fault that shows at startup or later.
MCDatabases ==
  {Sound} \cup
  {[Sound EXCEPT ![fault[1]] = fault[2]] :
     fault \in {<<contentPanel, "visible">>, <<referenceAirbag, "bitmap">>,
                <<contentAirbag, "texture">>, <<referenceAirbag, "texture">>}}

MCSoundDatabase == {Sound}

MCTypeOfId == [i \in Ids |-> boolean]
MCTimeout == [i \in Ids |-> 0]
=============================================================================
