------------------------------- MODULE MCGles -------------------------------
(***************************************************************************)
(* GlesDisplay with one place, which has a lamp, two images, and drivers   *)
(* with any one fault, or with two of those that hide each other.          *)
(***************************************************************************)
EXTENDS GlesDisplay

MCPlaces   == {"airbag"}
MCNames    == 0..2
MCLooks    == {"lit", "dark"}
MCLamps    == {"airbag"}
MCExpected == [x \in MCLamps |-> "lit"]
MCImages   == {[look |-> "lit", pot |-> FALSE], [look |-> "dark", pot |-> TRUE]}

SetUpFaults  == {"native", "display", "config", "context", "surface"}
DriverFaults == {"surfaceless", "npot", "locations", "panned"}
DeviceFaults == {"fbopen", "fbinfo", "fbmap"}
\* Both programs are made by the same steps; each is missing in some driver.
ShaderFaults == ({"texture"} \X Steps) \cup {<<"color", "createFragment">>, <<"color", "link">>}

MCFaultSets ==
  ({{}, {"context", "surface"}, {"surface", "surfaceless"}, {"context", "surfaceless"},
    {"panned", "npot"}} \cup {{f} : f \in SetUpFaults \cup DriverFaults \cup DeviceFaults})
    \X {{}}
  \cup {{}} \X {{r} : r \in ShaderFaults}
  \cup {<<{"panned"}, {<<"texture", "link">>}>>}
=============================================================================
