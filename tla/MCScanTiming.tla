----------------------------- MODULE MCScanTiming ------------------------------
EXTENDS ScanTiming

Points(offsets, lines, yaws, blind) ==
  [offset_time : offsets, line : lines, yaw : yaws, blind : blind]

\* Three points in the order of their times, the last one blind or none.
Timed ==
  {s \in [1 .. 3 -> Points(0 .. 3, 0 .. 1, {0}, BOOLEAN)] :
     /\ s[1].offset_time <= s[2].offset_time /\ s[2].offset_time <= s[3].offset_time
     /\ ~s[1].blind /\ ~s[2].blind}

\* Three points out of the order of their times, but for the first.
Disordered ==
  {s \in [1 .. 3 -> Points(0 .. 3, {0}, {0}, {FALSE})] :
     s[1].offset_time <= s[3].offset_time /\ s[3].offset_time < s[2].offset_time}

\* Three points without times, on one turn of the lidar.
Spun == [1 .. 3 -> Points({0}, 0 .. 1, 0 .. 2, {FALSE})]

MCScans == Timed \cup Disordered \cup Spun \cup {<<>>}

MCLidarTypes == {"AVIA", "VELO16", "L515", "OUST64", "PANDAR128", "XT32", "ROBOSENSE"}
MCGarbage == {0, 4, 100}
===============================================================================
