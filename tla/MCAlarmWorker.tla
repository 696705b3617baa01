--------------------------- MODULE MCAlarmWorker ---------------------------
(* The instance of AlarmWorker that TLC checks.                            *)
EXTENDS AlarmWorker, TLC

(* No direction and a far one, two octants that are near across the wrap,  *)
(* and opposite ones.                                                      *)
SomeHeadings == {<<-1, 3>>, <<7, 1>>, <<0, 4>>}

(* The code treats all devices alike.                                      *)
DeviceSymmetry == Permutations(Devices)
=============================================================================
