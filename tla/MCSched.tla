------------------------------ MODULE MCSched ------------------------------
EXTENDS Sched

\* three processes, two of them at the same level, one at a more urgent one
ThreePrios == <<1, 1, 0>>
OneProc == <<0>>
TwoProcs == <<0, 0>>

NoSpawner == {}
BootCpu == {0}
AllCpus == Cpus

\* zero, one, a large value and the largest
SomeGarbage == {0, 1, NWRAP \div 2, NWRAP - 1}
TwoGarbage == {0, NWRAP - 1}
ZeroGarbage == {0}
=============================================================================
