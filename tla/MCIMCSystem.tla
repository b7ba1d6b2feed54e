---------------------------- MODULE MCIMCSystem -----------------------------
(* One to three CPUs, with the programs and memories they are combined with. *)
EXTENDS IMCSystem

CONSTANTS c1, c2, c3

\* The instruction and data ports of the CPUs.
Ports == CPU \X {"i", "d"}

\* Three CPUs with programs without IMC, any timing of the memory.
Plain == [cpus |-> {c1, c2, c3}, kinds |-> {"Mem", "AMO", "Other"},
          fast |-> FALSE, drains |-> TRUE]

\* Two CPUs that suspend and wake each other.
Threads == [cpus |-> {c1, c2}, kinds |-> {"Mem", "Syscall", "FutexWait"},
            fast |-> FALSE, drains |-> TRUE]

\* Three CPUs that suspend and wake each other, with no accesses in between.
Wakes == [cpus |-> {c1, c2, c3}, kinds |-> {"Syscall", "FutexWait"},
          fast |-> FALSE, drains |-> FALSE]

\* One CPU with every kind of instruction, and the memory of PIMCtrl.py.
OneCPU == [cpus |-> {c1}, kinds |-> AllKinds \ {"FutexWait"},
           fast |-> TRUE, drains |-> TRUE]

\* Two CPUs with split accesses, and the memory of PIMCtrl.py.
Splits == [cpus |-> {c1, c2}, kinds |-> {"Split", "Other"},
           fast |-> TRUE, drains |-> TRUE]

\* Two CPUs with IMC instructions.
Contention == [cpus |-> {c1, c2}, kinds |-> {"IMC", "Mem"},
               fast |-> TRUE, drains |-> FALSE]

\* One CPU whose split accesses meet a memory with little bandwidth.
SlowMemory == [cpus |-> {c1}, kinds |-> {"Split", "Other"},
               fast |-> FALSE, drains |-> FALSE]

System == {Plain, Threads, Wakes, OneCPU, Splits}
ContentionOnly == {Contention}
OneCPUOnly == {OneCPU}
SlowMemoryOnly == {SlowMemory}
ThreadsOnly == {Threads}
=============================================================================
