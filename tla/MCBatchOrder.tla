---------------------------- MODULE MCBatchOrder ----------------------------
EXTENDS BatchOrder, MCConflictResolver

OrderModes == {"adaptive", "adaptive_wccu_execution_trace",
               "adaptive_readset_occ"}

OrderWorkload == [MemoryWorkload EXCEPT !.scenarios = {Plain},
                                        !.modes = OrderModes]

\* One call on every workload, two on the order workload.
MCWorkloads == {MemoryWorkload, FileWorkload, ClaimWorkload, OrderWorkload}
MCCalledTwice == {OrderWorkload}

\* These generate every order of two and of three intents.
MCOrders == {<<2, 1>>, <<2, 1, 3>>, <<2, 3, 1>>}
=============================================================================
