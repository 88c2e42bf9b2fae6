\* Two tasks that wait for the same interrupt.
SPECIFICATION Spec
CONSTANTS
    t1 = t1
    t2 = t2
    uart = uart
    disk = disk
    Tasks <- MCTasks
    Irqs <- MCIrqs
    irq_num <- MCirq_shared
    MaxEvents = 3
INVARIANT
    WaiterReachable
CHECK_DEADLOCK FALSE
