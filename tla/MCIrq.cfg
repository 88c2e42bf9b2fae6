SPECIFICATION Spec
CONSTANTS
    t1 = t1
    t2 = t2
    uart = uart
    disk = disk
    Tasks <- MCTasks
    Irqs <- MCIrqs
    irq_num <- MCirq_num
    MaxEvents = 5
INVARIANTS
    HandlerFindsQueuesFree
    TrapNotNested
    WakeRemembered
    WaiterReachable
PROPERTIES
    InterruptServes
CHECK_DEADLOCK FALSE
