SPECIFICATION Spec
CONSTANTS
    t1 = t1
    t2 = t2
    uart = uart
    disk = disk
    Tasks <- MCTasks
    Irqs <- MCIrqs
    irq_num <- MCirq_num
    MaxEvents = 2
INVARIANT
    InterruptReachesTrigger
CHECK_DEADLOCK FALSE
